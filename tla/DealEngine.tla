----------------------------- MODULE DealEngine -----------------------------
(***************************************************************************)
(* services/deal-engine: workers of one consumer group turn                *)
(* LISTING_DISCOVERED entries (scans) into listings, price history and     *)
(* deals, announce new deals as DEAL_SCORED, and apply USER_INTERESTED     *)
(* entries (taps).  One entry is one PostgreSQL transaction under READ     *)
(* COMMITTED: a worker sees what is committed when a statement runs, its   *)
(* own writes become visible when it commits, and the locks it took are    *)
(* held until it commits or rolls back.                                    *)
(*                                                                         *)
(* A deal is named by the scan whose transaction inserted it.  Whether a   *)
(* scan clears the scoring thresholds is left open here: module Scoring    *)
(* models the scorer.                                                      *)
(*                                                                         *)
(* Definitions named Bug... are mutated forms of the definition that       *)
(* follows them.                                                           *)
(***************************************************************************)
EXTENDS Naturals, FiniteSets

CONSTANTS
  Worker,     \* deal-engine processes
  Listing,    \* (marketplace, external id) pairs
  LockKey,    \* LockKey[l]: l's advisory lock key; two listings may share one
  Scan,       \* entries of the stream LISTING_DISCOVERED
  Tap,        \* entries of the stream USER_INTERESTED
  Edges,      \* status moves made by services that are not in this repository
  NoEntry,    \* no entry
  NoListing,  \* no listing
  MaxFaults   \* bound: transactions that fail, processes that end

Entry == Scan \cup Tap

Terminal == {"EXPIRED", "IGNORED", "ORDERED", "PRICE_CHANGED_REJECTED",
             "SOLD_OUT_REJECTED"}
Open == {"SCORED", "NOTIFIED", "DEAL_SENT", "INTERESTED", "REVALIDATING",
         "CONFIRMED", "PRICE_CHANGED", "SOLD_OUT", "WATCHING"}
Status == Terminal \cup Open \cup {"NONE"}

ASSUME WorkerAssumption == IsFiniteSet(Worker)
ASSUME EntryAssumption ==
  /\ Scan \cap Tap = {}
  /\ \A s \in Scan, t \in Tap : s[1] # t[1]
  /\ NoEntry \notin Entry
  /\ NoListing \notin Listing
  /\ Scan \cap (Listing \cup {NoListing}) = {}
  /\ \A e \in Entry : e = <<e[1], e[2]>> /\ e[2] \in Nat
\* The other services leave terminal deals alone and delete no row.
ASSUME EdgesAssumption ==
  \A e \in Edges : e[1] \in Open /\ e[2] \in Terminal \cup Open
ASSUME MaxFaultsAssumption == MaxFaults \in Nat

VARIABLES
  waiting,    \* entries on the bus, not delivered to the group
  held,       \* held[w]: entries pending for w
  settled,    \* entries acknowledged
  body,       \* body[e]: a scan's listing, a tap's deal
  origin,     \* origin[e]: the entry that first carried e's event_id
  announced,  \* deals on the stream DEAL_SCORED
  seen,       \* seen[l]: the scan that listings' row for l shows
  products,   \* products: the scans that inserted a row
  history,    \* price_history: the scans that inserted a row
  status,     \* deals: status[d]
  overdue,    \* deals whose expires_at has passed
  marks,      \* processed_events: the event ids of this consumer service
  pc,         \* pc[w]: where worker w is
  job,        \* job[w]: the entry w works on
  txn,        \* txn[w]: uncommitted writes and locks of w's transaction
  faults      \* failures so far

busVars == <<waiting, held, settled, body, origin>>
db == <<seen, products, history, status, marks>>
workers == <<pc, job, txn, faults>>
vars == <<waiting, held, settled, body, origin, announced, seen, products,
          history, status, overdue, marks, pc, job, txn, faults>>

Bus == INSTANCE EventDelivery

Steps == {"down", "idle", "check", "find", "update", "insert",
          "record", "lock", "write", "publish", "decide", "judge", "mark",
          "commit", "ack"}

\* "listing", "deal" and "mark" also lock what they wrote; "advisory" and
\* "dealRow" are locks only.
Effects == {"listing", "product", "history", "advisory", "deal", "dealRow",
            "expire", "interest", "mark"}

TypeOK ==
  /\ waiting \subseteq Entry
  /\ held \in [Worker -> SUBSET Entry]
  /\ settled \subseteq Entry
  /\ body \in [Entry -> Listing \cup Scan \cup {NoListing}]
  /\ origin \in [Entry -> Entry]
  /\ announced \subseteq Scan
  /\ seen \in [Listing -> Scan \cup {NoEntry}]
  /\ products \subseteq Scan
  /\ history \subseteq Scan
  /\ status \in [Scan -> Status]
  /\ overdue \subseteq Scan
  /\ marks \subseteq Entry
  /\ pc \in [Worker -> Steps]
  /\ job \in [Worker -> Entry \cup {NoEntry}]
  /\ txn \in [Worker -> SUBSET Effects]
  /\ faults \in 0 .. MaxFaults

Init ==
  /\ Bus!Init
  /\ body = [e \in Entry |-> NoListing]
  /\ origin = [e \in Entry |-> e]
  /\ announced = {}
  /\ seen = [l \in Listing |-> NoEntry]
  /\ products = {}
  /\ history = {}
  /\ status = [d \in Scan |-> "NONE"]
  /\ overdue = {}
  /\ marks = {}
  /\ pc = [w \in Worker |-> "down"]
  /\ job = [w \in Worker |-> NoEntry]
  /\ txn = [w \in Worker |-> {}]
  /\ faults = 0

-----------------------------------------------------------------------------
(***************************************************************************)
(* The bus.  A connector publishes a scan of a listing; the bot publishes  *)
(* a tap on a deal it was told about.  Entries of a stream are added in    *)
(* their order.  A publisher whose reply was lost may send the same        *)
(* envelope again: the copy carries the event id and the body of its       *)
(* original.                                                               *)
(***************************************************************************)
InOrder(e) == \A f \in Entry : f[1] = e[1] /\ f[2] < e[2] => ~ Bus!IsNew(f)

Publish(e, b) ==
  /\ Bus!Add(e)
  /\ InOrder(e)
  /\ body' = [body EXCEPT ![e] = b]
  /\ UNCHANGED <<origin, db, announced, overdue, workers>>

PublishScan(e) == \E l \in Listing : Publish(e, l)
PublishTap(e) == \E d \in announced : Publish(e, d)

PublishAgain(e, o) ==
  /\ Bus!Add(e)
  /\ InOrder(e)
  /\ ~ Bus!IsNew(o)
  /\ o[1] = e[1]
  /\ origin[o] = o
  /\ body' = [body EXCEPT ![e] = body[o]]
  /\ origin' = [origin EXCEPT ![e] = o]
  /\ UNCHANGED <<db, announced, overdue, workers>>

(***************************************************************************)
(* The services around the engine move a deal along their own edges, with  *)
(* one statement that waits for a tap's row lock; and time passes.         *)
(***************************************************************************)
RowFree(d) ==
  \A w \in Worker : "dealRow" \in txn[w] => body[job[w]] # d

MoveDeal(d, s) ==
  /\ <<status[d], s>> \in Edges
  /\ RowFree(d)
  /\ status' = [status EXCEPT ![d] = s]
  /\ UNCHANGED <<busVars, seen, products, history, marks, announced, overdue,
                 workers>>

PassExpiry(d) ==
  /\ status[d] # "NONE"
  /\ d \notin overdue
  /\ overdue' = overdue \cup {d}
  /\ UNCHANGED <<busVars, db, announced, workers>>

-----------------------------------------------------------------------------
(***************************************************************************)
(* A worker reads an entry.  Reading by batches, and what a crash does to  *)
(* the rest of a batch, is module ConsumerGroup; here an entry counts as   *)
(* delivered when its worker turns to it.                                  *)
(***************************************************************************)
Start(w) ==
  /\ pc[w] = "down"
  /\ pc' = [pc EXCEPT ![w] = "idle"]
  /\ UNCHANGED <<busVars, db, announced, overdue, job, txn, faults>>

Take(w, e) ==
  /\ pc[w] = "idle"
  /\ Bus!Deliver(w, {e})
  /\ pc' = [pc EXCEPT ![w] = "check"]
  /\ job' = [job EXCEPT ![w] = e]
  /\ UNCHANGED <<body, origin, db, announced, overdue, txn, faults>>

\* One statement of w's transaction: it adds the effects E.
Step(w, to, E) ==
  /\ pc' = [pc EXCEPT ![w] = to]
  /\ txn' = [txn EXCEPT ![w] = @ \cup E]
  /\ UNCHANGED <<busVars, db, announced, overdue, job, faults>>

\* No other transaction holds the lock an effect takes on key[job].
Free(w, effect, key) ==
  \A v \in Worker \ {w} : effect \in txn[v] => key[job[v]] # key[job[w]]

\* process_once: is_processed.
BugCheckMark(w) ==                       \* not looked up
  /\ pc[w] = "check"
  /\ \/ job[w] \in Scan /\ Step(w, "find", {})
     \/ job[w] \in Tap /\ Step(w, "decide", {})
CheckMark(w) ==
  /\ pc[w] = "check"
  /\ \/ /\ origin[job[w]] \in marks
        /\ Step(w, "commit", {})
     \/ /\ origin[job[w]] \notin marks
        /\ \/ job[w] \in Scan /\ Step(w, "find", {})
           \/ job[w] \in Tap /\ Step(w, "decide", {})

-----------------------------------------------------------------------------
(***************************************************************************)
(* handle_listing_discovered.                                              *)
(***************************************************************************)
KeyOf == [e \in Scan |-> LockKey[body[e]]]

Known(w) == seen[body[job[w]]] # NoEntry

BugFindListing(w) ==                     \* SELECT ... FOR SHARE
  /\ pc[w] = "find"
  /\ \/ Known(w) /\ Step(w, "update", {"listing"})
     \/ ~ Known(w) /\ Step(w, "insert", {})
FindListing(w) ==
  /\ pc[w] = "find"
  /\ \/ Known(w) /\ Step(w, "update", {})
     \/ ~ Known(w) /\ Step(w, "insert", {})

UpdateListing(w) ==
  /\ pc[w] = "update"
  /\ Free(w, "listing", body)
  /\ Step(w, "record", {"listing"})

\* A product row is inserted, then the listing row: its unique key waits for
\* whoever is inserting it, and ON CONFLICT DO NOTHING if that one commits.
BugInsertListing(w) ==
  /\ pc[w] = "insert"
  /\ Free(w, "listing", body)
  /\ Step(w, "record", {"listing"})
InsertListing(w) ==
  /\ pc[w] = "insert"
  /\ Free(w, "listing", body)
  /\ \/ Known(w) /\ Step(w, "record", {"product"})
     \/ ~ Known(w) /\ Step(w, "record", {"product", "listing"})

\* The observation is recorded; the score clears the thresholds or not.
Record(w) ==
  /\ pc[w] = "record"
  /\ \E to \in {"lock", "mark"} : Step(w, to, {"history"})

BugLockListing(w) == pc[w] = "lock" /\ Step(w, "write", {"advisory"})
LockListing(w) ==
  /\ pc[w] = "lock"
  /\ Free(w, "advisory", KeyOf)
  /\ Step(w, "write", {"advisory"})

HasOpenDeal(l) == \E d \in Scan : body[d] = l /\ status[d] \in Open

WriteDeal(w) ==
  /\ pc[w] = "write"
  /\ \/ HasOpenDeal(body[job[w]]) /\ Step(w, "mark", {})
     \/ ~ HasOpenDeal(body[job[w]]) /\ Step(w, "publish", {"deal"})

BugAnnounce(w) ==
  /\ pc[w] = "publish"
  /\ pc' = [pc EXCEPT ![w] = "mark"]
  /\ announced' = announced \cup {body[job[w]]}
  /\ UNCHANGED <<busVars, db, overdue, job, txn, faults>>
BugPublishDeal(w) == pc[w] = "publish" /\ Step(w, "mark", {})
\* XADD of DEAL_SCORED: outside the transaction, before its commit.
PublishDeal(w) ==
  /\ pc[w] = "publish"
  /\ pc' = [pc EXCEPT ![w] = "mark"]
  /\ announced' = announced \cup {job[w]}
  /\ UNCHANGED <<busVars, db, overdue, job, txn, faults>>

-----------------------------------------------------------------------------
(***************************************************************************)
(* handle_user_interested: SELECT ... FOR UPDATE waits for the row, then   *)
(* the guards run in the code's order.                                     *)
(***************************************************************************)
BugLockDeal(w) ==
  /\ pc[w] = "decide"
  /\ \/ status[body[job[w]]] = "NONE" /\ Step(w, "mark", {})
     \/ status[body[job[w]]] # "NONE" /\ Step(w, "judge", {})
LockDeal(w) ==
  /\ pc[w] = "decide"
  /\ Free(w, "dealRow", body)
  /\ \/ status[body[job[w]]] = "NONE" /\ Step(w, "mark", {})
     \/ status[body[job[w]]] # "NONE" /\ Step(w, "judge", {"dealRow"})

Judge(w) ==
  LET d == body[job[w]] IN
  /\ pc[w] = "judge"
  /\ \/ /\ status[d] # "EXPIRED"
        /\ d \in overdue
        /\ Step(w, "mark", {"expire"})
     \/ /\ d \notin overdue
        /\ status[d] = "DEAL_SENT"
        /\ Step(w, "mark", {"interest"})
     \/ /\ status[d] = "EXPIRED" \/ (d \notin overdue /\ status[d] # "DEAL_SENT")
        /\ Step(w, "mark", {})

-----------------------------------------------------------------------------
(***************************************************************************)
(* mark_processed waits for a transaction that is marking the same event   *)
(* id, and does nothing if that one committed.  Then COMMIT, then XACK.    *)
(***************************************************************************)
BugMark(w) == pc[w] = "mark" /\ Step(w, "commit", {})  \* not marked
BugMarkRetries(w) ==                     \* a mark that is there is tried again
  /\ pc[w] = "mark"
  /\ Free(w, "mark", origin)
  /\ origin[job[w]] \notin marks
  /\ Step(w, "commit", {"mark"})
Mark(w) ==
  /\ pc[w] = "mark"
  /\ Free(w, "mark", origin)
  /\ \/ origin[job[w]] \in marks /\ Step(w, "commit", {})
     \/ origin[job[w]] \notin marks /\ Step(w, "commit", {"mark"})

With(set, e, written) == IF written THEN set \cup {e} ELSE set

Commit(w) ==
  LET e == job[w]
      t == txn[w]
  IN
  /\ pc[w] = "commit"
  /\ seen' = IF "listing" \in t THEN [seen EXCEPT ![body[e]] = e] ELSE seen
  /\ products' = With(products, e, "product" \in t)
  /\ history' = With(history, e, "history" \in t)
  /\ status' = IF "deal" \in t THEN [status EXCEPT ![e] = "SCORED"]
               ELSE IF "expire" \in t THEN [status EXCEPT ![body[e]] = "EXPIRED"]
               ELSE IF "interest" \in t THEN [status EXCEPT ![body[e]] = "INTERESTED"]
               ELSE status
  /\ marks' = With(marks, origin[e], "mark" \in t)
  /\ txn' = [txn EXCEPT ![w] = {}]
  /\ pc' = [pc EXCEPT ![w] = "ack"]
  /\ UNCHANGED <<busVars, announced, overdue, job, faults>>

Ack(w) ==
  /\ pc[w] = "ack"
  /\ Bus!Settle(w, job[w])
  /\ pc' = [pc EXCEPT ![w] = "idle"]
  /\ job' = [job EXCEPT ![w] = NoEntry]
  /\ UNCHANGED <<body, origin, db, announced, overdue, txn, faults>>

\* The handler raises, a call fails, a reply is lost, or the process is
\* killed: the database rolls back and the container starts the process again.
Fail(w) ==
  /\ pc[w] # "down"
  /\ faults < MaxFaults
  /\ faults' = faults + 1
  /\ pc' = [pc EXCEPT ![w] = "down"]
  /\ job' = [job EXCEPT ![w] = NoEntry]
  /\ txn' = [txn EXCEPT ![w] = {}]
  /\ UNCHANGED <<busVars, db, announced, overdue>>

-----------------------------------------------------------------------------
HandleListing(w) ==
  \/ FindListing(w) \/ UpdateListing(w) \/ InsertListing(w)
  \/ Record(w) \/ LockListing(w) \/ WriteDeal(w) \/ PublishDeal(w)

HandleTap(w) == LockDeal(w) \/ Judge(w)

Work(w) ==
  \/ Start(w)
  \/ \E e \in waiting : Take(w, e)
  \/ CheckMark(w)
  \/ HandleListing(w)
  \/ HandleTap(w)
  \/ Mark(w) \/ Commit(w) \/ Ack(w)

Around ==
  \/ \E e \in Scan : PublishScan(e)
  \/ \E e \in Tap : PublishTap(e)
  \/ \E e, o \in Entry : PublishAgain(e, o)
  \/ \E d \in Scan, s \in Status : MoveDeal(d, s)
  \/ \E d \in Scan : PassExpiry(d)

Next == Around \/ \E w \in Worker : Work(w) \/ Fail(w)

Spec == Init /\ [][Next]_vars

\* A process that runs takes its next step, and Docker restarts one that
\* ended; nobody has to publish, to move a deal or to fail.
FairSpec == Spec /\ \A w \in Worker : WF_vars(Work(w))

-----------------------------------------------------------------------------
(***************************************************************************)
(* Properties.                                                             *)
(***************************************************************************)

\* deal_writer.py: at most one deal of a listing is open, with any number of
\* workers scanning the listing at once.
OneOpenDealPerListing ==
  \A d, e \in Scan :
    body[d] = body[e] /\ {status[d], status[e]} \subseteq Open => d = e

\* main.py: the dedup mark and the work commit together.  What an entry
\* wrote is there only with the mark of its event id, and a marked scan was
\* recorded by an entry that carried its id.
MarkAgreesWithWork ==
  /\ \A e \in Scan : e \in history => origin[e] \in marks
  /\ \A d \in Scan : status[d] # "NONE" => d \in history
  /\ \A m \in marks \cap Scan : \E e \in history : origin[e] = m

\* dedup.py, is_processed and mark_processed: the lookup and the mark are two
\* statements, so entries that carry the event id m and are handled at the
\* same time are all applied.  However many copies of m are published, in
\* whatever order they are read, tried again and lost, they leave at most
\* one observation for each worker.
Applied(m) == {e \in history : origin[e] = m}

CopiesAreBounded == \A m \in Scan : Cardinality(Applied(m)) <= Cardinality(Worker)

\* consumer.py: an entry is acknowledged only after its transaction is in.
SettledIsMarked == \A e \in settled : origin[e] \in marks

\* event_handlers.py: a deal that is in the table was announced, whatever
\* failed between the insert, the XADD and the commit.
CommittedDealIsAnnounced == \A d \in Scan : status[d] # "NONE" => d \in announced

\* _upsert_listing: a listing's row shows an observation of that listing that
\* price_history also has, and a product was inserted for it.
ListingIsBacked ==
  \A l \in Listing : seen[l] # NoEntry =>
    /\ seen[l] \in history
    /\ body[seen[l]] = l
    /\ \E e \in products : body[e] = l

\* The statement w is at waits for a lock that v's transaction holds.
WaitsFor(w, v) ==
  /\ v # w
  /\ \/ /\ pc[w] \in {"update", "insert"}
        /\ "listing" \in txn[v]
        /\ body[job[v]] = body[job[w]]
     \/ /\ pc[w] = "lock"
        /\ "advisory" \in txn[v]
        /\ KeyOf[job[v]] = KeyOf[job[w]]
     \/ /\ pc[w] = "decide"
        /\ "dealRow" \in txn[v]
        /\ body[job[v]] = body[job[w]]
     \/ /\ pc[w] = "mark"
        /\ "mark" \in txn[v]
        /\ origin[job[v]] = origin[job[w]]

\* deal_repo.py, acquire_listing_lock, with the listing's row lock, a deal's
\* row lock and the mark's key: transactions take their locks in an order
\* that lets no set of them wait for each other in a circle, so PostgreSQL
\* has no deadlock to break by failing one of them.
NobodyWaitsInACircle ==
  \A S \in SUBSET Worker :
    (\A w \in S : \E v \in S : WaitsFor(w, v)) => S = {}

Home == [d \in Scan |-> IF status[d] = "NONE" THEN NoListing ELSE body[d]]

Lifecycle == INSTANCE DealLifecycle WITH Deal <- Scan, home <- Home

\* The deals table, with every worker, transaction and lock hidden, moves as
\* DealLifecycle says: a tap moves DEAL_SENT to INTERESTED and nothing else.
ImplementsLifecycle == Lifecycle!Spec

\* While nothing fails, every entry of the bus is handled to the end: no
\* worker waits for ever for a listing row, an advisory lock, a deal row or
\* a mark that another one holds.
PublishedIsHandled ==
  \A e \in Entry : e \in waiting ~> e \in settled \/ faults > 0

\* STATE_TRANSITIONS.md: EXPIRED, IGNORED, ORDERED and the two REJECTED
\* statuses are terminal; event_handlers.py: a tap on a terminal deal "is
\* rejected as a no-op".
TerminalIsFinal ==
  [][\A d \in Scan : status[d] \in Terminal => status'[d] = status[d]]_vars

\* What the code does keep of that: a deal that is over never opens again,
\* and all that can still happen to it is that a tap finds it overdue and
\* writes EXPIRED over its status, however many taps, copies and other
\* services touch it at once (event_handlers.py, deal_repo.py).
TerminalOnlyExpires ==
  [][\A d \in Scan : status[d] \in Terminal /\ status'[d] # status[d] =>
       d \in overdue /\ status'[d] = "EXPIRED"]_vars

============================================================================
