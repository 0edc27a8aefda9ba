-------------------------- MODULE DealEngineProofs --------------------------
(***************************************************************************)
(* Proofs of the Deal Engine's safety properties, for any workers,         *)
(* listings, entries, lock keys and edges.                                 *)
(*                                                                         *)
(* Inv strengthens them with what a transaction that has not committed yet *)
(* rests on: which entry it works on, which effects it may carry at each   *)
(* step, and what its locks keep the other transactions from changing.     *)
(***************************************************************************)
EXTENDS DealEngine, FiniteSetTheorems, TLAPS

OnBus(e) == ~ Bus!IsNew(e)

ScanEffects == {"listing", "product", "history", "advisory", "deal", "mark"}
TapEffects == {"dealRow", "expire", "interest", "mark"}

\* An entry is in one place of the bus, and what it says is fixed.
EntriesOK ==
  /\ \A w \in Worker : held[w] \cap (waiting \cup settled) = {}
  /\ \A v, w \in Worker : v # w => held[v] \cap held[w] = {}
  /\ waiting \cap settled = {}
  /\ \A e \in Scan : OnBus(e) => body[e] \in Listing
  /\ \A e \in Tap : OnBus(e) => body[e] \in Scan
  /\ \A e \in Entry : e \in Scan <=> origin[e] \in Scan
  /\ \A e \in history : OnBus(e) /\ e \notin waiting
  /\ products \subseteq history

JobOK(w) ==
  /\ pc[w] \in {"down", "idle"} => job[w] = NoEntry
  /\ pc[w] \notin {"down", "idle"} => job[w] \in held[w]
  /\ pc[w] \in {"find", "update", "insert", "record", "lock", "write", "publish"}
       => job[w] \in Scan
  /\ pc[w] \in {"decide", "judge"} => job[w] \in Tap
  /\ pc[w] # "ack" => job[w] \notin history
  /\ pc[w] = "ack" => origin[job[w]] \in marks

TxnOK(w) ==
  /\ pc[w] \in {"down", "idle", "check", "find", "update", "insert", "decide",
                "ack"} => txn[w] = {}
  /\ job[w] \in Scan => txn[w] \subseteq ScanEffects
  /\ job[w] \in Tap => txn[w] \subseteq TapEffects
  /\ job[w] \in Scan /\ pc[w] # "record"
       /\ (txn[w] # {} \/ pc[w] \in {"lock", "write", "publish", "mark"})
     => "history" \in txn[w]
  /\ pc[w] = "commit" => origin[job[w]] \in marks \/ "mark" \in txn[w]
  /\ pc[w] = "update" => Known(w)
  /\ "listing" \in txn[w] => "product" \in txn[w] \/ Known(w)

\* A deal that is about to be committed has its listing to itself.
DealOK(w) ==
  /\ pc[w] = "write" => "advisory" \in txn[w]
  /\ pc[w] = "publish" => "deal" \in txn[w]
  /\ "deal" \in txn[w] =>
       /\ "advisory" \in txn[w]
       /\ ~ HasOpenDeal(body[job[w]])
       /\ pc[w] = "publish" \/ job[w] \in announced

\* A tap that decided to move a deal keeps the deal as it read it.
RowOK(w) ==
  /\ pc[w] = "judge" => "dealRow" \in txn[w]
  /\ "dealRow" \in txn[w] => status[body[job[w]]] # "NONE"
  /\ "interest" \in txn[w] => /\ "dealRow" \in txn[w]
                              /\ status[body[job[w]]] = "DEAL_SENT"
  /\ "expire" \in txn[w] => /\ "dealRow" \in txn[w]
                            /\ body[job[w]] \in overdue
                            /\ status[body[job[w]]] # "EXPIRED"

LocksOK ==
  \A v, w \in Worker : v # w =>
    /\ {"advisory"} \subseteq txn[v] \cap txn[w] =>
         LockKey[body[job[v]]] # LockKey[body[job[w]]]
    /\ {"dealRow"} \subseteq txn[v] \cap txn[w] => body[job[v]] # body[job[w]]

Safe ==
  /\ OneOpenDealPerListing
  /\ MarkAgreesWithWork
  /\ SettledIsMarked
  /\ CommittedDealIsAnnounced
  /\ ListingIsBacked

Inv ==
  /\ TypeOK
  /\ EntriesOK
  /\ \A w \in Worker : JobOK(w) /\ TxnOK(w) /\ DealOK(w) /\ RowOK(w)
  /\ LocksOK
  /\ Safe
-----------------------------------------------------------------------------
LEMMA InitInv == Init => Inv
  BY EntryAssumption, MaxFaultsAssumption
  DEF Init, Inv, TypeOK, Bus!Init, Entry, Steps, Status, EntriesOK, OnBus,
      Bus!IsNew, JobOK, TxnOK, DealOK, RowOK, LocksOK, Safe, Open, Terminal,
      OneOpenDealPerListing, MarkAgreesWithWork, SettledIsMarked,
      CommittedDealIsAnnounced, ListingIsBacked

\* What a worker relies on survives a step in which it does not move, when
\* the step keeps what its uncommitted effects were decided from.
LEMMA Bystander ==
  ASSUME Inv, NEW w \in Worker,
         pc'[w] = pc[w], job'[w] = job[w], txn'[w] = txn[w], held'[w] = held[w],
         \A e \in Entry : OnBus(e) => body'[e] = body[e] /\ origin'[e] = origin[e],
         \A l \in Listing : seen[l] # NoEntry => seen'[l] # NoEntry,
         job[w] \in history' => job[w] \in history,
         marks \subseteq marks', announced \subseteq announced',
         overdue \subseteq overdue',
         "dealRow" \in txn[w] => status'[body[job[w]]] = status[body[job[w]]],
         "deal" \in txn[w] =>
           \A d \in Scan : ~ (body'[d] = body[job[w]] /\ status'[d] \in Open)
  PROVE  JobOK(w)' /\ TxnOK(w)' /\ DealOK(w)' /\ RowOK(w)'
<1>1. /\ JobOK(w) /\ TxnOK(w) /\ DealOK(w) /\ RowOK(w)
      /\ pc[w] \in Steps
      /\ job[w] \in Entry \cup {NoEntry}
      /\ txn[w] \in SUBSET Effects
      /\ EntriesOK
  BY DEF Inv, TypeOK
<1>2. ASSUME pc[w] \notin {"down", "idle"}
      PROVE  /\ job[w] \in Entry
             /\ OnBus(job[w])
             /\ body'[job[w]] = body[job[w]]
             /\ origin'[job[w]] = origin[job[w]]
  BY <1>1, <1>2, EntryAssumption DEF JobOK, OnBus, Bus!IsNew, Inv, TypeOK
<1>3. txn[w] # {} => pc[w] \notin {"down", "idle"}
  BY <1>1 DEF TxnOK
<1>4. JobOK(w)'
  BY <1>1, <1>2 DEF JobOK
<1>5. Known(w) /\ pc[w] \notin {"down", "idle"} /\ job[w] \in Scan => Known(w)'
  BY <1>1, <1>2 DEF Known, EntriesOK
<1>6. TxnOK(w)'
  <2>1. "listing" \in txn[w] => job[w] \in Scan
    BY <1>1, <1>2, <1>3, EntryAssumption DEF TxnOK, Entry, TapEffects
  <2>2. pc[w] = "update" => job[w] \in Scan
    BY <1>1 DEF JobOK
  <2> QED BY <1>1, <1>2, <1>3, <1>5, <2>1, <2>2 DEF TxnOK
<1>7. DealOK(w)'
  BY <1>1, <1>2, <1>3 DEF DealOK, HasOpenDeal
<1>8. RowOK(w)'
  BY <1>1, <1>2, <1>3 DEF RowOK
<1> QED BY <1>4, <1>6, <1>7, <1>8

-----------------------------------------------------------------------------
(***************************************************************************)
(* One statement of a transaction.                                         *)
(***************************************************************************)
LEMMA StatementInv ==
  ASSUME Inv, NEW w \in Worker, NEW to \in Steps, NEW E \in SUBSET Effects,
         Step(w, to, E),
         JobOK(w)' /\ TxnOK(w)' /\ DealOK(w)' /\ RowOK(w)',
         "advisory" \in E => Free(w, "advisory", KeyOf),
         "dealRow" \in E => Free(w, "dealRow", body)
  PROVE  Inv'
<1>1. /\ \A v \in Worker \ {w} : pc'[v] = pc[v] /\ txn'[v] = txn[v]
      /\ txn'[w] = txn[w] \cup E
      /\ UNCHANGED <<waiting, held, settled, body, origin, seen, products, history,
                     status, marks, announced, overdue, job, faults>>
  BY DEF Step, Inv, TypeOK, busVars, db
<1>2. TypeOK'
  BY <1>1 DEF Inv, TypeOK, Step
<1>3. EntriesOK'
  BY <1>1 DEF Inv, EntriesOK, OnBus, Bus!IsNew
<1>4. \A v \in Worker : JobOK(v)' /\ TxnOK(v)' /\ DealOK(v)' /\ RowOK(v)'
  <2>1. ASSUME NEW v \in Worker, v # w
        PROVE  JobOK(v)' /\ TxnOK(v)' /\ DealOK(v)' /\ RowOK(v)'
    <3>1. "deal" \in txn[v] =>
            \A d \in Scan : ~ (body'[d] = body[job[v]] /\ status'[d] \in Open)
      BY <1>1 DEF Inv, DealOK, HasOpenDeal
    <3> QED BY <1>1, <2>1, <3>1, Bystander
  <2> QED BY <2>1
<1>5. LocksOK'
  <2>1. \A v \in Worker : "advisory" \in txn'[v] => job'[v] \in Scan
    BY <1>1, <1>2, <1>4, EntryAssumption
    DEF JobOK, TxnOK, TypeOK, Entry, TapEffects
  <2>2. ASSUME NEW v \in Worker, v # w, "advisory" \in E, "advisory" \in txn[v]
        PROVE  LockKey[body[job[v]]] # LockKey[body[job[w]]]
    BY <1>1, <2>1, <2>2 DEF Free, KeyOf
  <2> QED BY <1>1, <2>2 DEF Inv, LocksOK, Free
<1>6. Safe'
  BY <1>1 DEF Inv, Safe, OneOpenDealPerListing, MarkAgreesWithWork,
              SettledIsMarked, CommittedDealIsAnnounced, ListingIsBacked
<1> QED BY <1>2, <1>3, <1>4, <1>5, <1>6 DEF Inv

\* What the worker that takes a step knows of itself.
LEMMA Own ==
  ASSUME Inv, NEW w \in Worker, NEW to \in Steps, NEW E \in SUBSET Effects,
         Step(w, to, E)
  PROVE  /\ JobOK(w) /\ TxnOK(w) /\ DealOK(w) /\ RowOK(w)
         /\ pc'[w] = to /\ txn'[w] = txn[w] \cup E /\ job'[w] = job[w]
         /\ held'[w] = held[w] /\ history' = history /\ marks' = marks
         /\ origin' = origin /\ body' = body /\ status' = status
         /\ overdue' = overdue /\ announced' = announced /\ seen' = seen
         /\ job[w] \in Scan => job[w] \notin Tap
         /\ job[w] \in Entry \cup {NoEntry} /\ NoEntry \notin Entry
  BY EntryAssumption DEF Step, Inv, TypeOK, busVars, db

LEMMA CheckMarkInv == ASSUME Inv, NEW w \in Worker, CheckMark(w) PROVE Inv'
<1>1. CASE origin[job[w]] \in marks /\ Step(w, "commit", {})
  <2>1. JobOK(w)' /\ TxnOK(w)' /\ DealOK(w)' /\ RowOK(w)'
    BY <1>1, Own DEF CheckMark, JobOK, TxnOK, DealOK, RowOK, Steps
  <2> QED BY <1>1, <2>1, StatementInv DEF Steps
<1>2. CASE job[w] \in Scan /\ Step(w, "find", {})
  <2>1. JobOK(w)' /\ TxnOK(w)' /\ DealOK(w)' /\ RowOK(w)'
    BY <1>2, Own DEF CheckMark, JobOK, TxnOK, DealOK, RowOK, Steps
  <2> QED BY <1>2, <2>1, StatementInv DEF Steps
<1>3. CASE job[w] \in Tap /\ Step(w, "decide", {})
  <2>1. JobOK(w)' /\ TxnOK(w)' /\ DealOK(w)' /\ RowOK(w)'
    BY <1>3, Own DEF CheckMark, JobOK, TxnOK, DealOK, RowOK, Steps
  <2> QED BY <1>3, <2>1, StatementInv DEF Steps
<1> QED BY <1>1, <1>2, <1>3 DEF CheckMark

LEMMA FindListingInv == ASSUME Inv, NEW w \in Worker, FindListing(w) PROVE Inv'
<1>1. CASE Known(w) /\ Step(w, "update", {})
  <2>1. JobOK(w)' /\ TxnOK(w)' /\ DealOK(w)' /\ RowOK(w)'
    BY <1>1, Own DEF FindListing, JobOK, TxnOK, DealOK, RowOK, Steps, Known
  <2> QED BY <1>1, <2>1, StatementInv DEF Steps
<1>2. CASE Step(w, "insert", {})
  <2>1. JobOK(w)' /\ TxnOK(w)' /\ DealOK(w)' /\ RowOK(w)'
    BY <1>2, Own DEF FindListing, JobOK, TxnOK, DealOK, RowOK, Steps
  <2> QED BY <1>2, <2>1, StatementInv DEF Steps
<1> QED BY <1>1, <1>2 DEF FindListing

LEMMA UpdateListingInv == ASSUME Inv, NEW w \in Worker, UpdateListing(w) PROVE Inv'
<1>1. Step(w, "record", {"listing"}) /\ pc[w] = "update"
  BY DEF UpdateListing
<1>2. JobOK(w)' /\ TxnOK(w)' /\ DealOK(w)' /\ RowOK(w)'
  BY <1>1, Own DEF JobOK, TxnOK, DealOK, RowOK, Steps, Effects, Known, ScanEffects
<1> QED BY <1>1, <1>2, StatementInv DEF Steps, Effects

LEMMA InsertListingInv == ASSUME Inv, NEW w \in Worker, InsertListing(w) PROVE Inv'
<1>1. PICK E \in {{"product"}, {"product", "listing"}} :
        Step(w, "record", E) /\ pc[w] = "insert"
  BY DEF InsertListing
<1>2. JobOK(w)' /\ TxnOK(w)' /\ DealOK(w)' /\ RowOK(w)'
  BY <1>1, Own DEF JobOK, TxnOK, DealOK, RowOK, Steps, Effects, ScanEffects
<1> QED BY <1>1, <1>2, StatementInv DEF Steps, Effects

LEMMA RecordInv == ASSUME Inv, NEW w \in Worker, Record(w) PROVE Inv'
<1>1. PICK to \in {"lock", "mark"} :
        Step(w, to, {"history"}) /\ pc[w] = "record"
  BY DEF Record
<1>2. JobOK(w)' /\ TxnOK(w)' /\ DealOK(w)' /\ RowOK(w)'
  BY <1>1, Own DEF JobOK, TxnOK, DealOK, RowOK, Steps, Effects, ScanEffects, Known,
                   HasOpenDeal
<1> QED BY <1>1, <1>2, StatementInv DEF Steps, Effects

LEMMA LockListingInv == ASSUME Inv, NEW w \in Worker, LockListing(w) PROVE Inv'
<1>1. /\ Step(w, "write", {"advisory"})
      /\ pc[w] = "lock"
      /\ Free(w, "advisory", KeyOf)
  BY DEF LockListing
<1>2. JobOK(w)' /\ TxnOK(w)' /\ DealOK(w)' /\ RowOK(w)'
  BY <1>1, Own DEF JobOK, TxnOK, DealOK, RowOK, Steps, Effects, ScanEffects, Known,
                   HasOpenDeal
<1> QED BY <1>1, <1>2, StatementInv DEF Steps, Effects

LEMMA WriteDealInv == ASSUME Inv, NEW w \in Worker, WriteDeal(w) PROVE Inv'
<1>1. CASE HasOpenDeal(body[job[w]]) /\ Step(w, "mark", {})
  <2>1. JobOK(w)' /\ TxnOK(w)' /\ DealOK(w)' /\ RowOK(w)'
    BY <1>1, Own DEF WriteDeal, JobOK, TxnOK, DealOK, RowOK, Steps, Known
  <2> QED BY <1>1, <2>1, StatementInv DEF Steps
<1>2. CASE ~ HasOpenDeal(body[job[w]]) /\ Step(w, "publish", {"deal"})
  <2>1. JobOK(w)' /\ TxnOK(w)' /\ DealOK(w)' /\ RowOK(w)'
    BY <1>2, Own DEF WriteDeal, JobOK, TxnOK, DealOK, RowOK, Steps, Effects,
                     ScanEffects, Known, HasOpenDeal
  <2> QED BY <1>2, <2>1, StatementInv DEF Steps, Effects
<1> QED BY <1>1, <1>2 DEF WriteDeal

LEMMA LockDealInv == ASSUME Inv, NEW w \in Worker, LockDeal(w) PROVE Inv'
<1>1. CASE Step(w, "mark", {})
  <2>1. JobOK(w)' /\ TxnOK(w)' /\ DealOK(w)' /\ RowOK(w)'
    BY <1>1, Own, EntryAssumption DEF LockDeal, JobOK, TxnOK, DealOK, RowOK, Steps
  <2> QED BY <1>1, <2>1, StatementInv DEF Steps
<1>2. CASE status[body[job[w]]] # "NONE" /\ Step(w, "judge", {"dealRow"})
  <2>1. JobOK(w)' /\ TxnOK(w)' /\ DealOK(w)' /\ RowOK(w)'
    BY <1>2, Own, EntryAssumption
    DEF LockDeal, JobOK, TxnOK, DealOK, RowOK, Steps, Effects, TapEffects
  <2> QED BY <1>2, <2>1, StatementInv DEF LockDeal, Steps, Effects
<1> QED BY <1>1, <1>2 DEF LockDeal

LEMMA JudgeInv == ASSUME Inv, NEW w \in Worker, Judge(w) PROVE Inv'
<1> DEFINE d == body[job[w]]
<1>1. pc[w] = "judge"
  BY DEF Judge
<1>2. CASE status[d] # "EXPIRED" /\ d \in overdue /\ Step(w, "mark", {"expire"})
  <2>1. JobOK(w)' /\ TxnOK(w)' /\ DealOK(w)' /\ RowOK(w)'
    BY <1>1, <1>2, Own, EntryAssumption
    DEF JobOK, TxnOK, DealOK, RowOK, Steps, Effects, TapEffects
  <2> QED BY <1>2, <2>1, StatementInv DEF Steps, Effects
<1>3. CASE status[d] = "DEAL_SENT" /\ Step(w, "mark", {"interest"})
  <2>1. JobOK(w)' /\ TxnOK(w)' /\ DealOK(w)' /\ RowOK(w)'
    BY <1>1, <1>3, Own, EntryAssumption
    DEF JobOK, TxnOK, DealOK, RowOK, Steps, Effects, TapEffects
  <2> QED BY <1>3, <2>1, StatementInv DEF Steps, Effects
<1>4. CASE Step(w, "mark", {})
  <2>1. JobOK(w)' /\ TxnOK(w)' /\ DealOK(w)' /\ RowOK(w)'
    BY <1>1, <1>4, Own, EntryAssumption
    DEF JobOK, TxnOK, DealOK, RowOK, Steps, Effects, TapEffects
  <2> QED BY <1>4, <2>1, StatementInv DEF Steps, Effects
<1> QED BY <1>2, <1>3, <1>4 DEF Judge

LEMMA MarkInv == ASSUME Inv, NEW w \in Worker, Mark(w) PROVE Inv'
<1>1. CASE origin[job[w]] \in marks /\ Step(w, "commit", {})
  <2>1. JobOK(w)' /\ TxnOK(w)' /\ DealOK(w)' /\ RowOK(w)'
    BY <1>1, Own DEF Mark, JobOK, TxnOK, DealOK, RowOK, Steps, Known, HasOpenDeal
  <2> QED BY <1>1, <2>1, StatementInv DEF Steps
<1>2. CASE Step(w, "commit", {"mark"})
  <2>1. JobOK(w)' /\ TxnOK(w)' /\ DealOK(w)' /\ RowOK(w)'
    BY <1>2, Own DEF Mark, JobOK, TxnOK, DealOK, RowOK, Steps, Effects,
                     ScanEffects, TapEffects, Known, HasOpenDeal
  <2> QED BY <1>2, <2>1, StatementInv DEF Steps, Effects
<1> QED BY <1>1, <1>2 DEF Mark

-----------------------------------------------------------------------------
(***************************************************************************)
(* The other steps of a worker.                                            *)
(***************************************************************************)
LEMMA PublishDealInv == ASSUME Inv, NEW w \in Worker, PublishDeal(w) PROVE Inv'
<1>1. /\ \A v \in Worker \ {w} : pc'[v] = pc[v]
      /\ pc[w] = "publish" /\ pc'[w] = "mark"
      /\ announced' = announced \cup {job[w]}
      /\ UNCHANGED <<waiting, held, settled, body, origin, seen, products, history,
                     status, marks, overdue, job, txn, faults>>
  BY DEF PublishDeal, Inv, TypeOK, busVars, db
<1>2. job[w] \in Scan
  BY <1>1 DEF Inv, JobOK
<1>3. TypeOK'
  BY <1>1, <1>2 DEF Inv, TypeOK, PublishDeal, Steps
<1>4. EntriesOK'
  BY <1>1 DEF Inv, EntriesOK, OnBus, Bus!IsNew
<1>5. ASSUME NEW v \in Worker
      PROVE  JobOK(v)' /\ TxnOK(v)' /\ DealOK(v)' /\ RowOK(v)'
  <2>1. JobOK(v) /\ TxnOK(v) /\ DealOK(v) /\ RowOK(v)
    BY DEF Inv
  <2>2. CASE v = w
    BY <1>1, <1>2, <2>1, <2>2
    DEF JobOK, TxnOK, DealOK, RowOK, Known, HasOpenDeal
  <2>3. CASE v # w
    BY <1>1, <2>1, <2>3 DEF JobOK, TxnOK, DealOK, RowOK, Known, HasOpenDeal
  <2> QED BY <2>2, <2>3
<1>6. LocksOK'
  BY <1>1 DEF Inv, LocksOK
<1>7. Safe'
  BY <1>1 DEF Inv, Safe, OneOpenDealPerListing, MarkAgreesWithWork,
              SettledIsMarked, CommittedDealIsAnnounced, ListingIsBacked
<1> QED BY <1>3, <1>4, <1>5, <1>6, <1>7 DEF Inv

LEMMA StartInv == ASSUME Inv, NEW w \in Worker, Start(w) PROVE Inv'
<1>1. /\ \A v \in Worker \ {w} : pc'[v] = pc[v]
      /\ pc[w] = "down" /\ pc'[w] = "idle"
      /\ UNCHANGED <<waiting, held, settled, body, origin, seen, products, history,
                     status, marks, announced, overdue, job, txn, faults>>
  BY DEF Start, Inv, TypeOK, busVars, db
<1>2. TypeOK'
  BY <1>1 DEF Inv, TypeOK, Start, Steps
<1>3. EntriesOK'
  BY <1>1 DEF Inv, EntriesOK, OnBus, Bus!IsNew
<1>4. ASSUME NEW v \in Worker
      PROVE  JobOK(v)' /\ TxnOK(v)' /\ DealOK(v)' /\ RowOK(v)'
  <2>1. JobOK(v) /\ TxnOK(v) /\ DealOK(v) /\ RowOK(v)
    BY DEF Inv
  <2>2. CASE v = w
    BY <1>1, <2>1, <2>2, EntryAssumption
    DEF JobOK, TxnOK, DealOK, RowOK, Entry, Known, HasOpenDeal
  <2>3. CASE v # w
    BY <1>1, <2>1, <2>3 DEF JobOK, TxnOK, DealOK, RowOK, Known, HasOpenDeal
  <2> QED BY <2>2, <2>3
<1>5. LocksOK'
  BY <1>1 DEF Inv, LocksOK
<1>6. Safe'
  BY <1>1 DEF Inv, Safe, OneOpenDealPerListing, MarkAgreesWithWork,
              SettledIsMarked, CommittedDealIsAnnounced, ListingIsBacked
<1> QED BY <1>2, <1>3, <1>4, <1>5, <1>6 DEF Inv

LEMMA TakeInv ==
  ASSUME Inv, NEW w \in Worker, NEW e \in waiting, Take(w, e) PROVE Inv'
<1>1. /\ \A v \in Worker \ {w} :
           pc'[v] = pc[v] /\ job'[v] = job[v] /\ held'[v] = held[v]
      /\ pc[w] = "idle" /\ pc'[w] = "check" /\ job'[w] = e
      /\ held'[w] = held[w] \cup {e} /\ waiting' = waiting \ {e}
      /\ UNCHANGED <<settled, body, origin, seen, products, history, status,
                     marks, announced, overdue, txn, faults>>
      /\ e \in Entry
  BY DEF Take, Bus!Deliver, Inv, TypeOK, busVars, db
<1>2. TypeOK'
  BY <1>1 DEF Inv, TypeOK, Take, Bus!Deliver, Steps
<1>3. \A x \in Entry : OnBus(x)' <=> OnBus(x)
  BY <1>1 DEF OnBus, Bus!IsNew
<1>4. EntriesOK'
  BY <1>1, <1>3 DEF Inv, EntriesOK, TypeOK, Entry
<1>5. ASSUME NEW v \in Worker
      PROVE  JobOK(v)' /\ TxnOK(v)' /\ DealOK(v)' /\ RowOK(v)'
  <2>1. JobOK(v) /\ TxnOK(v) /\ DealOK(v) /\ RowOK(v)
    BY DEF Inv
  <2>2. CASE v = w
    BY <1>1, <2>1, <2>2
    DEF JobOK, TxnOK, DealOK, RowOK, Known, HasOpenDeal, Inv, EntriesOK
  <2>3. CASE v # w
    BY <1>1, <2>1, <2>3 DEF JobOK, TxnOK, DealOK, RowOK, Known, HasOpenDeal
  <2> QED BY <2>2, <2>3
<1>6. LocksOK'
  <2>1. txn[w] = {}
    BY <1>1 DEF Inv, TxnOK
  <2> QED BY <1>1, <2>1 DEF Inv, LocksOK
<1>7. Safe'
  BY <1>1 DEF Inv, Safe, OneOpenDealPerListing, MarkAgreesWithWork,
              SettledIsMarked, CommittedDealIsAnnounced, ListingIsBacked
<1> QED BY <1>2, <1>4, <1>5, <1>6, <1>7 DEF Inv

LEMMA AckInv == ASSUME Inv, NEW w \in Worker, Ack(w) PROVE Inv'
<1> DEFINE e == job[w]
<1>1. /\ \A v \in Worker \ {w} :
           pc'[v] = pc[v] /\ job'[v] = job[v] /\ held'[v] = held[v]
      /\ pc[w] = "ack" /\ pc'[w] = "idle" /\ job'[w] = NoEntry
      /\ e \in held[w] /\ e \in Entry
      /\ held'[w] = held[w] \ {e} /\ settled' = settled \cup {e}
      /\ UNCHANGED <<waiting, body, origin, seen, products, history, status,
                     marks, announced, overdue, txn, faults>>
      /\ origin[e] \in marks
  BY DEF Ack, Bus!Settle, Inv, TypeOK, busVars, db, JobOK
<1>2. TypeOK'
  BY <1>1 DEF Inv, TypeOK, Ack, Bus!Settle, Steps
<1>3. \A x \in Entry : OnBus(x)' <=> OnBus(x)
  BY <1>1 DEF OnBus, Bus!IsNew
<1>4. EntriesOK'
  BY <1>1, <1>3 DEF Inv, EntriesOK, TypeOK, Entry
<1>5. ASSUME NEW v \in Worker
      PROVE  JobOK(v)' /\ TxnOK(v)' /\ DealOK(v)' /\ RowOK(v)'
  <2>1. JobOK(v) /\ TxnOK(v) /\ DealOK(v) /\ RowOK(v)
    BY DEF Inv
  <2>2. CASE v = w
    BY <1>1, <2>1, <2>2, EntryAssumption
    DEF JobOK, TxnOK, DealOK, RowOK, Known, HasOpenDeal, Inv, TypeOK, Entry
  <2>3. CASE v # w
    BY <1>1, <2>1, <2>3 DEF JobOK, TxnOK, DealOK, RowOK, Known, HasOpenDeal
  <2> QED BY <2>2, <2>3
<1>6. LocksOK'
  <2>1. txn[w] = {}
    BY <1>1 DEF Inv, TxnOK
  <2> QED BY <1>1, <2>1 DEF Inv, LocksOK
<1>7. Safe'
  BY <1>1 DEF Inv, Safe, OneOpenDealPerListing, MarkAgreesWithWork,
              SettledIsMarked, CommittedDealIsAnnounced, ListingIsBacked
<1> QED BY <1>2, <1>4, <1>5, <1>6, <1>7 DEF Inv

LEMMA FailInv == ASSUME Inv, NEW w \in Worker, Fail(w) PROVE Inv'
<1>1. /\ \A v \in Worker \ {w} :
           pc'[v] = pc[v] /\ job'[v] = job[v] /\ txn'[v] = txn[v]
      /\ pc'[w] = "down" /\ job'[w] = NoEntry /\ txn'[w] = {}
      /\ UNCHANGED <<waiting, held, settled, body, origin, seen, products, history,
                     status, marks, announced, overdue>>
  BY DEF Fail, Inv, TypeOK, busVars, db
<1>2. TypeOK'
  BY <1>1, MaxFaultsAssumption DEF Inv, TypeOK, Fail, Steps
<1>3. EntriesOK'
  BY <1>1 DEF Inv, EntriesOK, OnBus, Bus!IsNew
<1>4. ASSUME NEW v \in Worker
      PROVE  JobOK(v)' /\ TxnOK(v)' /\ DealOK(v)' /\ RowOK(v)'
  <2>1. JobOK(v) /\ TxnOK(v) /\ DealOK(v) /\ RowOK(v)
    BY DEF Inv
  <2>2. CASE v = w
    BY <1>1, <2>1, <2>2, EntryAssumption
    DEF JobOK, TxnOK, DealOK, RowOK, Known, HasOpenDeal, Inv, TypeOK, Entry
  <2>3. CASE v # w
    BY <1>1, <2>1, <2>3 DEF JobOK, TxnOK, DealOK, RowOK, Known, HasOpenDeal
  <2> QED BY <2>2, <2>3
<1>5. LocksOK'
  BY <1>1 DEF Inv, LocksOK
<1>6. Safe'
  BY <1>1 DEF Inv, Safe, OneOpenDealPerListing, MarkAgreesWithWork,
              SettledIsMarked, CommittedDealIsAnnounced, ListingIsBacked
<1> QED BY <1>2, <1>3, <1>4, <1>5, <1>6 DEF Inv

-----------------------------------------------------------------------------
(***************************************************************************)
(* The steps around the engine.                                            *)
(***************************************************************************)
LEMMA AddInv ==
  ASSUME Inv, NEW e \in Entry, NEW b, NEW o \in Entry,
         Bus!Add(e),
         body' = [body EXCEPT ![e] = b],
         origin' = [origin EXCEPT ![e] = o],
         e \in Scan => b \in Listing,
         e \in Tap => b \in Scan,
         e \in Scan <=> o \in Scan,
         UNCHANGED <<db, announced, overdue, workers>>
  PROVE  Inv'
<1>1. /\ \A x \in Entry \ {e} : body'[x] = body[x] /\ origin'[x] = origin[x]
      /\ body'[e] = b /\ origin'[e] = o
      /\ waiting' = waiting \cup {e}
      /\ ~ OnBus(e)
      /\ UNCHANGED <<held, settled, seen, products, history, status, marks,
                     announced, overdue, pc, job, txn, faults>>
  BY DEF Bus!Add, OnBus, Inv, TypeOK, db, workers
<1>2. TypeOK'
  BY <1>1 DEF Inv, TypeOK, Entry
<1>3. /\ \A x \in Entry : OnBus(x)' <=> OnBus(x) \/ x = e
      /\ \A x \in Entry : OnBus(x) => x # e
  BY <1>1 DEF OnBus, Bus!IsNew
<1>4. /\ e \notin waiting /\ e \notin settled /\ e \notin history
      /\ \A w \in Worker : e \notin held[w]
  BY <1>1 DEF OnBus, Bus!IsNew, Inv, EntriesOK
<1>5. EntriesOK'
  <2>1. /\ \A w \in Worker : held'[w] \cap (waiting' \cup settled') = {}
        /\ \A v, w \in Worker : v # w => held'[v] \cap held'[w] = {}
        /\ waiting' \cap settled' = {}
    BY <1>1, <1>4 DEF Inv, EntriesOK
  <2>2. /\ \A x \in Scan : OnBus(x)' => body'[x] \in Listing
        /\ \A x \in Tap : OnBus(x)' => body'[x] \in Scan
        /\ \A x \in Entry : x \in Scan <=> origin'[x] \in Scan
    BY <1>1, <1>3 DEF Inv, EntriesOK, Entry
  <2>3. products' \subseteq history' /\ \A x \in history' : OnBus(x)' /\ x \notin waiting'
    BY <1>1, <1>3, <1>4 DEF Inv, EntriesOK, TypeOK, Entry
  <2> QED BY <2>1, <2>2, <2>3 DEF EntriesOK
<1>6. \A d \in Scan : status[d] # "NONE" => d \in history /\ body'[d] = body[d]
  BY <1>1, <1>4 DEF Inv, Safe, MarkAgreesWithWork, Entry
<1>7. ASSUME NEW w \in Worker
      PROVE  JobOK(w)' /\ TxnOK(w)' /\ DealOK(w)' /\ RowOK(w)'
  <2>1. "deal" \in txn[w] =>
          \A d \in Scan : ~ (body'[d] = body[job[w]] /\ status'[d] \in Open)
    BY <1>1, <1>6 DEF Inv, DealOK, HasOpenDeal, Open
  <2>2. \A x \in Entry : OnBus(x) => body'[x] = body[x] /\ origin'[x] = origin[x]
    BY <1>1, <1>3
  <2> QED BY <1>1, <2>1, <2>2, Bystander
<1>8. LocksOK'
  <2>1. \A w \in Worker : txn[w] # {} => body'[job[w]] = body[job[w]]
    <3>1. \A w \in Worker : txn[w] # {} => job[w] \in held[w]
      BY DEF Inv, JobOK, TxnOK
    <3> QED BY <1>1, <1>4, <3>1 DEF Inv, TypeOK
  <2> QED BY <1>1, <2>1 DEF Inv, LocksOK
<1>9. Safe'
  <2>1. OneOpenDealPerListing'
    BY <1>1, <1>6 DEF Inv, Safe, OneOpenDealPerListing, Open
  <2>2. MarkAgreesWithWork' /\ SettledIsMarked' /\ CommittedDealIsAnnounced'
    BY <1>1, <1>4
    DEF Inv, Safe, MarkAgreesWithWork, SettledIsMarked, CommittedDealIsAnnounced,
        TypeOK, Entry
  <2>3. ListingIsBacked'
    <3>1. \A x \in history : body'[x] = body[x]
      BY <1>1, <1>4 DEF Inv, TypeOK, Entry
    <3>2. products \subseteq history
      BY DEF Inv, EntriesOK
    <3> QED BY <1>1, <3>1, <3>2 DEF Inv, Safe, ListingIsBacked
  <2> QED BY <2>1, <2>2, <2>3 DEF Safe
<1> QED BY <1>2, <1>5, <1>7, <1>8, <1>9 DEF Inv

LEMMA PublishInv ==
  ASSUME Inv,
         \/ \E e \in Scan : PublishScan(e)
         \/ \E e \in Tap : PublishTap(e)
  PROVE  Inv'
<1>1. PICK e \in Entry, b \in Listing \cup Scan :
        /\ Publish(e, b)
        /\ e \in Scan => b \in Listing
        /\ e \in Tap => b \in Scan
  <2>1. CASE \E e \in Scan : PublishScan(e)
    BY <2>1, EntryAssumption DEF PublishScan, Entry
  <2>2. CASE \E e \in Tap : PublishTap(e)
    BY <2>2, EntryAssumption DEF PublishTap, Entry, Inv, TypeOK
  <2> QED BY <2>1, <2>2
<1>2. origin' = [origin EXCEPT ![e] = origin[e]]
  BY <1>1 DEF Publish, Inv, TypeOK
<1>3. origin[e] \in Entry /\ (e \in Scan <=> origin[e] \in Scan)
  BY DEF Inv, TypeOK, EntriesOK
<1> QED BY <1>1, <1>2, <1>3, AddInv DEF Publish

LEMMA PublishAgainInv ==
  ASSUME Inv, NEW e \in Entry, NEW o \in Entry, PublishAgain(e, o) PROVE Inv'
<1>1. e \in Scan <=> o \in Scan
  BY EntryAssumption DEF PublishAgain, Entry
<1>2. /\ e \in Scan => body[o] \in Listing
      /\ e \in Tap => body[o] \in Scan
  BY <1>1, EntryAssumption DEF PublishAgain, Inv, EntriesOK, OnBus, Entry
<1> QED BY <1>1, <1>2, AddInv DEF PublishAgain

LEMMA PassExpiryInv == ASSUME Inv, NEW d \in Scan, PassExpiry(d) PROVE Inv'
<1>1. /\ overdue' = overdue \cup {d}
      /\ UNCHANGED <<waiting, held, settled, body, origin, seen, products, history,
                     status, marks, announced, pc, job, txn, faults>>
  BY DEF PassExpiry, busVars, db, workers
<1>2. TypeOK'
  BY <1>1 DEF Inv, TypeOK
<1>3. EntriesOK'
  BY <1>1 DEF Inv, EntriesOK, OnBus, Bus!IsNew
<1>4. ASSUME NEW v \in Worker
      PROVE  JobOK(v)' /\ TxnOK(v)' /\ DealOK(v)' /\ RowOK(v)'
  <2>1. JobOK(v) /\ TxnOK(v) /\ DealOK(v) /\ RowOK(v)
    BY DEF Inv
  <2> QED BY <1>1, <2>1 DEF JobOK, TxnOK, DealOK, RowOK, Known, HasOpenDeal
<1>5. LocksOK'
  BY <1>1 DEF Inv, LocksOK
<1>6. Safe'
  BY <1>1 DEF Inv, Safe, OneOpenDealPerListing, MarkAgreesWithWork,
              SettledIsMarked, CommittedDealIsAnnounced, ListingIsBacked
<1> QED BY <1>2, <1>3, <1>4, <1>5, <1>6 DEF Inv

LEMMA MoveDealInv ==
  ASSUME Inv, NEW d \in Scan, NEW s \in Status, MoveDeal(d, s) PROVE Inv'
<1>1. /\ status' = [status EXCEPT ![d] = s]
      /\ UNCHANGED <<waiting, held, settled, body, origin, seen, products, history,
                     marks, announced, overdue, pc, job, txn, faults>>
      /\ status[d] \in Open /\ s \in Terminal \cup Open
      /\ RowFree(d)
  BY EdgesAssumption DEF MoveDeal, busVars, workers
<1>2. /\ \A c \in Scan : status'[c] \in Open => status[c] \in Open
      /\ \A c \in Scan : status'[c] # "NONE" => status[c] # "NONE"
      /\ \A c \in Scan : c # d => status'[c] = status[c]
  BY <1>1 DEF Inv, TypeOK, Open
<1>3. TypeOK'
  BY <1>1 DEF Inv, TypeOK
<1>4. EntriesOK'
  BY <1>1 DEF Inv, EntriesOK, OnBus, Bus!IsNew
<1>5. ASSUME NEW w \in Worker
      PROVE  JobOK(w)' /\ TxnOK(w)' /\ DealOK(w)' /\ RowOK(w)'
  <2>1. "dealRow" \in txn[w] => status'[body[job[w]]] = status[body[job[w]]]
    BY <1>1 DEF RowFree, Inv, TypeOK
  <2>2. "deal" \in txn[w] =>
          \A c \in Scan : ~ (body'[c] = body[job[w]] /\ status'[c] \in Open)
    BY <1>1, <1>2 DEF Inv, DealOK, HasOpenDeal
  <2> QED BY <1>1, <2>1, <2>2, Bystander
<1>6. LocksOK'
  BY <1>1 DEF Inv, LocksOK
<1>7. Safe'
  BY <1>1, <1>2
  DEF Inv, Safe, OneOpenDealPerListing, MarkAgreesWithWork,
      SettledIsMarked, CommittedDealIsAnnounced, ListingIsBacked
<1> QED BY <1>3, <1>4, <1>5, <1>6, <1>7 DEF Inv

-----------------------------------------------------------------------------
(***************************************************************************)
(* The commit of a transaction.                                            *)
(***************************************************************************)
\* What a worker that commits knows of its entry and of the others'.
LEMMA CommitterKnows ==
  ASSUME Inv, NEW w \in Worker, pc[w] = "commit"
  PROVE  /\ job[w] \in Entry /\ job[w] \in held[w] /\ OnBus(job[w])
         /\ job[w] \notin history
         /\ txn[w] \cap (ScanEffects \ {"mark"}) # {} => job[w] \in Scan
         /\ txn[w] \cap (TapEffects \ {"mark"}) # {} => job[w] \in Tap
         /\ job[w] \in Scan => body[job[w]] \in Listing /\ status[job[w]] = "NONE"
         /\ job[w] \in Tap => body[job[w]] \in Scan
         /\ job[w] \in Scan /\ txn[w] # {} => "history" \in txn[w]
         /\ \A v \in Worker \ {w} : job[v] # job[w]
<1>1. JobOK(w) /\ TxnOK(w) /\ txn[w] \subseteq Effects
  BY DEF Inv, TypeOK
<1>2. /\ job[w] \in Entry /\ job[w] \in held[w] /\ OnBus(job[w])
      /\ job[w] \notin history
  BY <1>1, EntryAssumption DEF JobOK, OnBus, Bus!IsNew, Inv, TypeOK
<1>3. /\ txn[w] \cap (ScanEffects \ {"mark"}) # {} => job[w] \in Scan
      /\ txn[w] \cap (TapEffects \ {"mark"}) # {} => job[w] \in Tap
  BY <1>1, <1>2, EntryAssumption DEF TxnOK, Entry, ScanEffects, TapEffects
<1>4. /\ job[w] \in Scan => body[job[w]] \in Listing /\ status[job[w]] = "NONE"
      /\ job[w] \in Tap => body[job[w]] \in Scan
  BY <1>2 DEF Inv, EntriesOK, Safe, MarkAgreesWithWork
<1>5. ASSUME NEW v \in Worker \ {w} PROVE job[v] # job[w]
  <2>1. JobOK(v)
    BY DEF Inv
  <2> QED BY <1>2, <2>1, EntryAssumption DEF JobOK, Inv, EntriesOK
<1> QED BY <1>1, <1>2, <1>3, <1>4, <1>5 DEF TxnOK

\* How the deals table may change at a commit.
LEMMA CommittedStatus ==
  ASSUME Inv, NEW w \in Worker, Commit(w)
  PROVE  /\ status' \in [Scan -> Status]
         /\ "deal" \in txn[w] =>
              /\ job[w] \in Scan
              /\ ~ HasOpenDeal(body[job[w]])
              /\ status' = [status EXCEPT ![job[w]] = "SCORED"]
         /\ "deal" \notin txn[w] =>
              \A d \in Scan :
                /\ status'[d] \in Open => status[d] \in Open
                /\ status'[d] # "NONE" => status[d] # "NONE"
                /\ status'[d] # status[d] =>
                     "dealRow" \in txn[w] /\ d = body[job[w]]
<1>1. DealOK(w) /\ RowOK(w) /\ pc[w] = "commit"
  BY DEF Inv, Commit
<1>2. CASE "deal" \in txn[w]
  <2>1. job[w] \in Scan
    BY <1>1, <1>2, CommitterKnows DEF ScanEffects
  <2>2. status' = [status EXCEPT ![job[w]] = "SCORED"]
    BY <1>2 DEF Commit
  <2> QED BY <1>1, <1>2, <2>1, <2>2 DEF DealOK, Inv, TypeOK, Status, Open
<1>3. CASE "deal" \notin txn[w] /\ "expire" \in txn[w]
  <2>1. body[job[w]] \in Scan
    BY <1>1, <1>3, CommitterKnows DEF TapEffects
  <2>2. status' = [status EXCEPT ![body[job[w]]] = "EXPIRED"]
    BY <1>3 DEF Commit
  <2> QED BY <1>1, <1>3, <2>1, <2>2 DEF RowOK, Inv, TypeOK, Status, Terminal, Open
<1>4. CASE /\ "deal" \notin txn[w] /\ "expire" \notin txn[w]
           /\ "interest" \in txn[w]
  <2>1. body[job[w]] \in Scan
    BY <1>1, <1>4, CommitterKnows DEF TapEffects
  <2>2. status' = [status EXCEPT ![body[job[w]]] = "INTERESTED"]
    BY <1>4 DEF Commit
  <2> QED BY <1>1, <1>4, <2>1, <2>2 DEF RowOK, Inv, TypeOK, Status, Open
<1>5. CASE /\ "deal" \notin txn[w] /\ "expire" \notin txn[w]
           /\ "interest" \notin txn[w]
  BY <1>5 DEF Commit, Inv, TypeOK
<1> QED BY <1>2, <1>3, <1>4, <1>5

LEMMA CommitInv == ASSUME Inv, NEW w \in Worker, Commit(w) PROVE Inv'
<1> DEFINE e == job[w]
           t == txn[w]
<1>1. /\ pc[w] = "commit" /\ pc'[w] = "ack" /\ txn'[w] = {}
      /\ \A v \in Worker \ {w} : pc'[v] = pc[v] /\ txn'[v] = txn[v]
      /\ seen' = IF "listing" \in t THEN [seen EXCEPT ![body[e]] = e] ELSE seen
      /\ products' = IF "product" \in t THEN products \cup {e} ELSE products
      /\ history' = IF "history" \in t THEN history \cup {e} ELSE history
      /\ marks' = IF "mark" \in t THEN marks \cup {origin[e]} ELSE marks
      /\ UNCHANGED <<waiting, held, settled, body, origin, announced, overdue,
                     job, faults>>
  BY DEF Commit, With, Inv, TypeOK, busVars
<1>2. /\ e \in Entry /\ e \in held[w] /\ OnBus(e) /\ e \notin history
      /\ t \cap (ScanEffects \ {"mark"}) # {} => e \in Scan
      /\ e \in Scan => body[e] \in Listing /\ status[e] = "NONE"
      /\ e \in Scan /\ t # {} => "history" \in t
      /\ \A v \in Worker \ {w} : job[v] # e
  BY <1>1, CommitterKnows
<1>3. JobOK(w) /\ TxnOK(w) /\ DealOK(w) /\ RowOK(w)
  BY DEF Inv
<1>4. {"listing", "product", "history", "deal"} \cap t # {} => e \in Scan
  BY <1>2 DEF ScanEffects
<1>5. origin[e] \in marks'
  BY <1>1, <1>3 DEF TxnOK
<1>6. TypeOK'
  <2>1. /\ seen' \in [Listing -> Scan \cup {NoEntry}]
        /\ products' \subseteq Scan /\ history' \subseteq Scan /\ marks' \subseteq Entry
    BY <1>1, <1>2, <1>4 DEF Inv, TypeOK
  <2>2. status' \in [Scan -> Status]
    BY CommittedStatus
  <2>3. pc' \in [Worker -> Steps] /\ txn' \in [Worker -> SUBSET Effects]
    BY DEF Commit, Inv, TypeOK, Steps
  <2> QED BY <1>1, <2>1, <2>2, <2>3 DEF Inv, TypeOK
<1>7. EntriesOK'
  <2>1. \A x \in Entry : OnBus(x)' <=> OnBus(x)
    BY <1>1 DEF OnBus, Bus!IsNew
  <2>2. \A x \in history' : OnBus(x)' /\ x \notin waiting'
    BY <1>1, <1>2, <2>1 DEF Inv, EntriesOK, TypeOK, Entry
  <2>3. products' \subseteq history'
    BY <1>1, <1>2, <1>4 DEF Inv, EntriesOK
  <2> QED BY <1>1, <2>1, <2>2, <2>3 DEF Inv, EntriesOK, Entry
<1>8. ASSUME NEW v \in Worker
      PROVE  JobOK(v)' /\ TxnOK(v)' /\ DealOK(v)' /\ RowOK(v)'
  <2>1. CASE v = w
    BY <1>1, <1>2, <1>3, <1>5, <2>1 DEF JobOK, TxnOK, DealOK, RowOK
  <2>2. CASE v # w
    <3>1. /\ job[v] \in history' => job[v] \in history
          /\ marks \subseteq marks'
          /\ \A l \in Listing : seen[l] # NoEntry => seen'[l] # NoEntry
      BY <1>1, <1>2, <2>2, EntryAssumption DEF Inv, TypeOK
    <3>2. "dealRow" \in txn[v] => status'[body[job[v]]] = status[body[job[v]]]
      <4>1. SUFFICES ASSUME "dealRow" \in txn[v]
                     PROVE  status'[body[job[v]]] = status[body[job[v]]]
        OBVIOUS
      <4>2. job[v] \in Tap /\ body[job[v]] \in Scan /\ status[body[job[v]]] # "NONE"
        <5>1. JobOK(v) /\ TxnOK(v) /\ RowOK(v)
          BY DEF Inv
        <5>2. job[v] \in Entry /\ OnBus(job[v])
          BY <4>1, <5>1, EntryAssumption DEF JobOK, TxnOK, OnBus, Bus!IsNew, Inv, TypeOK
        <5> QED BY <4>1, <5>1, <5>2 DEF TxnOK, RowOK, ScanEffects, Entry, Inv, EntriesOK
      <4>3. CASE "deal" \in t
        BY <4>2, <4>3, <1>2, CommittedStatus DEF Inv, TypeOK
      <4>4. CASE "deal" \notin t
        BY <2>2, <4>1, <4>2, <4>4, CommittedStatus DEF Inv, LocksOK
      <4> QED BY <4>3, <4>4
    <3>3. "deal" \in txn[v] =>
            \A d \in Scan : ~ (body'[d] = body[job[v]] /\ status'[d] \in Open)
      <4>1. SUFFICES ASSUME "deal" \in txn[v]
                     PROVE  \A d \in Scan : ~ (body[d] = body[job[v]] /\ status'[d] \in Open)
        BY <1>1
      <4>2. "advisory" \in txn[v] /\ ~ HasOpenDeal(body[job[v]])
        BY <4>1 DEF Inv, DealOK
      <4>3. CASE "deal" \in t
        <5>1. body[job[v]] # body[e]
          BY <1>3, <2>2, <4>2, <4>3 DEF DealOK, Inv, LocksOK
        <5> QED BY <4>2, <4>3, <5>1, CommittedStatus DEF HasOpenDeal, Inv, TypeOK
      <4>4. CASE "deal" \notin t
        BY <4>2, <4>4, CommittedStatus DEF HasOpenDeal
      <4> QED BY <4>3, <4>4
    <3> QED BY <1>1, <2>2, <3>1, <3>2, <3>3, Bystander
  <2> QED BY <2>1, <2>2
<1>9. LocksOK'
  BY <1>1 DEF Inv, LocksOK
<1>10. Safe'
  <2>1. OneOpenDealPerListing'
    <3>1. CASE "deal" \in t
      BY <1>1, <3>1, CommittedStatus
      DEF Inv, Safe, OneOpenDealPerListing, HasOpenDeal, TypeOK
    <3>2. CASE "deal" \notin t
      BY <1>1, <3>2, CommittedStatus DEF Inv, Safe, OneOpenDealPerListing
    <3> QED BY <3>1, <3>2
  <2>2. \A d \in Scan : status'[d] # "NONE" => d \in history' /\ d \in announced'
    <3>1. CASE "deal" \in t
      BY <1>1, <1>2, <1>3, <3>1, CommittedStatus
      DEF DealOK, Inv, Safe, MarkAgreesWithWork, CommittedDealIsAnnounced, TypeOK
    <3>2. CASE "deal" \notin t
      BY <1>1, <3>2, CommittedStatus
      DEF Inv, Safe, MarkAgreesWithWork, CommittedDealIsAnnounced
    <3> QED BY <3>1, <3>2
  <2>3. \A x \in Scan : x \in history' => origin'[x] \in marks'
    BY <1>1, <1>5 DEF Inv, Safe, MarkAgreesWithWork
  <2>4. \A m \in marks' \cap Scan : \E x \in history' : origin'[x] = m
    <3>1. ASSUME "mark" \in t, origin[e] \in Scan PROVE e \in history'
      BY <1>1, <1>2, <3>1 DEF Inv, EntriesOK
    <3> QED BY <1>1, <3>1 DEF Inv, Safe, MarkAgreesWithWork
  <2>5. SettledIsMarked'
    BY <1>1 DEF Inv, Safe, SettledIsMarked
  <2>6. ListingIsBacked'
    <3>1. ASSUME NEW l \in Listing, seen'[l] # NoEntry
          PROVE  /\ seen'[l] \in history' /\ body'[seen'[l]] = l
                 /\ \E x \in products' : body'[x] = l
      <4>1. CASE "listing" \in t /\ l = body[e]
        <5>1. seen'[l] = e /\ e \in history'
          BY <1>1, <1>2, <1>4, <4>1 DEF Inv, TypeOK
        <5>2. "product" \in t \/ seen[l] # NoEntry
          BY <1>3, <4>1 DEF TxnOK, Known
        <5>3. \E x \in products' : body'[x] = l
          BY <1>1, <3>1, <4>1, <5>2 DEF Inv, Safe, ListingIsBacked
        <5> QED BY <1>1, <4>1, <5>1, <5>3
      <4>2. CASE ~ ("listing" \in t /\ l = body[e])
        BY <1>1, <3>1, <4>2 DEF Inv, Safe, ListingIsBacked, TypeOK
      <4> QED BY <4>1, <4>2
    <3> QED BY <3>1 DEF ListingIsBacked
  <2> QED BY <2>1, <2>2, <2>3, <2>4, <2>5, <2>6
          DEF Safe, MarkAgreesWithWork, CommittedDealIsAnnounced
<1> QED BY <1>6, <1>7, <1>8, <1>9, <1>10 DEF Inv

-----------------------------------------------------------------------------
LEMMA WorkInv == ASSUME Inv, NEW w \in Worker, Work(w) PROVE Inv'
  BY StartInv, TakeInv, CheckMarkInv, FindListingInv, UpdateListingInv,
     InsertListingInv, RecordInv, LockListingInv, WriteDealInv, PublishDealInv,
     LockDealInv, JudgeInv, MarkInv, CommitInv, AckInv
  DEF Work, HandleListing, HandleTap

LEMMA AroundInv == ASSUME Inv, Around PROVE Inv'
<1>1. CASE (\E e \in Scan : PublishScan(e)) \/ (\E e \in Tap : PublishTap(e))
  BY <1>1, PublishInv
<1>2. CASE \E e, o \in Entry : PublishAgain(e, o)
  BY <1>2, PublishAgainInv
<1>3. CASE \E d \in Scan, s \in Status : MoveDeal(d, s)
  BY <1>3, MoveDealInv
<1>4. CASE \E d \in Scan : PassExpiry(d)
  BY <1>4, PassExpiryInv
<1> QED BY <1>1, <1>2, <1>3, <1>4 DEF Around

LEMMA StutterInv == ASSUME Inv, UNCHANGED vars PROVE Inv'
<1>1. TypeOK' /\ EntriesOK' /\ LocksOK'
  BY DEF vars, Inv, TypeOK, EntriesOK, OnBus, Bus!IsNew, LocksOK
<1>2. ASSUME NEW v \in Worker
      PROVE  JobOK(v)' /\ TxnOK(v)' /\ DealOK(v)' /\ RowOK(v)'
  <2>1. JobOK(v) /\ TxnOK(v) /\ DealOK(v) /\ RowOK(v)
    BY DEF Inv
  <2> QED BY <2>1 DEF vars, JobOK, TxnOK, DealOK, RowOK, Known, HasOpenDeal
<1>3. Safe'
  BY DEF vars, Inv, Safe, OneOpenDealPerListing, MarkAgreesWithWork,
         SettledIsMarked, CommittedDealIsAnnounced, ListingIsBacked
<1> QED BY <1>1, <1>2, <1>3 DEF Inv

\* The inductive invariant holds in every behaviour of the engine.
THEOREM InvHolds == Spec => []Inv
<1>1. Inv /\ [Next]_vars => Inv'
  BY WorkInv, AroundInv, FailInv, StutterInv DEF Next
<1> QED BY InitInv, <1>1, PTL DEF Spec

\* Every variable of the engine keeps its type.
THEOREM TypeCorrect == Spec => []TypeOK
<1>1. Inv => TypeOK
  BY DEF Inv
<1> QED BY InvHolds, <1>1, PTL

\* However many workers scan a listing, whatever fails, and even when another
\* listing shares its lock key, at most one of its deals is open
\* (deal_writer.py).
THEOREM AtMostOneOpenDeal == Spec => []OneOpenDealPerListing
<1>1. Inv => OneOpenDealPerListing
  BY DEF Inv, Safe
<1> QED BY InvHolds, <1>1, PTL

\* The dedup mark and the work of an event commit together or not at all
\* (main.py).
THEOREM MarkCommitsWithWork == Spec => []MarkAgreesWithWork
<1>1. Inv => MarkAgreesWithWork
  BY DEF Inv, Safe
<1> QED BY InvHolds, <1>1, PTL

\* No entry is acknowledged whose event id is not marked as processed
\* (consumer.py, dedup.py).
THEOREM AckFollowsMark == Spec => []SettledIsMarked
<1>1. Inv => SettledIsMarked
  BY DEF Inv, Safe
<1> QED BY InvHolds, <1>1, PTL

\* A deal is never in the table without having been announced
\* (event_handlers.py publishes between the insert and the commit).
THEOREM DealsAreAnnounced == Spec => []CommittedDealIsAnnounced
<1>1. Inv => CommittedDealIsAnnounced
  BY DEF Inv, Safe
<1> QED BY InvHolds, <1>1, PTL

\* A listing's row shows an observation that price_history has, and its
\* product exists (_upsert_listing).
THEOREM ListingsAreBacked == Spec => []ListingIsBacked
<1>1. Inv => ListingIsBacked
  BY DEF Inv, Safe
<1> QED BY InvHolds, <1>1, PTL

-----------------------------------------------------------------------------
(***************************************************************************)
(* The deals table implements the lifecycle of a deal.                     *)
(***************************************************************************)
\* A step that leaves the deals, their listings and their expiry alone.
LEMMA HiddenStep ==
  ASSUME Inv, status' = status, overdue' = overdue,
         \A d \in Scan : OnBus(d) => body'[d] = body[d]
  PROVE  UNCHANGED Lifecycle!vars
<1>1. \A d \in Scan : status[d] # "NONE" => body'[d] = body[d]
  BY DEF Inv, Safe, MarkAgreesWithWork, EntriesOK
<1>2. Home' = Home
  BY <1>1 DEF Home
<1> QED BY <1>2 DEF Lifecycle!vars

LEMMA CommitCreates ==
  ASSUME Inv, NEW w \in Worker, Commit(w), "deal" \in txn[w]
  PROVE  Lifecycle!Next
<1> DEFINE e == job[w]
<1>1. pc[w] = "commit" /\ body' = body /\ overdue' = overdue
  BY DEF Commit, busVars
<1>2. /\ e \in Scan /\ body[e] \in Listing /\ status[e] = "NONE"
      /\ ~ HasOpenDeal(body[e])
      /\ status' = [status EXCEPT ![e] = "SCORED"]
  BY <1>1, CommittedStatus, CommitterKnows
<1>3. Home' = [Home EXCEPT ![e] = body[e]]
  BY <1>1, <1>2 DEF Home, Inv, TypeOK
<1>4. \A c \in Scan : Home[c] = body[e] => status[c] \notin Lifecycle!Open
  BY <1>2, EntryAssumption DEF Home, HasOpenDeal, Lifecycle!Open, Open
<1>5. Lifecycle!Create(e, body[e])
  BY <1>1, <1>2, <1>3, <1>4 DEF Lifecycle!Create
<1> QED BY <1>2, <1>5 DEF Lifecycle!Next

LEMMA CommitMoves ==
  ASSUME Inv, NEW w \in Worker, Commit(w), "deal" \notin txn[w],
         "expire" \in txn[w] \/ "interest" \in txn[w]
  PROVE  Lifecycle!Next
<1> DEFINE d == body[job[w]]
<1>1. pc[w] = "commit" /\ body' = body /\ overdue' = overdue
  BY DEF Commit, busVars
<1>2. d \in Scan
  BY <1>1, CommitterKnows DEF TapEffects
<1>3. RowOK(w)
  BY DEF Inv
<1>4. status[d] # "NONE"
  BY <1>3 DEF RowOK
<1>5. ASSUME NEW s \in Status \ {"NONE"}, status' = [status EXCEPT ![d] = s]
      PROVE  Home' = Home
  BY <1>1, <1>2, <1>4, <1>5 DEF Home, Inv, TypeOK
<1>6. CASE "expire" \in txn[w]
  <2>1. status' = [status EXCEPT ![d] = "EXPIRED"]
    BY <1>6 DEF Commit
  <2>2. Home' = Home
    BY <1>5, <2>1 DEF Status, Terminal
  <2>3. Lifecycle!Expire(d)
    BY <1>1, <1>3, <1>4, <1>6, <2>1, <2>2 DEF RowOK, Lifecycle!Expire
  <2> QED BY <1>2, <2>3 DEF Lifecycle!Next
<1>7. CASE "expire" \notin txn[w] /\ "interest" \in txn[w]
  <2>1. status' = [status EXCEPT ![d] = "INTERESTED"]
    BY <1>7 DEF Commit
  <2>2. Home' = Home
    BY <1>5, <2>1 DEF Status, Open
  <2>3. Lifecycle!Interest(d)
    BY <1>1, <1>3, <1>7, <2>1, <2>2 DEF RowOK, Lifecycle!Interest
  <2> QED BY <1>2, <2>3 DEF Lifecycle!Next
<1> QED BY <1>6, <1>7

LEMMA AroundStep == ASSUME Inv, Around PROVE Lifecycle!Next \/ UNCHANGED Lifecycle!vars
<1>1. ASSUME NEW e \in Entry, Bus!Add(e),
             \E b : body' = [body EXCEPT ![e] = b],
             status' = status, overdue' = overdue
      PROVE  UNCHANGED Lifecycle!vars
  <2>1. \A d \in Scan : OnBus(d) => body'[d] = body[d]
    BY <1>1 DEF Bus!Add, OnBus, Inv, TypeOK, Entry
  <2> QED BY <1>1, <2>1, HiddenStep
<1>2. CASE (\E e \in Scan : PublishScan(e)) \/ (\E e \in Tap : PublishTap(e))
  <2>1. PICK e \in Entry : \E b : Publish(e, b)
    BY <1>2 DEF PublishScan, PublishTap, Entry
  <2> QED BY <1>1, <2>1 DEF Publish, db
<1>3. CASE \E e, o \in Entry : PublishAgain(e, o)
  BY <1>1, <1>3 DEF PublishAgain, db
<1>4. CASE \E d \in Scan, s \in Status : MoveDeal(d, s)
  <2>1. PICK d \in Scan, s \in Status : MoveDeal(d, s)
    BY <1>4
  <2>2. /\ status' = [status EXCEPT ![d] = s] /\ body' = body /\ overdue' = overdue
        /\ <<status[d], s>> \in Edges
    BY <2>1 DEF MoveDeal, busVars
  <2>3. status[d] # "NONE" /\ s # "NONE"
    BY <2>2, EdgesAssumption DEF Open, Terminal
  <2>4. Home' = Home
    BY <2>2, <2>3 DEF Home, Inv, TypeOK
  <2>5. s \in Lifecycle!Status
    BY DEF Status, Terminal, Open, Lifecycle!Status, Lifecycle!Terminal, Lifecycle!Open
  <2>6. Lifecycle!Move(d, s)
    BY <2>2, <2>4 DEF Lifecycle!Move
  <2> QED BY <2>5, <2>6 DEF Lifecycle!Next
<1>5. CASE \E d \in Scan : PassExpiry(d)
  <2>1. PICK d \in Scan : PassExpiry(d)
    BY <1>5
  <2>2. overdue' = overdue \cup {d} /\ status' = status /\ body' = body
    BY <2>1 DEF PassExpiry, busVars, db
  <2>3. Lifecycle!Pass(d)
    BY <2>2 DEF Lifecycle!Pass, Home
  <2> QED BY <2>3 DEF Lifecycle!Next
<1> QED BY <1>2, <1>3, <1>4, <1>5 DEF Around

LEMMA LifecycleStep == Inv /\ [Next]_vars => [Lifecycle!Next]_(Lifecycle!vars)
<1> SUFFICES ASSUME Inv, [Next]_vars
             PROVE  Lifecycle!Next \/ UNCHANGED Lifecycle!vars
  OBVIOUS
<1>1. CASE Around
  BY <1>1, AroundStep
<1>2. ASSUME NEW w \in Worker, Commit(w)
      PROVE  Lifecycle!Next \/ UNCHANGED Lifecycle!vars
  <2>1. CASE "deal" \in txn[w]
    BY <1>2, <2>1, CommitCreates
  <2>2. CASE "deal" \notin txn[w] /\ ("expire" \in txn[w] \/ "interest" \in txn[w])
    BY <1>2, <2>2, CommitMoves
  <2>3. CASE "deal" \notin txn[w] /\ "expire" \notin txn[w] /\ "interest" \notin txn[w]
    BY <1>2, <2>3, HiddenStep DEF Commit, busVars
  <2> QED BY <2>1, <2>2, <2>3
<1>3. ASSUME NEW w \in Worker, Work(w) \/ Fail(w), ~ Commit(w)
      PROVE  UNCHANGED Lifecycle!vars
  <2>1. status' = status /\ overdue' = overdue /\ body' = body
    BY <1>3
    DEF Work, Start, Take, CheckMark, HandleListing, FindListing, UpdateListing,
        InsertListing, Record, LockListing, WriteDeal, PublishDeal, HandleTap,
        LockDeal, Judge, Mark, Ack, Fail, Step, busVars, db
  <2> QED BY <2>1, HiddenStep
<1>4. CASE UNCHANGED vars
  BY <1>4, HiddenStep DEF vars
<1> QED BY <1>1, <1>2, <1>3, <1>4 DEF Next

\* With workers, transactions, locks and redeliveries hidden, the deals table
\* moves only as DealLifecycle allows (event_handlers.py, deal_repo.py).
THEOREM EngineImplementsLifecycle == Spec => ImplementsLifecycle
<1>1. Init => Lifecycle!Init
  BY DEF Init, Lifecycle!Init, Home
<1> QED
  BY <1>1, LifecycleStep, InvHolds, PTL DEF Spec, ImplementsLifecycle, Lifecycle!Spec

-----------------------------------------------------------------------------
(***************************************************************************)
(* No circle of waiting transactions.  The locks come in one order: the    *)
(* row of the listing, then the advisory key, then the mark; or the row of *)
(* a deal, then the mark.  Who waits for the mark, or holds it, is waited  *)
(* for; who waits for an earlier lock holds none that comes after it.      *)
(***************************************************************************)
HoldsInOrder(w) ==
  /\ "advisory" \in txn[w] => pc[w] \in {"write", "publish", "mark", "commit"}
  /\ "dealRow" \in txn[w] => pc[w] \in {"judge", "mark", "commit"}
  /\ "mark" \in txn[w] => pc[w] = "commit"

LockOrder == \A w \in Worker : HoldsInOrder(w)

\* A statement of w keeps the order if w's own locks are in order after it.
LEMMA StatementKeepsOrder ==
  ASSUME Inv, LockOrder, NEW w \in Worker, NEW to \in Steps,
         NEW E \in SUBSET Effects, Step(w, to, E), HoldsInOrder(w)'
  PROVE  LockOrder'
  BY DEF Step, Inv, TypeOK, LockOrder, HoldsInOrder

LEMMA ScanKeepsOrder ==
  ASSUME Inv, LockOrder, NEW w \in Worker, HandleListing(w)
  PROVE  LockOrder'
<1>1. HoldsInOrder(w) /\ TxnOK(w)
  BY DEF Inv, LockOrder
<1>2. CASE FindListing(w)
  BY <1>1, <1>2, Own, StatementKeepsOrder DEF FindListing, Steps, TxnOK, HoldsInOrder
<1>3. CASE UpdateListing(w)
  BY <1>1, <1>3, Own, StatementKeepsOrder
  DEF UpdateListing, Steps, Effects, TxnOK, HoldsInOrder
<1>4. CASE InsertListing(w)
  BY <1>1, <1>4, Own, StatementKeepsOrder
  DEF InsertListing, Steps, Effects, TxnOK, HoldsInOrder
<1>5. CASE Record(w)
  <2>1. PICK to \in {"lock", "mark"} : Step(w, to, {"history"}) /\ pc[w] = "record"
    BY <1>5 DEF Record
  <2>2. HoldsInOrder(w)'
    BY <1>1, <2>1, Own DEF Steps, Effects, HoldsInOrder
  <2> QED
    BY <2>1, <2>2, StatementKeepsOrder DEF Steps, Effects
<1>6. CASE LockListing(w)
  BY <1>1, <1>6, Own, StatementKeepsOrder
  DEF LockListing, Steps, Effects, HoldsInOrder
<1>7. CASE WriteDeal(w)
  BY <1>1, <1>7, Own, StatementKeepsOrder
  DEF WriteDeal, Steps, Effects, HoldsInOrder
<1>8. CASE PublishDeal(w)
  BY <1>8 DEF PublishDeal, Inv, TypeOK, LockOrder, HoldsInOrder
<1> QED
  BY <1>2, <1>3, <1>4, <1>5, <1>6, <1>7, <1>8 DEF HandleListing

LEMMA TapKeepsOrder ==
  ASSUME Inv, LockOrder, NEW w \in Worker, HandleTap(w)
  PROVE  LockOrder'
<1>1. HoldsInOrder(w) /\ TxnOK(w)
  BY DEF Inv, LockOrder
<1>2. CASE LockDeal(w)
  BY <1>1, <1>2, Own, StatementKeepsOrder
  DEF LockDeal, Steps, Effects, TxnOK, HoldsInOrder
<1>3. CASE Judge(w)
  <2>1. PICK E \in {{"expire"}, {"interest"}, {}} :
          Step(w, "mark", E) /\ pc[w] = "judge"
    BY <1>3 DEF Judge
  <2>2. HoldsInOrder(w)'
    BY <1>1, <2>1, Own DEF Steps, Effects, HoldsInOrder
  <2> QED
    BY <2>1, <2>2, StatementKeepsOrder DEF Steps, Effects
<1> QED
  BY <1>2, <1>3 DEF HandleTap

LEMMA OrderStep == Inv /\ LockOrder /\ [Next]_vars => LockOrder'
<1> SUFFICES ASSUME Inv, LockOrder, [Next]_vars PROVE LockOrder'
  OBVIOUS
<1>1. CASE Around \/ UNCHANGED vars
  BY <1>1 DEF Around, PublishScan, PublishTap, Publish, PublishAgain, MoveDeal,
              PassExpiry, workers, vars, LockOrder, HoldsInOrder
<1>2. ASSUME NEW w \in Worker, Start(w) \/ (\E e \in waiting : Take(w, e)) \/ Ack(w)
      PROVE  LockOrder'
  <2>1. txn' = txn /\ txn[w] = {} /\ \A v \in Worker \ {w} : pc'[v] = pc[v]
    BY <1>2 DEF Start, Take, Ack, Inv, TypeOK, TxnOK
  <2> QED
    BY <2>1 DEF LockOrder, HoldsInOrder
<1>3. ASSUME NEW w \in Worker, CheckMark(w)
      PROVE  LockOrder'
  <2>1. TxnOK(w) /\ HoldsInOrder(w)
    BY DEF Inv, LockOrder
  <2> QED
    BY <1>3, <2>1, Own, StatementKeepsOrder DEF CheckMark, Steps, TxnOK, HoldsInOrder
<1>4. ASSUME NEW w \in Worker, Mark(w)
      PROVE  LockOrder'
  <2>1. HoldsInOrder(w)
    BY DEF LockOrder
  <2> QED
    BY <1>4, <2>1, Own, StatementKeepsOrder DEF Mark, Steps, Effects, HoldsInOrder
<1>5. ASSUME NEW w \in Worker, Commit(w) \/ Fail(w)
      PROVE  LockOrder'
  <2>1. /\ txn' = [txn EXCEPT ![w] = {}]
        /\ \A v \in Worker \ {w} : pc'[v] = pc[v]
    BY <1>5 DEF Commit, Fail, Inv, TypeOK
  <2> QED
    BY <2>1 DEF LockOrder, HoldsInOrder, Inv, TypeOK
<1> QED
  BY <1>1, <1>2, <1>3, <1>4, <1>5, ScanKeepsOrder, TapKeepsOrder DEF Next, Work

\* In a set of workers of which each waits for another one of the set, nobody
\* can be at the mark, so nobody at an earlier lock, so nobody at all.
LEMMA OrderedLocksDoNotCircle == Inv /\ LockOrder => NobodyWaitsInACircle
<1> SUFFICES ASSUME Inv, LockOrder, NEW S \in SUBSET Worker
             PROVE  (\A w \in S : \E v \in S : WaitsFor(w, v)) => S = {}
  BY DEF NobodyWaitsInACircle
<1> HAVE \A w \in S : \E v \in S : WaitsFor(w, v)
<1>1. \A w \in S : pc[w] \in {"update", "insert", "lock", "decide", "mark"}
  BY DEF WaitsFor
<1>2. \A w \in S : pc[w] # "mark"
  BY <1>1 DEF WaitsFor, LockOrder, HoldsInOrder
<1>3. \A w \in S : pc[w] \notin {"lock", "decide"}
  BY <1>1, <1>2 DEF WaitsFor, LockOrder, HoldsInOrder
<1>4. \A w \in S : txn[w] = {}
  BY <1>1, <1>2, <1>3 DEF Inv, TxnOK
<1> QED
  BY <1>3, <1>4 DEF WaitsFor

\* Whatever scans, taps and copies the workers handle at once, no set of them
\* waits for each other in a circle (deal_repo.py, listing_repo.py, dedup.py).
THEOREM NoDeadlock == Spec => []NobodyWaitsInACircle
<1>1. Init => LockOrder
  BY DEF Init, LockOrder, HoldsInOrder
<1> QED
  BY <1>1, OrderStep, OrderedLocksDoNotCircle, InvHolds, PTL DEF Spec

-----------------------------------------------------------------------------
\* A deal that is over stays over: the abstract deals table moves a terminal
\* deal by Expire alone, and the engine implements it (event_handlers.py).
THEOREM TerminalDealsOnlyExpire == Spec => TerminalOnlyExpires
<1>1. ASSUME Inv, [Next]_vars, NEW d \in Scan,
             status[d] \in Terminal, status'[d] # status[d]
      PROVE  d \in overdue /\ status'[d] = "EXPIRED"
  <2>1. Lifecycle!Next
    BY <1>1, LifecycleStep DEF Lifecycle!vars
  <2>2. PICK c \in Scan :
          \/ \E l \in Listing : Lifecycle!Create(c, l)
          \/ \E s \in Lifecycle!Status : Lifecycle!Move(c, s)
          \/ Lifecycle!Interest(c)
          \/ Lifecycle!Expire(c)
          \/ Lifecycle!Pass(c)
    BY <2>1 DEF Lifecycle!Next
  <2>3. status \in [Scan -> Status]
    BY <1>1 DEF Inv, TypeOK
  <2>4. status' # status
    BY <1>1
  <2>5. /\ \E s : status' = [status EXCEPT ![c] = s]
        /\ c = d
    BY <1>1, <2>2, <2>3, <2>4
    DEF Lifecycle!Create, Lifecycle!Move, Lifecycle!Interest, Lifecycle!Expire,
        Lifecycle!Pass
  <2>6. Lifecycle!Expire(d)
    BY <1>1, <2>2, <2>4, <2>5, EdgesAssumption
    DEF Lifecycle!Create, Lifecycle!Move, Lifecycle!Interest, Lifecycle!Pass,
        Terminal, Open
  <2> QED
    BY <2>3, <2>6 DEF Lifecycle!Expire
<1>2. Inv /\ [Next]_vars =>
        [\A d \in Scan : status[d] \in Terminal /\ status'[d] # status[d] =>
           d \in overdue /\ status'[d] = "EXPIRED"]_vars
  BY <1>1
<1> QED
  BY <1>2, InvHolds, PTL DEF Spec, TerminalOnlyExpires

-----------------------------------------------------------------------------
(***************************************************************************)
(* How often one event id is applied.  A worker that found no mark for m   *)
(* may still record it: what is recorded and who may record come to at     *)
(* most one for each worker.  Before the mark is there nothing is          *)
(* recorded; once it is there nobody becomes able to record any more.      *)
(***************************************************************************)
MayRecord(w, m) ==
  /\ job[w] \in Scan
  /\ origin[job[w]] = m
  /\ \/ pc[w] \in {"find", "update", "insert", "record", "lock", "write",
                   "publish", "mark"}
     \/ pc[w] = "commit" /\ "history" \in txn[w]

Recorders(m) == {w \in Worker : MayRecord(w, m)}

Bounded(m) ==
  /\ IsFiniteSet(Applied(m))
  /\ Cardinality(Applied(m)) + Cardinality(Recorders(m)) <= Cardinality(Worker)

\* A set of workers is finite and no larger than the set of all workers.
LEMMA FewWorkers ==
  ASSUME NEW S \in SUBSET Worker, NEW T \in SUBSET S
  PROVE  /\ IsFiniteSet(S) /\ IsFiniteSet(T)
         /\ Cardinality(S) \in Nat /\ Cardinality(T) \in Nat
         /\ Cardinality(T) <= Cardinality(S)
         /\ Cardinality(S) <= Cardinality(Worker)
         /\ Cardinality(Worker) \in Nat
<1>1. IsFiniteSet(S) /\ Cardinality(S) <= Cardinality(Worker)
  BY WorkerAssumption, FS_Subset
<1>2. IsFiniteSet(T) /\ Cardinality(T) <= Cardinality(S)
  BY <1>1, FS_Subset
<1> QED
  BY <1>1, <1>2, WorkerAssumption, FS_CardinalityType

\* Nothing more was recorded and nobody more may record.
LEMMA FewerRecorders ==
  ASSUME NEW m \in Scan, Bounded(m), Applied(m)' = Applied(m),
         \A w \in Worker : MayRecord(w, m)' => MayRecord(w, m)
  PROVE  Bounded(m)'
<1>1. Recorders(m)' \subseteq Recorders(m) /\ Recorders(m) \subseteq Worker
  BY DEF Recorders
<1>2. Cardinality(Applied(m)) \in Nat
  BY FS_CardinalityType DEF Bounded
<1> QED
  BY <1>1, <1>2, FewWorkers DEF Bounded

\* While the mark of m is not there, nothing was recorded of m, and every
\* worker may be recording it.
LEMMA NothingRecorded ==
  ASSUME Inv, NEW m \in Scan, m \notin marks, Applied(m)' = Applied(m)
  PROVE  Bounded(m)'
<1>1. Applied(m)' = {}
  BY DEF Inv, Safe, MarkAgreesWithWork, Applied, TypeOK
<1>2. Recorders(m)' \subseteq Worker
  BY DEF Recorders
<1> QED
  BY <1>1, <1>2, FewWorkers, FS_EmptySet DEF Bounded

\* The worker that commits an observation is no recorder any more.
LEMMA RecorderRecords ==
  ASSUME Inv, NEW w \in Worker, Commit(w), NEW m \in Scan, Bounded(m),
         MayRecord(w, m), "history" \in txn[w]
  PROVE  Bounded(m)'
<1>1. /\ Applied(m)' = Applied(m) \cup {job[w]}
      /\ job[w] \notin Applied(m)
  BY DEF Commit, With, Inv, JobOK, MayRecord, Applied, busVars
<1>2. Recorders(m)' \subseteq Recorders(m) \ {w} /\ w \in Recorders(m)
  BY DEF Commit, Inv, TypeOK, Recorders, MayRecord, busVars
<1>3. /\ IsFiniteSet(Applied(m)')
      /\ Cardinality(Applied(m)') = Cardinality(Applied(m)) + 1
      /\ Cardinality(Applied(m)) \in Nat
  BY <1>1, FS_AddElement, FS_CardinalityType DEF Bounded
<1>4. /\ Cardinality(Recorders(m) \ {w}) = Cardinality(Recorders(m)) - 1
      /\ IsFiniteSet(Recorders(m))
      /\ Cardinality(Recorders(m)) \in Nat
      /\ Cardinality(Worker) \in Nat
  BY <1>2, FewWorkers, FS_RemoveElement DEF Recorders
<1>5. Recorders(m) \ {w} \subseteq Worker
  BY DEF Recorders
<1>6. /\ Cardinality(Recorders(m)') <= Cardinality(Recorders(m) \ {w})
      /\ Cardinality(Recorders(m)') \in Nat
  BY <1>2, <1>5, FewWorkers
<1> QED
  BY <1>3, <1>4, <1>6 DEF Bounded

\* A statement that is no lookup makes nobody a recorder.
LEMMA StatementRecords ==
  ASSUME Inv, NEW w \in Worker, NEW to \in Steps, NEW E \in SUBSET Effects,
         Step(w, to, E), NEW m \in Scan, Bounded(m),
         MayRecord(w, m)' => MayRecord(w, m)
  PROVE  Bounded(m)'
<1>1. Applied(m)' = Applied(m)
  BY Own DEF Applied
<1>2. ASSUME NEW v \in Worker, v # w, MayRecord(v, m)'
      PROVE  MayRecord(v, m)
  BY <1>2, Own DEF Step, Inv, TypeOK, MayRecord
<1> QED
  BY <1>1, <1>2, FewerRecorders

LEMMA BoundedStep ==
  ASSUME Inv, [Next]_vars, NEW m \in Scan, Bounded(m)
  PROVE  Bounded(m)'
<1>1. CASE Around \/ UNCHANGED vars
  <2>1. /\ UNCHANGED <<history, pc, job, txn>>
        /\ \A e \in Entry : OnBus(e) => origin'[e] = origin[e]
    BY <1>1
    DEF Around, PublishScan, PublishTap, Publish, PublishAgain, MoveDeal,
        PassExpiry, db, busVars, workers, vars, Bus!Add, OnBus, Inv, TypeOK
  <2>2. Applied(m)' = Applied(m)
    BY <2>1 DEF Applied, Inv, EntriesOK, TypeOK, Entry
  <2>3. ASSUME NEW w \in Worker, MayRecord(w, m)'
        PROVE  MayRecord(w, m)
    <3>1. OnBus(job[w]) /\ job[w] \in Entry
      BY <2>1, <2>3 DEF MayRecord, Inv, JobOK, OnBus, Bus!IsNew, Entry
    <3> QED
      BY <2>1, <2>3, <3>1 DEF MayRecord
  <2> QED
    BY <2>2, <2>3, FewerRecorders
<1>2. ASSUME NEW w \in Worker,
             Start(w) \/ (\E e \in waiting : Take(w, e)) \/ Ack(w) \/ Fail(w)
      PROVE  Bounded(m)'
  <2>1. /\ history' = history /\ origin' = origin
        /\ pc'[w] \in {"idle", "check", "down"}
        /\ \A v \in Worker \ {w} :
             pc'[v] = pc[v] /\ job'[v] = job[v] /\ txn'[v] = txn[v]
    BY <1>2 DEF Start, Take, Ack, Fail, Inv, TypeOK, db, busVars
  <2>2. Applied(m)' = Applied(m)
    BY <2>1 DEF Applied
  <2>3. \A v \in Worker : MayRecord(v, m)' => MayRecord(v, m)
    BY <2>1 DEF MayRecord
  <2> QED
    BY <2>2, <2>3, FewerRecorders
<1>3. ASSUME NEW w \in Worker, CheckMark(w)
      PROVE  Bounded(m)'
  <2>1. CASE m \notin marks
    <3>1. Applied(m)' = Applied(m)
      BY <1>3, Own DEF CheckMark, Applied, Steps
    <3> QED
      BY <2>1, <3>1, NothingRecorded
  <2>2. CASE m \in marks
    <3>1. PICK to \in {"commit", "find", "decide"} :
            /\ Step(w, to, {})
            /\ to = "find" => origin[job[w]] \notin marks
            /\ pc[w] = "check"
      BY <1>3 DEF CheckMark
    <3>2. txn[w] = {} /\ to \in Steps
      BY <3>1 DEF Inv, TxnOK, Steps
    <3>3. ~ MayRecord(w, m)'
      BY <2>2, <3>1, <3>2, Own DEF MayRecord
    <3> QED
      BY <3>1, <3>2, <3>3, StatementRecords
  <2> QED
    BY <2>1, <2>2
<1>4. ASSUME NEW w \in Worker, HandleListing(w)
      PROVE  Bounded(m)'
  <2>1. CASE PublishDeal(w)
    <3>1. /\ Applied(m)' = Applied(m)
          /\ \A v \in Worker : MayRecord(v, m)' => MayRecord(v, m)
      BY <2>1 DEF PublishDeal, Inv, TypeOK, db, busVars, Applied, MayRecord
    <3> QED
      BY <3>1, FewerRecorders
  <2>2. CASE ~ PublishDeal(w)
    <3>1. PICK to \in Steps, E \in SUBSET Effects :
            /\ Step(w, to, E)
            /\ pc[w] \in {"find", "update", "insert", "record", "lock", "write"}
      BY <1>4, <2>2
      DEF HandleListing, FindListing, UpdateListing, InsertListing, Record,
          LockListing, WriteDeal, Steps, Effects
    <3>2. MayRecord(w, m)' => MayRecord(w, m)
      BY <3>1, Own DEF MayRecord
    <3> QED
      BY <3>1, <3>2, StatementRecords
  <2> QED
    BY <2>1, <2>2
<1>5. ASSUME NEW w \in Worker, HandleTap(w)
      PROVE  Bounded(m)'
  <2>1. PICK to \in Steps, E \in SUBSET Effects :
          Step(w, to, E) /\ pc[w] \in {"decide", "judge"}
    BY <1>5 DEF HandleTap, LockDeal, Judge, Steps, Effects
  <2>2. ~ MayRecord(w, m)'
    BY <2>1, Own DEF MayRecord, Inv, JobOK
  <2> QED
    BY <2>1, <2>2, StatementRecords
<1>6. ASSUME NEW w \in Worker, Mark(w)
      PROVE  Bounded(m)'
  <2>1. PICK E \in SUBSET Effects : Step(w, "commit", E) /\ pc[w] = "mark"
    BY <1>6 DEF Mark, Effects
  <2>2. MayRecord(w, m)' => MayRecord(w, m)
    BY <2>1, Own DEF MayRecord, Steps
  <2> QED
    BY <2>1, <2>2, StatementRecords DEF Steps
<1>7. ASSUME NEW w \in Worker, Commit(w)
      PROVE  Bounded(m)'
  <2>1. CASE MayRecord(w, m) /\ "history" \in txn[w]
    BY <1>7, <2>1, RecorderRecords
  <2>2. CASE ~ (MayRecord(w, m) /\ "history" \in txn[w])
    <3>1. Applied(m)' = Applied(m)
      BY <1>7, <2>2, EntryAssumption
      DEF Commit, With, Applied, MayRecord, Inv, TypeOK, TxnOK, JobOK, EntriesOK,
          TapEffects, Entry, busVars
    <3>2. \A v \in Worker : MayRecord(v, m)' => MayRecord(v, m)
      BY <1>7 DEF Commit, Inv, TypeOK, MayRecord, busVars
    <3> QED
      BY <3>1, <3>2, FewerRecorders
  <2> QED
    BY <2>1, <2>2
<1> QED
  BY <1>1, <1>2, <1>3, <1>4, <1>5, <1>6, <1>7 DEF Next, Work

\* However many entries carry one event id, and whatever is delivered again
\* or fails, the group records it at most once for each of its workers
\* (dedup.py, is_processed and mark_processed).
THEOREM CopiesAreAppliedRarely == Spec => []CopiesAreBounded
<1> DEFINE AllBounded == \A m \in Scan : Bounded(m)
<1>1. Init => AllBounded
  <2> HAVE Init
  <2>1. ASSUME NEW m \in Scan
        PROVE  Applied(m) = {} /\ Recorders(m) \subseteq Worker
    BY DEF Init, Applied, Recorders
  <2> QED
    BY <2>1, FewWorkers, FS_EmptySet DEF Bounded
<1>2. Inv /\ AllBounded /\ [Next]_vars => AllBounded'
  BY BoundedStep
<1>3. AllBounded => CopiesAreBounded
  <2> HAVE AllBounded
  <2>1. ASSUME NEW m \in Scan
        PROVE  Cardinality(Applied(m)) <= Cardinality(Worker)
    <3>1. Bounded(m) /\ Recorders(m) \subseteq Worker
      BY DEF Recorders
    <3> QED
      BY <3>1, FewWorkers, FS_CardinalityType DEF Bounded
  <2> QED
    BY <2>1 DEF CopiesAreBounded
<1> QED
  BY <1>1, <1>2, <1>3, InvHolds, PTL DEF Spec

============================================================================
