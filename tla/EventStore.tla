----------------------------- MODULE EventStore -----------------------------
(***************************************************************************)
(* services/event-store-consumer: replicas of one consumer group append    *)
(* every entry of every stream to the table events, one transaction per    *)
(* entry.  events.event_id is unique and is the only dedup here; seq comes *)
(* from a PostgreSQL sequence, which no rollback and no conflict gives     *)
(* back.                                                                   *)
(*                                                                         *)
(* Definitions named Bug... are mutated forms of the definition that       *)
(* follows them.                                                           *)
(***************************************************************************)
EXTENDS Naturals

CONSTANTS
  Worker,    \* replicas of the service
  Entry,     \* <<s, i>> is the i-th entry of stream s
  NoEntry,   \* no entry
  MaxFaults  \* bound: transactions that fail, processes that end

ASSUME EntryAssumption ==
  /\ NoEntry \notin Entry
  /\ \A e \in Entry : e = <<e[1], e[2]>> /\ e[2] \in Nat
ASSUME MaxFaultsAssumption == MaxFaults \in Nat

VARIABLES
  waiting, held, settled,  \* the bus: see EventDelivery
  origin,    \* origin[e]: the entry that first carried e's event_id
  lastSeq,   \* the last value the sequence gave out
  rows,      \* events, committed
  pc,        \* pc[w]: where replica w is
  job,       \* job[w]: the entry w works on
  drawn,     \* drawn[w]: the seq w's INSERT evaluated
  writing,   \* replicas whose open transaction inserted its row
  faults     \* failures so far

busVars == <<waiting, held, settled, origin>>
vars == <<busVars, lastSeq, rows, pc, job, drawn, writing, faults>>

Bus == INSTANCE EventDelivery

Row == [entry : Entry, id : Entry, seq : Nat, by : Worker]
Steps == {"down", "idle", "draw", "insert", "commit", "ack"}

TypeOK ==
  /\ waiting \subseteq Entry /\ settled \subseteq Entry
  /\ held \in [Worker -> SUBSET Entry]
  /\ origin \in [Entry -> Entry]
  /\ lastSeq \in Nat
  /\ rows \subseteq Row
  /\ \A r \in rows : r.seq \in 1 .. lastSeq /\ r.id = origin[r.entry]
  /\ pc \in [Worker -> Steps]
  /\ job \in [Worker -> Entry \cup {NoEntry}]
  /\ drawn \in [Worker -> 0 .. lastSeq]
  /\ writing \subseteq {w \in Worker : pc[w] = "commit"}
  /\ faults \in 0 .. MaxFaults

Init ==
  /\ Bus!Init
  /\ origin = [e \in Entry |-> e]
  /\ lastSeq = 0
  /\ rows = {}
  /\ pc = [w \in Worker |-> "down"]
  /\ job = [w \in Worker |-> NoEntry]
  /\ drawn = [w \in Worker |-> 0]
  /\ writing = {}
  /\ faults = 0

-----------------------------------------------------------------------------
\* Any service publishes; a publisher whose reply was lost publishes the
\* same envelope, with the same event id, again.
InOrder(e) == \A f \in Entry : f[1] = e[1] /\ f[2] < e[2] => ~ Bus!IsNew(f)

Send(e, o) ==
  /\ Bus!Add(e)
  /\ InOrder(e)
  /\ origin' = [origin EXCEPT ![e] = o]
  /\ UNCHANGED <<lastSeq, rows, pc, job, drawn, writing, faults>>

Publish(e) == Send(e, e)

PublishAgain(e, o) ==
  /\ ~ Bus!IsNew(o)
  /\ o[1] = e[1]
  /\ origin[o] = o
  /\ Send(e, o)

-----------------------------------------------------------------------------
Start(w) ==
  /\ pc[w] = "down"
  /\ pc' = [pc EXCEPT ![w] = "idle"]
  /\ UNCHANGED <<busVars, lastSeq, rows, job, drawn, writing, faults>>

BugTake(w, e) ==                         \* the newest entry first
  /\ pc[w] = "idle"
  /\ e \in waiting
  /\ \A f \in waiting : f[1] = e[1] => f[2] <= e[2]
  /\ waiting' = waiting \ {e}
  /\ held' = [held EXCEPT ![w] = @ \cup {e}]
  /\ pc' = [pc EXCEPT ![w] = "draw"]
  /\ job' = [job EXCEPT ![w] = e]
  /\ UNCHANGED <<settled, origin, lastSeq, rows, drawn, writing, faults>>
Take(w, e) ==
  /\ pc[w] = "idle"
  /\ Bus!Deliver(w, {e})
  /\ pc' = [pc EXCEPT ![w] = "draw"]
  /\ job' = [job EXCEPT ![w] = e]
  /\ UNCHANGED <<origin, lastSeq, rows, drawn, writing, faults>>

\* INSERT evaluates the default of seq before it looks for a conflict.
Draw(w) ==
  /\ pc[w] = "draw"
  /\ lastSeq' = lastSeq + 1
  /\ drawn' = [drawn EXCEPT ![w] = lastSeq + 1]
  /\ pc' = [pc EXCEPT ![w] = "insert"]
  /\ UNCHANGED <<busVars, rows, job, writing, faults>>

Stored(e) == \E r \in rows : r.id = origin[e]

\* The unique key waits for a transaction that is inserting the same event
\* id; ON CONFLICT DO NOTHING if that one committed.
BugInsertUnchecked(w) ==                 \* SELECT first, no unique key
  /\ pc[w] = "insert"
  /\ writing' = IF Stored(job[w]) THEN writing ELSE writing \cup {w}
  /\ pc' = [pc EXCEPT ![w] = "commit"]
  /\ UNCHANGED <<busVars, lastSeq, rows, job, drawn, faults>>
BugInsert(w) ==                          \* a copy never gets past the unique key
  /\ pc[w] = "insert"
  /\ \A v \in writing : origin[job[v]] # origin[job[w]]
  /\ ~ Stored(job[w])
  /\ writing' = writing \cup {w}
  /\ pc' = [pc EXCEPT ![w] = "commit"]
  /\ UNCHANGED <<busVars, lastSeq, rows, job, drawn, faults>>
Insert(w) ==
  /\ pc[w] = "insert"
  /\ \A v \in writing : origin[job[v]] # origin[job[w]]
  /\ writing' = IF Stored(job[w]) THEN writing ELSE writing \cup {w}
  /\ pc' = [pc EXCEPT ![w] = "commit"]
  /\ UNCHANGED <<busVars, lastSeq, rows, job, drawn, faults>>

NewRow(w) == [entry |-> job[w], id |-> origin[job[w]], seq |-> drawn[w], by |-> w]

BugCommit(w) ==                          \* acknowledged before the commit
  /\ pc[w] = "commit"
  /\ pc' = [pc EXCEPT ![w] = "ack"]
  /\ UNCHANGED <<busVars, lastSeq, rows, job, drawn, writing, faults>>
Commit(w) ==
  /\ pc[w] = "commit"
  /\ rows' = IF w \in writing THEN rows \cup {NewRow(w)} ELSE rows
  /\ writing' = writing \ {w}
  /\ pc' = [pc EXCEPT ![w] = "ack"]
  /\ UNCHANGED <<busVars, lastSeq, job, drawn, faults>>

Ack(w) ==
  /\ pc[w] = "ack"
  /\ Bus!Settle(w, job[w])
  /\ pc' = [pc EXCEPT ![w] = "idle"]
  /\ job' = [job EXCEPT ![w] = NoEntry]
  /\ UNCHANGED <<origin, lastSeq, rows, drawn, writing, faults>>

\* persist raises, a call fails, or the process ends: the transaction is
\* rolled back, the entry stays pending, the container starts again.
Fail(w) ==
  /\ pc[w] # "down"
  /\ faults < MaxFaults
  /\ faults' = faults + 1
  /\ writing' = writing \ {w}
  /\ pc' = [pc EXCEPT ![w] = "down"]
  /\ job' = [job EXCEPT ![w] = NoEntry]
  /\ UNCHANGED <<busVars, lastSeq, rows, drawn>>

Work(w) ==
  \/ Start(w)
  \/ \E e \in waiting : Take(w, e)
  \/ Draw(w) \/ Insert(w) \/ Commit(w) \/ Ack(w)

Next ==
  \/ \E e \in Entry : Publish(e)
  \/ \E e, o \in Entry : PublishAgain(e, o)
  \/ \E w \in Worker : Work(w) \/ Fail(w)

Spec == Init /\ [][Next]_vars

\* A running replica takes its next step and a container restarts.
FairSpec == Spec /\ \A w \in Worker : WF_vars(Work(w))

-----------------------------------------------------------------------------
(***************************************************************************)
(* Properties.                                                             *)
(***************************************************************************)

\* event_repo.py: an event id is stored once, under a seq of its own, however
\* many replicas insert copies of the event at the same moment.
StoredOnce ==
  \A r, s \in rows : r.id = s.id \/ r.seq = s.seq => r = s

\* persist: "a stored-but-uncommitted event that is then acked on the bus is
\* a lost event": nothing is acknowledged before its event is in the table.
AckedIsStored == \A e \in settled : Stored(e)

\* The table is append-only: a copy of a stored event changes nothing of it.
AppendOnly == [][rows \subseteq rows']_vars

\* One replica stores the entries of a stream in the stream's order: seq may
\* have gaps, it never runs backwards.  (Two replicas promise less: each
\* draws its seq when it gets there.)
ReplicaKeepsOrder ==
  \A r, s \in rows :
    r.by = s.by /\ r.entry[1] = s.entry[1] /\ r.entry[2] < s.entry[2]
      => r.seq < s.seq

EventOf(S) == {origin[e] : e \in S}

Log == INSTANCE EventLog WITH
  Event <- Entry, Writer <- Worker,
  sent <- EventOf({e \in Entry : ~ Bus!IsNew(e)}),
  last <- lastSeq,
  log <- {[id |-> r.id, seq |-> r.seq, by |-> r.by] : r \in rows},
  confirmed <- EventOf(settled)

\* The table events with the bus, the copies, the transactions and the
\* failures hidden is a log as EventLog describes it.
ImplementsLog == Log!Spec

\* While nothing fails, every entry of the bus ends up in the table, a copy
\* that waits for its original included.
PublishedIsStored ==
  \A e \in Entry : e \in waiting ~> (e \in settled /\ Stored(e)) \/ faults > 0

============================================================================
