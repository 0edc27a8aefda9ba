--------------------------- MODULE ConsumerGroup ---------------------------
(***************************************************************************)
(* libs/event_bus: the Redis streams of one service and the                *)
(* read-parse-handle-ack loop every worker of the service runs             *)
(* (EventPublisher, EventConsumer).  The handler itself is one step here:  *)
(* DealEngine, Revalidation and EventStore open it up.                     *)
(*                                                                         *)
(* A stream is its length; entry <<s, i>> is the i-th one added to stream  *)
(* s.  A worker is a process that the container runtime starts again after *)
(* it ends ("restart: unless-stopped").                                    *)
(*                                                                         *)
(* Definitions named Bug... are mutated forms of the definition that       *)
(* follows them; PROJECT.json pairs each with the property that fails once *)
(* it takes that definition's place.                                       *)
(***************************************************************************)
EXTENDS Naturals, FiniteSets

CONSTANTS
  Stream,     \* event types the service consumes
  Rank,       \* Rank[s]: position of s in the service's list of event types
  Worker,     \* processes sharing the consumer group
  BatchSize,  \* XREADGROUP COUNT: entries per stream in one read
  MaxLen,     \* MaxLen[s], a bound: entries added to stream s
  LossyReply, \* whether the reply of an XREADGROUP may be lost
  MaxFaults   \* bound: failures (processes that end, replies that are lost)

ASSUME StreamAssumption ==
  /\ Rank \in [Stream -> Nat]
  /\ \A s, t \in Stream : Rank[s] = Rank[t] => s = t
ASSUME BoundAssumption ==
  /\ BatchSize \in Nat \ {0}
  /\ MaxLen \in [Stream -> Nat]
  /\ MaxFaults \in Nat
  /\ LossyReply \in BOOLEAN

Entry == UNION {{s} \X (1 .. MaxLen[s]) : s \in Stream}

VARIABLES
  length,     \* length[s]: entries added to s
  malformed,  \* entries that json.loads or validate_event rejects
  grouped,    \* streams on which the group exists
  cursor,     \* cursor[s]: last entry of s delivered to the group
  pel,        \* pel[w]: entries pending for w in the group's pending list
  acked,      \* entries acknowledged with XACK
  mode,       \* mode[w]: where the worker's loop is
  raw,        \* raw[w]: entries of the reply not parsed yet
  batch,      \* batch[w]: parsed events not handled and acknowledged yet
  handled,    \* entries whose handler returned
  faults      \* failures so far

busVars == <<length, malformed, grouped, cursor, pel, acked>>
loopVars == <<mode, raw, batch>>
vars == <<length, malformed, grouped, cursor, pel, acked, mode, raw, batch,
          handled, faults>>

Modes == {"down", "ready", "parsing", "handling", "acking"}

TypeOK ==
  /\ length \in [Stream -> Nat]
  /\ \A s \in Stream : length[s] <= MaxLen[s]
  /\ malformed \subseteq Entry
  /\ grouped \subseteq Stream
  /\ cursor \in [Stream -> Nat]
  /\ \A s \in Stream : cursor[s] <= length[s]
  /\ pel \in [Worker -> SUBSET Entry]
  /\ acked \subseteq Entry
  /\ mode \in [Worker -> Modes]
  /\ raw \in [Worker -> SUBSET Entry]
  /\ batch \in [Worker -> SUBSET Entry]
  /\ handled \subseteq Entry
  /\ faults \in 0 .. MaxFaults

Init ==
  /\ length = [s \in Stream |-> 0]
  /\ malformed = {}
  /\ grouped = {}
  /\ cursor = [s \in Stream |-> 0]
  /\ pel = [w \in Worker |-> {}]
  /\ acked = {}
  /\ mode = [w \in Worker |-> "down"]
  /\ raw = [w \in Worker |-> {}]
  /\ batch = [w \in Worker |-> {}]
  /\ handled = {}
  /\ faults = 0

Added == {e \in Entry : e[2] <= length[e[1]]}

\* Entries are worked through stream by stream in the declared order, and
\* within a stream in the order they were added.
Before(e, f) ==
  \/ Rank[e[1]] < Rank[f[1]]
  \/ e[1] = f[1] /\ e[2] < f[2]

IsFirst(e, S) == e \in S /\ \A f \in S \ {e} : Before(e, f)

-----------------------------------------------------------------------------
(***************************************************************************)
(* Producers.  EventPublisher.publish_raw validates and then adds, so this *)
(* library never adds an entry it would reject; another producer, or a     *)
(* newer schema version, does.                                             *)
(***************************************************************************)
Publish(s) ==
  /\ length[s] < MaxLen[s]
  /\ length' = [length EXCEPT ![s] = @ + 1]
  /\ UNCHANGED <<malformed, grouped, cursor, pel, acked, mode, raw, batch,
                 handled, faults>>

PublishForeign(s) ==
  /\ length[s] < MaxLen[s]
  /\ length' = [length EXCEPT ![s] = @ + 1]
  /\ malformed' = malformed \cup {<<s, length[s] + 1>>}
  /\ UNCHANGED <<grouped, cursor, pel, acked, mode, raw, batch, handled,
                 faults>>

-----------------------------------------------------------------------------
(***************************************************************************)
(* The process starts: ensure_groups creates the group where it is absent  *)
(* (an existing one answers BUSYGROUP and is left alone).  A new group     *)
(* starts at "0", so that it sees the backlog.                             *)
(***************************************************************************)
BugGroupStart(s) == length[s]            \* XGROUP CREATE ... $
GroupStart(s) == 0

EnsureGroups(w) ==
  /\ mode[w] = "down"
  /\ mode' = [mode EXCEPT ![w] = "ready"]
  /\ grouped' = Stream
  /\ cursor' = [s \in Stream |-> IF s \in grouped THEN cursor[s]
                                                  ELSE GroupStart(s)]
  /\ UNCHANGED <<length, malformed, pel, acked, raw, batch, handled, faults>>

(***************************************************************************)
(* XREADGROUP GROUP g w COUNT BatchSize STREAMS ... >: of every stream the *)
(* next entries never delivered to the group; they become pending for w.   *)
(* With nothing to deliver the call blocks, and the loop calls it again.   *)
(***************************************************************************)
BugNextCursor(s) == cursor[s] + BatchSize
BugReadAll(s) == length[s]               \* COUNT is not passed on
NextCursor(s) ==
  IF cursor[s] + BatchSize < length[s] THEN cursor[s] + BatchSize
                                       ELSE length[s]

New == {e \in Entry : cursor[e[1]] < e[2] /\ e[2] <= NextCursor(e[1])}

BugDeliver(w) ==                         \* read from a fixed id, not ">"
  pel' = [pel EXCEPT ![w] = @ \cup New] /\ UNCHANGED cursor
BugDeliverSkip(w) ==                     \* the rest of the stream is skipped
  /\ cursor' = length
  /\ pel' = [pel EXCEPT ![w] = @ \cup New]

DeliverTo(w) ==
  /\ cursor' = [s \in Stream |-> NextCursor(s)]
  /\ pel' = [pel EXCEPT ![w] = @ \cup New]

Read(w) ==
  /\ mode[w] = "ready"
  /\ New # {}
  /\ DeliverTo(w)
  /\ raw' = [raw EXCEPT ![w] = New]
  /\ mode' = [mode EXCEPT ![w] = "parsing"]
  /\ UNCHANGED <<length, malformed, grouped, acked, batch, handled, faults>>

\* Redis ran the command but its reply never arrived; the client library
\* sends the command again, which asks for entries newer than the lost ones.
ReadReplyLost(w) ==
  /\ LossyReply
  /\ mode[w] = "ready"
  /\ New # {}
  /\ faults < MaxFaults
  /\ DeliverTo(w)
  /\ faults' = faults + 1
  /\ UNCHANGED <<length, malformed, grouped, acked, mode, raw, batch, handled>>

-----------------------------------------------------------------------------
(***************************************************************************)
(* EventConsumer._parse on the next entry of the reply: a malformed one is *)
(* acknowledged and dropped, the others are returned by read() together.   *)
(***************************************************************************)
XAck(w, e) ==
  /\ acked' = acked \cup {e}
  /\ pel' = [pel EXCEPT ![w] = @ \ {e}]

AfterParse(r, b) == IF r # {} THEN "parsing"
                    ELSE IF b # {} THEN "handling" ELSE "ready"

Drop(w, e) ==
  /\ e \in malformed
  /\ XAck(w, e)
  /\ raw' = [raw EXCEPT ![w] = @ \ {e}]
  /\ mode' = [mode EXCEPT ![w] = AfterParse(raw[w] \ {e}, batch[w])]
  /\ UNCHANGED batch

Accept(w, e) ==
  /\ e \notin malformed
  /\ raw' = [raw EXCEPT ![w] = @ \ {e}]
  /\ batch' = [batch EXCEPT ![w] = @ \cup {e}]
  /\ mode' = [mode EXCEPT ![w] = AfterParse(raw[w] \ {e}, batch[w] \cup {e})]
  /\ UNCHANGED <<pel, acked>>

BugParseKeepMalformed(w, e) ==           \* dropped without the XACK
  \/ Accept(w, e)
  \/ /\ e \in malformed
     /\ raw' = [raw EXCEPT ![w] = @ \ {e}]
     /\ mode' = [mode EXCEPT ![w] = AfterParse(raw[w] \ {e}, batch[w])]
     /\ UNCHANGED <<pel, acked, batch>>

ParseOne(w, e) == Drop(w, e) \/ Accept(w, e)

Parse(w) ==
  /\ mode[w] = "parsing"
  /\ \E e \in raw[w] : IsFirst(e, raw[w]) /\ ParseOne(w, e)
  /\ UNCHANGED <<length, malformed, grouped, cursor, handled, faults>>

(***************************************************************************)
(* consume(): the handler of the next event, then its XACK.                *)
(***************************************************************************)
Handle(w) ==
  /\ mode[w] = "handling"
  /\ \E e \in batch[w] : IsFirst(e, batch[w]) /\ handled' = handled \cup {e}
  /\ mode' = [mode EXCEPT ![w] = "acking"]
  /\ UNCHANGED <<length, malformed, grouped, cursor, pel, acked, raw, batch,
                 faults>>

BugAck(w) ==                             \* acknowledged before it is handled
  /\ mode[w] \in {"handling", "acking"}
  /\ \E e \in batch[w] :
       /\ IsFirst(e, batch[w])
       /\ XAck(w, e)
       /\ batch' = [batch EXCEPT ![w] = @ \ {e}]
       /\ mode' = [mode EXCEPT ![w] = AfterParse({}, batch[w] \ {e})]
  /\ UNCHANGED <<length, malformed, grouped, cursor, raw, handled, faults>>

Ack(w) ==
  /\ mode[w] = "acking"
  /\ \E e \in batch[w] :
       /\ IsFirst(e, batch[w])
       /\ XAck(w, e)
       /\ batch' = [batch EXCEPT ![w] = @ \ {e}]
       /\ mode' = [mode EXCEPT ![w] = AfterParse({}, batch[w] \ {e})]
  /\ UNCHANGED <<length, malformed, grouped, cursor, raw, handled, faults>>

(***************************************************************************)
(* The process ends at any point: it is killed, or the handler (or a Redis *)
(* call) raised and consume() let the exception through.  Its pending      *)
(* entries stay pending for it; its batch is gone with its memory.         *)
(***************************************************************************)
Fail(w) ==
  /\ mode[w] # "down"
  /\ faults < MaxFaults
  /\ faults' = faults + 1
  /\ mode' = [mode EXCEPT ![w] = "down"]
  /\ raw' = [raw EXCEPT ![w] = {}]
  /\ batch' = [batch EXCEPT ![w] = {}]
  /\ UNCHANGED <<length, malformed, grouped, cursor, pel, acked, handled>>

Work(w) == EnsureGroups(w) \/ Read(w) \/ Parse(w) \/ Handle(w) \/ Ack(w)

Next ==
  \/ \E s \in Stream : Publish(s) \/ PublishForeign(s)
  \/ \E w \in Worker : Work(w) \/ ReadReplyLost(w) \/ Fail(w)

Spec == Init /\ [][Next]_vars

\* The container runtime starts an ended process again, and a running one
\* keeps running; nothing obliges producers to publish or processes to fail.
FairSpec == Spec /\ \A w \in Worker : WF_vars(Work(w))

-----------------------------------------------------------------------------
(***************************************************************************)
(* Every entry the group has moved past is accounted for: either it was    *)
(* acknowledged, or it is pending for exactly one worker, never both and   *)
(* never neither; no other entry is.  This is what makes a group that      *)
(* starts at "0" and reads with ">" lose nothing from the pending list     *)
(* (consumer.py, ensure_groups and read).                                  *)
(***************************************************************************)
Delivered == {e \in Entry : e[1] \in grouped /\ e[2] <= cursor[e[1]]}
Pending == UNION {pel[w] : w \in Worker}

DeliveredIsAccountedFor ==
  /\ Delivered = acked \cup Pending
  /\ acked \cap Pending = {}
  /\ \A v, w \in Worker : v # w => pel[v] \cap pel[w] = {}

(***************************************************************************)
(* A worker only holds in memory what is pending for it: two workers never *)
(* handle the same entry, and what a worker lets go of without XACK is     *)
(* still in the pending list (consumer.py, ack and consume).               *)
(***************************************************************************)
MemoryIsPending == \A w \in Worker : raw[w] \cup batch[w] \subseteq pel[w]

(***************************************************************************)
(* An acknowledged entry was handled to the end, or it was malformed; and  *)
(* no malformed entry reaches a handler (consume and _parse).              *)
(***************************************************************************)
AckedWasSettled ==
  /\ acked \subseteq handled \cup malformed
  /\ handled \cap malformed = {}

HandlesAnew ==
  \A w \in Worker : \A e \in Entry :
    /\ mode[w] = "handling" /\ mode'[w] = "acking"
    /\ IsFirst(e, batch[w])
    => e \notin handled

(***************************************************************************)
(* The bus alone never makes a handler run twice on an entry: a failure    *)
(* anywhere in the loop loses the entry's turn, it never repeats it.       *)
(***************************************************************************)
HandledAtMostOnce == [][HandlesAnew]_vars

Abandoned(w) == pel[w] \ (raw[w] \cup batch[w])

StaysAbandoned ==
  \A w \in Worker :
    /\ Abandoned(w) \subseteq Abandoned(w)'
    /\ Abandoned(w) \cap handled' \subseteq handled

(***************************************************************************)
(* What a failure or a lost reply takes from a worker's memory is gone for *)
(* good: it stays pending for that worker, and no worker reads, handles or *)
(* acknowledges it again, not even that one once it is back (read asks for *)
(* ">" alone, and nothing claims).                                         *)
(***************************************************************************)
AbandonedForGood == [][StaysAbandoned]_vars

(***************************************************************************)
(* Nothing claims what a failure leaves behind, so how much it may be is   *)
(* what the batch size decides: whoever fails, however often and wherever  *)
(* in the loop, each failure and each lost reply leaves at most BatchSize  *)
(* more entries of a stream behind, and without any of them nothing is     *)
(* left behind (consumer.py, read and consume).                            *)
(***************************************************************************)
LostOf(s) == {e \in Entry : e[1] = s /\ \E w \in Worker : e \in Abandoned(w)}

LossIsBounded == \A s \in Stream : Cardinality(LostOf(s)) <= faults * BatchSize

(***************************************************************************)
(* As long as no process fails and no reply is lost, every entry that is   *)
(* published is in the end acknowledged, whoever reads it and whatever     *)
(* else is in its batch.                                                   *)
(***************************************************************************)
PublishedIsSettled ==
  [](faults = 0) => \A e \in Entry : (e \in Added) ~> (e \in acked)

(***************************************************************************)
(* "The entry stays pending for that consumer so a reclaim can retry it"   *)
(* (consumer.py, consume); "unacknowledged, and Redis redelivers it"       *)
(* (deal-engine/src/main.py): a pending entry is settled in the end, since *)
(* failures are finitely many and every process is started again.          *)
(***************************************************************************)
PendingIsRetried == \A e \in Entry : (e \in Pending) ~> (e \in acked)

\* The detailed loop implements the promise of EventDelivery.
Delivery == INSTANCE EventDelivery WITH
  waiting <- Added \ Delivered,
  held <- pel,
  settled <- acked

ImplementsDelivery == Delivery!Spec

============================================================================
