------------------------ MODULE ConsumerGroupProofs ------------------------
(***************************************************************************)
(* The safety properties of ConsumerGroup, and that it implements          *)
(* EventDelivery, for every set of streams and workers and every bound.    *)
(***************************************************************************)
EXTENDS ConsumerGroup, FiniteSetTheorems, TLAPS

(***************************************************************************)
(* What the safety properties rest on: the group exists once a worker      *)
(* runs, entries carry no verdict before they are added, a worker's batch  *)
(* has passed validation, and in memory only the event whose XACK is due   *)
(* has been handled.                                                       *)
(***************************************************************************)
GroupedOnceRunning ==
  \A w \in Worker : mode[w] # "down" => grouped = Stream

MalformedIsAdded == malformed \subseteq Added

BatchIsValid == \A w \in Worker : batch[w] \cap malformed = {}

HandledIsDelivered == handled \subseteq Delivered

AckIsDue ==
  \A w \in Worker : mode[w] = "acking" =>
    \A e \in batch[w] : IsFirst(e, batch[w]) => e \in handled

HandledInMemory ==
  \A w \in Worker : \A e \in raw[w] \cup batch[w] :
    e \in handled => mode[w] = "acking" /\ IsFirst(e, batch[w])

RawOnlyInParse ==
  \A w \in Worker : mode[w] # "parsing" => raw[w] = {}

BatchOnlyInLoop ==
  \A w \in Worker : mode[w] \in {"ready", "down"} => batch[w] = {}

RawBatchApart == \A w \in Worker : raw[w] \cap batch[w] = {}

Inv ==
  /\ TypeOK
  /\ DeliveredIsAccountedFor
  /\ MemoryIsPending
  /\ AckedWasSettled
  /\ GroupedOnceRunning
  /\ MalformedIsAdded
  /\ BatchIsValid
  /\ HandledIsDelivered
  /\ AckIsDue
  /\ HandledInMemory
  /\ RawOnlyInParse
  /\ BatchOnlyInLoop
  /\ RawBatchApart

-----------------------------------------------------------------------------
LEMMA EntryPair ==
  \A e : e \in Entry <=> /\ e \in Stream \X Nat
                         /\ e[2] \in 1 .. MaxLen[e[1]]
<1>1. ASSUME NEW e \in Entry
      PROVE  e \in Stream \X Nat /\ e[2] \in 1 .. MaxLen[e[1]]
  <2>1. PICK s \in Stream : e \in {s} \X (1 .. MaxLen[s])
    BY DEF Entry
  <2> QED
    BY <2>1
<1>2. ASSUME NEW e \in Stream \X Nat, e[2] \in 1 .. MaxLen[e[1]]
      PROVE  e \in Entry
  <2>1. e[1] \in Stream /\ e \in {e[1]} \X (1 .. MaxLen[e[1]])
    BY <1>2
  <2> QED
    BY <2>1 DEF Entry
<1> QED
  BY <1>1, <1>2

\* Of a batch at most one event is first.
LEMMA FirstIsUnique ==
  ASSUME NEW S \in SUBSET Entry, NEW e \in Entry, NEW f \in Entry,
         IsFirst(e, S), IsFirst(f, S)
  PROVE  e = f
<1>1. e \in Stream \X Nat /\ f \in Stream \X Nat
  BY EntryPair
<1>2. SUFFICES ASSUME e # f PROVE FALSE
  OBVIOUS
<1>3. Before(e, f) /\ Before(f, e)
  BY <1>2 DEF IsFirst
<1> QED
  BY <1>1, <1>3, StreamAssumption DEF Before

\* What a read takes is in the stream and was not delivered before.
LEMMA NewIsAdded ==
  ASSUME TypeOK
  PROVE  /\ New \subseteq Added
         /\ New \cap Delivered = {}
         /\ \A s \in Stream : NextCursor(s) \in Nat /\ NextCursor(s) <= length[s]
                              /\ cursor[s] <= NextCursor(s)
<1>1. \A s \in Stream : /\ NextCursor(s) \in Nat
                        /\ NextCursor(s) <= length[s]
                        /\ cursor[s] <= NextCursor(s)
  BY BoundAssumption DEF TypeOK, NextCursor
<1>2. ASSUME NEW e \in New PROVE e \in Added /\ e \notin Delivered
  <2>1. e \in Entry /\ e[1] \in Stream /\ e[2] \in Nat
    BY EntryPair DEF New
  <2>2. cursor[e[1]] < e[2] /\ e[2] <= NextCursor(e[1])
    BY DEF New
  <2>3. length[e[1]] \in Nat /\ cursor[e[1]] \in Nat
    BY <2>1 DEF TypeOK
  <2> QED
    BY <1>1, <2>1, <2>2, <2>3 DEF Added, Delivered
<1> QED
  BY <1>1, <1>2

LEMMA InitInv == Init => Inv
<1> SUFFICES ASSUME Init PROVE Inv
  OBVIOUS
<1>1. TypeOK
  BY BoundAssumption DEF Init, TypeOK, Modes
<1>2. Delivered = {} /\ Pending = {}
  BY DEF Init, Delivered, Pending
<1>3. DeliveredIsAccountedFor
  BY <1>2 DEF Init, DeliveredIsAccountedFor
<1> QED
  BY <1>1, <1>3 DEF Inv, Init, MemoryIsPending, AckedWasSettled,
     GroupedOnceRunning, MalformedIsAdded, BatchIsValid, HandledIsDelivered,
     AckIsDue, HandledInMemory, RawOnlyInParse, BatchOnlyInLoop, RawBatchApart

-----------------------------------------------------------------------------
\* Every action of a worker, and every producer, keeps the invariant.
LEMMA StreamGrows ==
  ASSUME TypeOK, NEW s \in Stream, length[s] < MaxLen[s],
         length' = [length EXCEPT ![s] = @ + 1]
  PROVE  /\ length' \in [Stream -> Nat]
         /\ \A t \in Stream : length'[t] <= MaxLen[t] /\ length[t] <= length'[t]
         /\ Added \subseteq Added'
         /\ <<s, length[s] + 1>> \in Entry
         /\ <<s, length[s] + 1>> \notin Added
         /\ <<s, length[s] + 1>> \in Added'
<1>0. length \in [Stream -> Nat] /\ MaxLen \in [Stream -> Nat]
  BY BoundAssumption DEF TypeOK
<1>1. /\ length' \in [Stream -> Nat]
      /\ length'[s] = length[s] + 1
      /\ \A t \in Stream : t # s => length'[t] = length[t]
      /\ length \in [Stream -> Nat] /\ MaxLen \in [Stream -> Nat]
  BY <1>0
<1>2. \A t \in Stream : length'[t] <= MaxLen[t] /\ length[t] <= length'[t]
  BY <1>1 DEF TypeOK
<1>3. ASSUME NEW e \in Added PROVE e \in Added'
  <2>1. e \in Entry /\ e[1] \in Stream /\ e[2] \in Nat /\ e[2] <= length[e[1]]
    BY EntryPair DEF Added
  <2>2. e[2] <= length'[e[1]]
    BY <1>1, <1>2, <2>1
  <2> QED
    BY <2>1, <2>2 DEF Added
<1>4. <<s, length[s] + 1>> \in Entry
  <2>1. length[s] + 1 \in 1 .. MaxLen[s]
    BY <1>1
  <2> QED
    BY <2>1 DEF Entry
<1>5. <<s, length[s] + 1>> \notin Added /\ <<s, length[s] + 1>> \in Added'
  BY <1>1, <1>4 DEF Added
<1> QED
  BY <1>1, <1>2, <1>3, <1>4, <1>5

LEMMA PublishInv ==
  ASSUME Inv, NEW s \in Stream, Publish(s)
  PROVE  Inv'
<1> USE DEF Inv, Publish
<1>0. \A t \in Stream : cursor[t] <= length'[t]
  BY StreamGrows DEF TypeOK
<1>1. Added \subseteq Added'
  BY StreamGrows
<1>2. TypeOK'
  BY <1>0, StreamGrows DEF TypeOK
<1>3. Delivered' = Delivered /\ Pending' = Pending
  BY DEF Delivered, Pending
<1> QED
  BY <1>1, <1>2, <1>3
  DEF DeliveredIsAccountedFor, MemoryIsPending, AckedWasSettled,
      GroupedOnceRunning, MalformedIsAdded, BatchIsValid, HandledIsDelivered,
      AckIsDue, HandledInMemory, RawOnlyInParse, BatchOnlyInLoop, RawBatchApart,
      IsFirst

LEMMA PublishForeignInv ==
  ASSUME Inv, NEW s \in Stream, PublishForeign(s)
  PROVE  Inv'
<1> DEFINE n == <<s, length[s] + 1>>
<1> USE DEF Inv, PublishForeign
<1>0. \A t \in Stream : cursor[t] <= length'[t]
  BY StreamGrows DEF TypeOK
<1>1. n \in Entry /\ n \notin Added /\ n \in Added' /\ Added \subseteq Added'
  BY StreamGrows
<1>2. TypeOK'
  BY <1>0, <1>1, StreamGrows DEF TypeOK
<1>3. Delivered' = Delivered /\ Pending' = Pending
  BY DEF Delivered, Pending
<1>4. Delivered \subseteq Added
  BY EntryPair DEF Delivered, Added, TypeOK
<1>5. n \notin Delivered
  BY <1>1, <1>4
<1>6. \A w \in Worker : batch[w] \subseteq Pending
  BY DEF MemoryIsPending, Pending
<1>7. \A w \in Worker : n \notin batch[w]
  BY <1>5, <1>6 DEF DeliveredIsAccountedFor
<1>8. n \notin handled
  BY <1>5 DEF HandledIsDelivered
<1>9. BatchIsValid'
  BY <1>7 DEF BatchIsValid
<1>10. AckedWasSettled' /\ MalformedIsAdded'
  BY <1>1, <1>8 DEF AckedWasSettled, MalformedIsAdded
<1> QED
  BY <1>2, <1>3, <1>9, <1>10
  DEF DeliveredIsAccountedFor, MemoryIsPending,
      GroupedOnceRunning, HandledIsDelivered,
      AckIsDue, HandledInMemory, RawOnlyInParse, BatchOnlyInLoop, RawBatchApart,
      IsFirst

LEMMA EnsureGroupsInv ==
  ASSUME Inv, NEW w \in Worker, EnsureGroups(w)
  PROVE  Inv'
<1> USE DEF Inv, EnsureGroups
<1>1. TypeOK'
  BY DEF TypeOK, Modes, GroupStart
<1>2. Delivered' = Delivered
  BY EntryPair DEF Delivered, TypeOK, GroupStart
<1>3. Pending' = Pending /\ Added' = Added
  BY DEF Pending, Added
<1> QED
  BY <1>1, <1>2, <1>3
  DEF TypeOK, DeliveredIsAccountedFor, MemoryIsPending, AckedWasSettled,
      GroupedOnceRunning, MalformedIsAdded, BatchIsValid, HandledIsDelivered,
      AckIsDue, HandledInMemory, RawOnlyInParse, BatchOnlyInLoop, RawBatchApart,
      IsFirst

\* A delivery moves the new entries from the streams to one pending list.
LEMMA DeliverToInv ==
  ASSUME Inv, NEW w \in Worker, mode[w] = "ready", DeliverTo(w),
         UNCHANGED <<length, grouped, acked>>
  PROVE  /\ Delivered' = Delivered \cup New
         /\ Pending' = Pending \cup New
         /\ Added' = Added
         /\ DeliveredIsAccountedFor'
<1> USE DEF Inv, DeliverTo
<1>1. grouped = Stream
  BY DEF GroupedOnceRunning
<1>2. Added' = Added
  BY DEF Added
<1>3. Delivered' = Delivered \cup New
  BY <1>1, NewIsAdded, EntryPair DEF Delivered, TypeOK, New
<1>4. Pending' = Pending \cup New
  BY DEF Pending, TypeOK
<1>5. New \cap Pending = {} /\ New \cap acked = {}
  BY NewIsAdded DEF DeliveredIsAccountedFor
<1>6. \A v \in Worker : v # w => pel'[v] = pel[v] /\ pel[v] \cap New = {}
  BY <1>5 DEF TypeOK, Pending
<1>7. pel'[w] = pel[w] \cup New
  BY DEF TypeOK
<1>8. \A u, v \in Worker : u # v => pel'[u] \cap pel'[v] = {}
  BY <1>6, <1>7 DEF DeliveredIsAccountedFor
<1> QED
  BY <1>2, <1>3, <1>4, <1>5, <1>8 DEF DeliveredIsAccountedFor

LEMMA ReadInv ==
  ASSUME Inv, NEW w \in Worker, Read(w)
  PROVE  Inv'
<1> USE DEF Inv, Read
<1>1. /\ Delivered' = Delivered \cup New /\ Pending' = Pending \cup New
      /\ Added' = Added /\ DeliveredIsAccountedFor'
  BY DeliverToInv
<1>2. New \subseteq Entry /\ New \cap Delivered = {}
  BY NewIsAdded DEF New
<1>3. TypeOK'
  BY <1>2, NewIsAdded DEF TypeOK, Modes, DeliverTo
<1>4. /\ \A v \in Worker : v # w => /\ raw'[v] = raw[v]
                                    /\ pel'[v] = pel[v]
                                    /\ mode'[v] = mode[v]
      /\ raw'[w] = New /\ pel'[w] = pel[w] \cup New /\ mode'[w] = "parsing"
      /\ batch' = batch /\ batch[w] = {}
      /\ raw[w] = {}
  BY DEF TypeOK, DeliverTo, BatchOnlyInLoop, RawOnlyInParse
<1>5. MemoryIsPending'
  BY <1>4 DEF MemoryIsPending
<1>6. New \cap handled = {}
  BY <1>2 DEF HandledIsDelivered
<1>7. HandledInMemory' /\ RawBatchApart'
  BY <1>4, <1>6 DEF HandledInMemory, RawBatchApart, IsFirst
<1> QED
  BY <1>1, <1>3, <1>4, <1>5, <1>7
  DEF AckedWasSettled, GroupedOnceRunning, MalformedIsAdded, BatchIsValid,
      HandledIsDelivered, AckIsDue, RawOnlyInParse, BatchOnlyInLoop, IsFirst

LEMMA ReadReplyLostInv ==
  ASSUME Inv, NEW w \in Worker, ReadReplyLost(w)
  PROVE  Inv'
<1> USE DEF Inv, ReadReplyLost
<1>1. /\ Delivered' = Delivered \cup New /\ Pending' = Pending \cup New
      /\ Added' = Added /\ DeliveredIsAccountedFor'
  BY DeliverToInv
<1>2. New \subseteq Entry
  BY DEF New
<1>3. TypeOK'
  BY <1>2, NewIsAdded, BoundAssumption DEF TypeOK, Modes, DeliverTo
<1>4. \A v \in Worker : pel[v] \subseteq pel'[v]
  BY DEF TypeOK, DeliverTo
<1>5. MemoryIsPending'
  BY <1>4 DEF MemoryIsPending
<1> QED
  BY <1>1, <1>3, <1>5
  DEF AckedWasSettled, GroupedOnceRunning, MalformedIsAdded, BatchIsValid,
      HandledIsDelivered, AckIsDue, HandledInMemory, RawOnlyInParse,
      BatchOnlyInLoop, RawBatchApart, IsFirst

(***************************************************************************)
(* Parsing drops a malformed entry or moves a valid one into the batch.    *)
(***************************************************************************)
\* Acknowledging moves one entry from w's pending list to the settled ones.
LEMMA XAckInv ==
  ASSUME Inv, NEW w \in Worker, NEW e \in pel[w], XAck(w, e),
         UNCHANGED <<grouped, cursor>>
  PROVE  /\ DeliveredIsAccountedFor'
         /\ Delivered' = Delivered
         /\ pel' \in [Worker -> SUBSET Entry]
         /\ acked' = acked \cup {e}
         /\ acked' \subseteq Entry
         /\ pel'[w] = pel[w] \ {e}
         /\ \A v \in Worker : v # w => pel'[v] = pel[v] /\ e \notin pel[v]
<1> USE DEF Inv, XAck
<1>1. /\ pel' \in [Worker -> SUBSET Entry]
      /\ pel'[w] = pel[w] \ {e}
      /\ acked' \subseteq Entry
  BY DEF TypeOK
<1>2. \A v \in Worker : v # w => pel'[v] = pel[v] /\ e \notin pel[v]
  BY DEF TypeOK, DeliveredIsAccountedFor
<1>3. Pending' = Pending \ {e} /\ e \in Pending
  BY <1>1, <1>2 DEF Pending
<1>4. Delivered' = Delivered
  BY DEF Delivered
<1>5. \A u, v \in Worker : u # v => pel'[u] \cap pel'[v] = {}
  BY <1>1, <1>2 DEF DeliveredIsAccountedFor
<1> QED
  BY <1>1, <1>2, <1>3, <1>4, <1>5 DEF DeliveredIsAccountedFor

LEMMA DropInv ==
  ASSUME Inv, NEW w \in Worker, mode[w] = "parsing",
         NEW e \in raw[w], Drop(w, e),
         UNCHANGED <<length, malformed, grouped, cursor, handled, faults>>
  PROVE  Inv'
<1> USE DEF Inv, Drop
<1>1. e \in pel[w] /\ XAck(w, e)
  BY DEF MemoryIsPending
<1>2. /\ DeliveredIsAccountedFor' /\ Delivered' = Delivered
      /\ pel' \in [Worker -> SUBSET Entry]
      /\ acked' = acked \cup {e} /\ acked' \subseteq Entry
      /\ pel'[w] = pel[w] \ {e}
      /\ \A v \in Worker : v # w => pel'[v] = pel[v]
  BY <1>1, XAckInv
<1>3. /\ raw'[w] = raw[w] \ {e}
      /\ mode'[w] = AfterParse(raw[w] \ {e}, batch[w])
      /\ \A v \in Worker : v # w => raw'[v] = raw[v] /\ mode'[v] = mode[v]
      /\ batch' = batch
  BY DEF TypeOK
<1>4. mode'[w] \in {"parsing", "handling", "ready"}
  BY <1>3 DEF AfterParse
<1>5. TypeOK'
  BY <1>2, <1>3, <1>4 DEF TypeOK, Modes
<1>6. e \notin batch[w]
  BY DEF BatchIsValid
<1>7. MemoryIsPending'
  BY <1>2, <1>3, <1>6 DEF MemoryIsPending
<1>8. AckedWasSettled'
  BY <1>2 DEF AckedWasSettled
<1>9. Added' = Added
  BY DEF Added
<1>10. HandledInMemory' /\ AckIsDue'
  BY <1>3, <1>4 DEF HandledInMemory, AckIsDue, IsFirst
<1>11. RawOnlyInParse' /\ BatchOnlyInLoop' /\ RawBatchApart'
  BY <1>3, <1>4 DEF RawOnlyInParse, BatchOnlyInLoop, RawBatchApart, AfterParse
<1>12. GroupedOnceRunning'
  BY <1>3 DEF GroupedOnceRunning
<1> QED
  BY <1>2, <1>3, <1>5, <1>7, <1>8, <1>9, <1>10, <1>11, <1>12
  DEF MalformedIsAdded, BatchIsValid, HandledIsDelivered

LEMMA AcceptInv ==
  ASSUME Inv, NEW w \in Worker, mode[w] = "parsing",
         NEW e \in raw[w], Accept(w, e),
         UNCHANGED <<length, malformed, grouped, cursor, handled, faults>>
  PROVE  Inv'
<1> USE DEF Inv, Accept
<1>1. /\ raw'[w] = raw[w] \ {e}
      /\ batch'[w] = batch[w] \cup {e}
      /\ mode'[w] = AfterParse(raw[w] \ {e}, batch[w] \cup {e})
      /\ \A v \in Worker : v # w => /\ raw'[v] = raw[v]
                                    /\ mode'[v] = mode[v]
                                    /\ batch'[v] = batch[v]
  BY DEF TypeOK
<1>2. mode'[w] \in {"parsing", "handling"}
  BY <1>1 DEF AfterParse
<1>3. TypeOK'
  BY <1>1, <1>2 DEF TypeOK, Modes
<1>4. e \notin handled /\ \A f \in batch[w] : f \notin handled
  BY DEF HandledInMemory
<1>5. MemoryIsPending' /\ BatchIsValid'
  BY <1>1 DEF MemoryIsPending, BatchIsValid
<1>6. HandledInMemory' /\ AckIsDue'
  BY <1>1, <1>2, <1>4 DEF HandledInMemory, AckIsDue, IsFirst
<1>7. RawOnlyInParse' /\ BatchOnlyInLoop' /\ RawBatchApart'
  BY <1>1, <1>2 DEF RawOnlyInParse, BatchOnlyInLoop, RawBatchApart, AfterParse
<1>8. Added' = Added /\ Delivered' = Delivered /\ Pending' = Pending
  BY DEF Added, Delivered, Pending
<1>9. GroupedOnceRunning'
  BY <1>1 DEF GroupedOnceRunning
<1> QED
  BY <1>3, <1>5, <1>6, <1>7, <1>8, <1>9
  DEF DeliveredIsAccountedFor, AckedWasSettled, MalformedIsAdded,
      HandledIsDelivered

LEMMA ParseInv ==
  ASSUME Inv, NEW w \in Worker, Parse(w)
  PROVE  Inv'
<1>1. PICK e \in raw[w] : IsFirst(e, raw[w]) /\ ParseOne(w, e)
  BY DEF Parse
<1>2. CASE Drop(w, e)
  BY <1>1, <1>2, DropInv DEF Parse
<1>3. CASE Accept(w, e)
  BY <1>1, <1>3, AcceptInv DEF Parse
<1> QED
  BY <1>1, <1>2, <1>3 DEF ParseOne

LEMMA HandleInv ==
  ASSUME Inv, NEW w \in Worker, Handle(w)
  PROVE  Inv'
<1> USE DEF Inv, Handle
<1>1. PICK e \in batch[w] : IsFirst(e, batch[w]) /\ handled' = handled \cup {e}
  OBVIOUS
<1>2. /\ mode'[w] = "acking"
      /\ \A v \in Worker : v # w => mode'[v] = mode[v]
      /\ raw' = raw /\ batch' = batch /\ raw[w] = {}
  BY DEF TypeOK, RawOnlyInParse
<1>3. e \in pel[w] /\ e \in Entry /\ e \in Delivered /\ e \notin malformed
  BY DEF TypeOK, MemoryIsPending, BatchIsValid, DeliveredIsAccountedFor, Pending
<1>4. TypeOK'
  BY <1>1, <1>2, <1>3 DEF TypeOK, Modes
<1>5. AckedWasSettled'
  BY <1>1, <1>3 DEF AckedWasSettled
<1>6. \A v \in Worker : v # w => e \notin raw[v] \cup batch[v]
  BY <1>3 DEF MemoryIsPending, DeliveredIsAccountedFor
<1>7. batch[w] \in SUBSET Entry
  BY DEF TypeOK
<1>8. \A f \in batch[w] : IsFirst(f, batch[w]) => f = e
  BY <1>1, <1>7, FirstIsUnique
<1>9. AckIsDue'
  BY <1>1, <1>2, <1>8 DEF AckIsDue, IsFirst
<1>10. HandledInMemory'
  BY <1>1, <1>2, <1>6 DEF HandledInMemory, IsFirst
<1>11. Added' = Added /\ Delivered' = Delivered /\ Pending' = Pending
  BY DEF Added, Delivered, Pending
<1>12. RawOnlyInParse' /\ BatchOnlyInLoop' /\ RawBatchApart' /\ GroupedOnceRunning'
  BY <1>2 DEF RawOnlyInParse, BatchOnlyInLoop, RawBatchApart, GroupedOnceRunning
<1> QED
  BY <1>1, <1>3, <1>4, <1>5, <1>9, <1>10, <1>11, <1>12
  DEF DeliveredIsAccountedFor, MemoryIsPending, MalformedIsAdded, BatchIsValid,
      HandledIsDelivered

LEMMA AckInv ==
  ASSUME Inv, NEW w \in Worker, Ack(w)
  PROVE  Inv'
<1> USE DEF Inv, Ack
<1>1. PICK e \in batch[w] :
        /\ IsFirst(e, batch[w])
        /\ XAck(w, e)
        /\ batch' = [batch EXCEPT ![w] = @ \ {e}]
        /\ mode' = [mode EXCEPT ![w] = AfterParse({}, batch[w] \ {e})]
  OBVIOUS
<1>2. e \in pel[w]
  BY DEF MemoryIsPending
<1>3. /\ DeliveredIsAccountedFor' /\ Delivered' = Delivered
      /\ pel' \in [Worker -> SUBSET Entry]
      /\ acked' = acked \cup {e} /\ acked' \subseteq Entry
      /\ pel'[w] = pel[w] \ {e}
      /\ \A v \in Worker : v # w => pel'[v] = pel[v]
  BY <1>1, <1>2, XAckInv
<1>4. /\ batch'[w] = batch[w] \ {e} /\ raw' = raw /\ raw[w] = {}
      /\ mode'[w] = AfterParse({}, batch[w] \ {e})
      /\ \A v \in Worker : v # w => batch'[v] = batch[v] /\ mode'[v] = mode[v]
  BY <1>1 DEF TypeOK, RawOnlyInParse
<1>5. mode'[w] \in {"handling", "ready"}
  BY <1>4 DEF AfterParse
<1>6. TypeOK'
  BY <1>3, <1>4, <1>5 DEF TypeOK, Modes
<1>7. e \in handled
  BY <1>1 DEF AckIsDue
<1>8. AckedWasSettled'
  BY <1>3, <1>7 DEF AckedWasSettled
<1>9. MemoryIsPending'
  BY <1>3, <1>4 DEF MemoryIsPending
<1>10. \A f \in batch[w] : f \in handled => f = e
  <2>1. \A f \in batch[w] : f \in handled => IsFirst(f, batch[w])
    BY DEF HandledInMemory
  <2> QED
    BY <1>1, <2>1, FirstIsUnique DEF TypeOK
<1>11. HandledInMemory' /\ AckIsDue'
  BY <1>4, <1>5, <1>10 DEF HandledInMemory, AckIsDue, IsFirst
<1>12. RawOnlyInParse' /\ BatchOnlyInLoop' /\ RawBatchApart' /\ GroupedOnceRunning'
  BY <1>4, <1>5 DEF RawOnlyInParse, BatchOnlyInLoop, RawBatchApart, AfterParse,
     GroupedOnceRunning
<1>13. Added' = Added
  BY DEF Added
<1> QED
  BY <1>3, <1>4, <1>6, <1>8, <1>9, <1>11, <1>12, <1>13
  DEF MalformedIsAdded, BatchIsValid, HandledIsDelivered

LEMMA FailInv ==
  ASSUME Inv, NEW w \in Worker, Fail(w)
  PROVE  Inv'
<1> USE DEF Inv, Fail
<1>1. /\ raw'[w] = {} /\ batch'[w] = {} /\ mode'[w] = "down"
      /\ \A v \in Worker : v # w => /\ raw'[v] = raw[v]
                                    /\ batch'[v] = batch[v]
                                    /\ mode'[v] = mode[v]
  BY DEF TypeOK
<1>2. TypeOK'
  BY <1>1, BoundAssumption DEF TypeOK, Modes
<1>3. MemoryIsPending' /\ BatchIsValid'
  BY <1>1 DEF MemoryIsPending, BatchIsValid
<1>4. HandledInMemory' /\ AckIsDue'
  BY <1>1 DEF HandledInMemory, AckIsDue, IsFirst
<1>5. RawOnlyInParse' /\ BatchOnlyInLoop' /\ RawBatchApart' /\ GroupedOnceRunning'
  BY <1>1 DEF RawOnlyInParse, BatchOnlyInLoop, RawBatchApart, GroupedOnceRunning
<1>6. Added' = Added /\ Delivered' = Delivered /\ Pending' = Pending
  BY DEF Added, Delivered, Pending
<1> QED
  BY <1>2, <1>3, <1>4, <1>5, <1>6
  DEF DeliveredIsAccountedFor, AckedWasSettled, MalformedIsAdded,
      HandledIsDelivered

-----------------------------------------------------------------------------
(***************************************************************************)
(* The invariant holds throughout, and with it the type invariant and the  *)
(* three safety invariants of ConsumerGroup.                               *)
(***************************************************************************)
LEMMA NextInv == Inv /\ [Next]_vars => Inv'
<1> SUFFICES ASSUME Inv, [Next]_vars PROVE Inv'
  OBVIOUS
<1>1. ASSUME NEW s \in Stream, Publish(s) PROVE Inv'
  BY <1>1, PublishInv
<1>2. ASSUME NEW s \in Stream, PublishForeign(s) PROVE Inv'
  BY <1>2, PublishForeignInv
<1>3. ASSUME NEW w \in Worker, Work(w) PROVE Inv'
  BY <1>3, EnsureGroupsInv, ReadInv, ParseInv, HandleInv, AckInv DEF Work
<1>4. ASSUME NEW w \in Worker, ReadReplyLost(w) PROVE Inv'
  BY <1>4, ReadReplyLostInv
<1>5. ASSUME NEW w \in Worker, Fail(w) PROVE Inv'
  BY <1>5, FailInv
<1>6. CASE UNCHANGED vars
  BY <1>6 DEF vars, Inv, TypeOK, DeliveredIsAccountedFor, MemoryIsPending,
     AckedWasSettled, GroupedOnceRunning, MalformedIsAdded, BatchIsValid,
     HandledIsDelivered, AckIsDue, HandledInMemory, RawOnlyInParse,
     BatchOnlyInLoop, RawBatchApart, Added, Delivered, Pending
<1> QED
  BY <1>1, <1>2, <1>3, <1>4, <1>5, <1>6 DEF Next

THEOREM InvHolds == Spec => []Inv
<1> QED
  BY InitInv, NextInv, PTL DEF Spec

\* Every variable keeps its type: the type invariant of consumer.py's loop.
THEOREM TypeCorrect == Spec => []TypeOK
<1>1. Inv => TypeOK
  BY DEF Inv
<1> QED
  BY <1>1, InvHolds, PTL

\* Whatever fails and however many workers share the group, an entry the
\* group has moved past is acknowledged or pending for exactly one worker.
THEOREM NothingIsLostFromTheList == Spec => []DeliveredIsAccountedFor
<1>1. Inv => DeliveredIsAccountedFor
  BY DEF Inv
<1> QED
  BY <1>1, InvHolds, PTL

\* No two workers ever hold the same entry in memory, and a worker holds
\* nothing that is not in its pending list.
THEOREM WorkIsExclusive == Spec => []MemoryIsPending
<1>1. Inv => MemoryIsPending
  BY DEF Inv
<1> QED
  BY <1>1, InvHolds, PTL

\* An entry is acknowledged only after its handler returned or because it is
\* malformed, and no malformed entry reaches a handler.
THEOREM AckFollowsHandling == Spec => []AckedWasSettled
<1>1. Inv => AckedWasSettled
  BY DEF Inv
<1> QED
  BY <1>1, InvHolds, PTL

(***************************************************************************)
(* No entry is handled twice: a failure loses a turn, it never repeats it. *)
(***************************************************************************)
THEOREM NeverHandledTwice == Spec => HandledAtMostOnce
<1>1. Inv => HandlesAnew
  <2> SUFFICES ASSUME Inv, NEW w \in Worker, NEW e \in Entry,
                      mode[w] = "handling", IsFirst(e, batch[w])
               PROVE  e \notin handled
    BY DEF HandlesAnew
  <2> QED
    BY DEF Inv, HandledInMemory, IsFirst
<1> QED
  BY <1>1, InvHolds, PTL DEF HandledAtMostOnce

(***************************************************************************)
(* An entry that left a worker's memory unacknowledged never comes back.   *)
(***************************************************************************)
LEMMA AbandonedStep == Inv /\ [Next]_vars => StaysAbandoned
<1> SUFFICES ASSUME Inv, [Next]_vars, NEW v \in Worker
             PROVE  /\ Abandoned(v) \subseteq Abandoned(v)'
                    /\ Abandoned(v) \cap handled' \subseteq handled
  BY DEF StaysAbandoned
<1> USE DEF Abandoned
<1>1. CASE UNCHANGED <<pel, raw, batch, handled>>
  BY <1>1
<1>2. ASSUME NEW w \in Worker, mode[w] = "ready", DeliverTo(w), New # {},
             UNCHANGED <<batch, handled>>,
             raw' \in {raw, [raw EXCEPT ![w] = New]}
      PROVE  /\ Abandoned(v) \subseteq Abandoned(v)'
             /\ Abandoned(v) \cap handled' \subseteq handled
  <2>1. New \cap pel[v] = {}
    BY NewIsAdded DEF Inv, DeliveredIsAccountedFor, Pending
  <2>2. pel[v] \subseteq pel'[v] /\ raw'[v] \subseteq raw[v] \cup New
    BY <1>2 DEF DeliverTo, Inv, TypeOK
  <2> QED
    BY <1>2, <2>1, <2>2
<1>3. ASSUME NEW w \in Worker, NEW e \in raw[w] \cup batch[w], XAck(w, e),
             UNCHANGED handled,
             raw'[v] \cup batch'[v] \subseteq raw[v] \cup batch[v]
      PROVE  /\ Abandoned(v) \subseteq Abandoned(v)'
             /\ Abandoned(v) \cap handled' \subseteq handled
  <2>1. CASE v = w
    BY <1>3, <2>1 DEF XAck, Inv, TypeOK
  <2>2. CASE v # w
    BY <1>3, <2>2 DEF XAck, Inv, TypeOK
  <2> QED
    BY <2>1, <2>2
<1>4. ASSUME NEW w \in Worker, Parse(w)
      PROVE  /\ Abandoned(v) \subseteq Abandoned(v)'
             /\ Abandoned(v) \cap handled' \subseteq handled
  <2>1. PICK e \in raw[w] : ParseOne(w, e)
    BY <1>4 DEF Parse
  <2>2. CASE Drop(w, e)
    BY <1>3, <1>4, <2>2 DEF Parse, Drop, Inv, TypeOK
  <2>3. CASE Accept(w, e)
    <3>1. raw'[v] \cup batch'[v] = raw[v] \cup batch[v]
      BY <2>3 DEF Accept, Inv, TypeOK
    <3> QED
      BY <1>4, <2>3, <3>1 DEF Parse, Accept
  <2> QED
    BY <2>1, <2>2, <2>3 DEF ParseOne
<1>5. ASSUME NEW w \in Worker, Handle(w)
      PROVE  /\ Abandoned(v) \subseteq Abandoned(v)'
             /\ Abandoned(v) \cap handled' \subseteq handled
  <2>1. PICK e \in batch[w] : handled' = handled \cup {e}
    BY <1>5 DEF Handle
  <2>2. e \in Abandoned(v) => v = w
    BY DEF Inv, MemoryIsPending, DeliveredIsAccountedFor
  <2> QED
    BY <1>5, <2>1, <2>2 DEF Handle
<1>6. ASSUME NEW w \in Worker, Ack(w)
      PROVE  /\ Abandoned(v) \subseteq Abandoned(v)'
             /\ Abandoned(v) \cap handled' \subseteq handled
  <2>1. PICK e \in batch[w] : XAck(w, e) /\ batch' = [batch EXCEPT ![w] = @ \ {e}]
    BY <1>6 DEF Ack
  <2>2. raw' = raw /\ handled' = handled /\ batch'[v] \subseteq batch[v]
    BY <1>6, <2>1 DEF Ack, Inv, TypeOK
  <2> QED
    BY <1>3, <2>1, <2>2
<1>7. ASSUME NEW w \in Worker, Fail(w)
      PROVE  /\ Abandoned(v) \subseteq Abandoned(v)'
             /\ Abandoned(v) \cap handled' \subseteq handled
  BY <1>7 DEF Fail, Inv, TypeOK
<1>8. ASSUME NEW s \in Stream, Publish(s) \/ PublishForeign(s)
      PROVE  UNCHANGED <<pel, raw, batch, handled>>
  BY <1>8 DEF Publish, PublishForeign
<1>9. ASSUME NEW w \in Worker, EnsureGroups(w)
      PROVE  UNCHANGED <<pel, raw, batch, handled>>
  BY <1>9 DEF EnsureGroups
<1>10. ASSUME NEW w \in Worker, Read(w) \/ ReadReplyLost(w)
       PROVE  /\ Abandoned(v) \subseteq Abandoned(v)'
              /\ Abandoned(v) \cap handled' \subseteq handled
  BY <1>2, <1>10 DEF Read, ReadReplyLost
<1>11. CASE UNCHANGED vars
  BY <1>1, <1>11 DEF vars
<1> HIDE DEF Abandoned
<1> QED
  BY <1>1, <1>4, <1>5, <1>6, <1>7, <1>8, <1>9, <1>10, <1>11 DEF Next, Work

\* What a worker loses from its memory stays pending for it and is never
\* handled afterwards, however many workers go on.
THEOREM AbandonedIsNeverRetried == Spec => AbandonedForGood
<1> QED
  BY AbandonedStep, InvHolds, PTL DEF Spec, AbandonedForGood

-----------------------------------------------------------------------------
(***************************************************************************)
(* How much is left behind.  A worker's memory never holds more entries of *)
(* one stream than a read brings, and that is all a failure can take.      *)
(***************************************************************************)
MemoryOf(w, s) == {e \in raw[w] \cup batch[w] : e[1] = s}

MemoryFits ==
  \A w \in Worker, s \in Stream : /\ IsFiniteSet(MemoryOf(w, s))
                                  /\ Cardinality(MemoryOf(w, s)) <= BatchSize

LossFits ==
  \A s \in Stream : IsFiniteSet(LostOf(s)) /\ Cardinality(LostOf(s)) <= faults * BatchSize

\* A read brings at most BatchSize entries of a stream.
LEMMA NewFits ==
  ASSUME TypeOK, NEW s \in Stream
  PROVE  LET S == {e \in New : e[1] = s}
         IN  IsFiniteSet(S) /\ Cardinality(S) <= BatchSize
<1> DEFINE S == {e \in New : e[1] = s}
           a == cursor[s] + 1
           b == NextCursor(s)
           T == {s} \X (a .. b)
<1>1. a \in Nat /\ b \in Nat /\ b <= cursor[s] + BatchSize /\ cursor[s] \in Nat
  BY BoundAssumption DEF TypeOK, NextCursor
<1>2. S \subseteq T
  <2>1. ASSUME NEW e \in S PROVE e \in T
    <3>1. e \in Stream \X Nat /\ e[1] = s /\ cursor[s] < e[2] /\ e[2] <= b
      BY EntryPair DEF New
    <3>2. e = <<s, e[2]>> /\ e[2] \in a .. b
      BY <1>1, <3>1
    <3> QED
      BY <3>2
  <2> QED
    BY <2>1
<1>3. IsFiniteSet(a .. b) /\ Cardinality(a .. b) <= BatchSize
  <2>1. IsFiniteSet(a .. b) /\ Cardinality(a .. b) = IF a > b THEN 0 ELSE b - a + 1
    <3>1. a \in Int /\ b \in Int
      BY <1>1
    <3> HIDE DEF a, b
    <3> QED
      BY <3>1, FS_Interval
  <2> QED
    BY <1>1, <2>1, BoundAssumption
<1>4. IsFiniteSet(T) /\ Cardinality(T) = Cardinality(a .. b)
  <2>1. IsFiniteSet({s}) /\ Cardinality({s}) = 1
    BY FS_Singleton
  <2>2. IsFiniteSet(T) /\ Cardinality(T) = 1 * Cardinality(a .. b)
    BY <1>3, <2>1, FS_Product
  <2>3. Cardinality(a .. b) \in Nat
    BY <1>3, FS_CardinalityType
  <2> QED
    BY <2>2, <2>3
<1>5. /\ IsFiniteSet(S) /\ Cardinality(S) <= Cardinality(T)
      /\ Cardinality(S) \in Nat /\ Cardinality(T) \in Nat
  BY <1>2, <1>4, FS_Subset, FS_CardinalityType
<1> QED
  BY <1>3, <1>4, <1>5, BoundAssumption

\* A part of a set that fits is a set that fits.
LEMMA PartFits ==
  ASSUME NEW S, IsFiniteSet(S), NEW n \in Nat, Cardinality(S) <= n, NEW T \in SUBSET S
  PROVE  IsFiniteSet(T) /\ Cardinality(T) <= n
<1>1. IsFiniteSet(T) /\ Cardinality(T) <= Cardinality(S)
  BY FS_Subset
<1>2. Cardinality(S) \in Nat /\ Cardinality(T) \in Nat
  BY <1>1, FS_CardinalityType
<1> QED
  BY <1>1, <1>2

\* One batch more, one failure more.
LEMMA OneBatchMore ==
  ASSUME NEW S, IsFiniteSet(S), NEW n \in Nat, Cardinality(S) <= n * BatchSize,
         NEW M, IsFiniteSet(M), Cardinality(M) <= BatchSize,
         NEW T \in SUBSET (S \cup M)
  PROVE  IsFiniteSet(T) /\ Cardinality(T) <= (n + 1) * BatchSize
<1>1. /\ IsFiniteSet(S \cup M)
      /\ Cardinality(S \cup M) = Cardinality(S) + Cardinality(M) - Cardinality(S \cap M)
  BY FS_Union
<1>2. IsFiniteSet(S \cap M)
  BY FS_Subset
<1>3. /\ Cardinality(S) \in Nat /\ Cardinality(M) \in Nat /\ Cardinality(S \cap M) \in Nat
      /\ BatchSize \in Nat
  BY <1>2, FS_CardinalityType, BoundAssumption
<1>4. n * BatchSize \in Nat /\ (n + 1) * BatchSize = n * BatchSize + BatchSize
  BY <1>3
<1>5. Cardinality(S \cup M) <= (n + 1) * BatchSize
  BY <1>1, <1>3, <1>4
<1>6. (n + 1) * BatchSize \in Nat
  BY <1>3, <1>4
<1> QED
  BY <1>1, <1>5, <1>6, PartFits

\* A step that brings nothing into memory and lets go of nothing.
LEMMA NothingLost ==
  ASSUME MemoryFits, LossFits, faults \in Nat, faults' = faults,
         \A w \in Worker : raw'[w] \cup batch'[w] \subseteq raw[w] \cup batch[w],
         \A w \in Worker : Abandoned(w)' \subseteq Abandoned(w)
  PROVE  MemoryFits' /\ LossFits'
<1>1. MemoryFits'
  <2>1. ASSUME NEW w \in Worker, NEW s \in Stream
        PROVE  IsFiniteSet(MemoryOf(w, s)') /\ Cardinality(MemoryOf(w, s)') <= BatchSize
    <3>1. MemoryOf(w, s)' \subseteq MemoryOf(w, s)
      BY DEF MemoryOf
    <3> QED
      BY <3>1, PartFits, BoundAssumption DEF MemoryFits
  <2> QED
    BY <2>1 DEF MemoryFits
<1>2. LossFits'
  <2>1. ASSUME NEW s \in Stream
        PROVE  /\ IsFiniteSet(LostOf(s)')
               /\ Cardinality(LostOf(s)') <= faults' * BatchSize
    <3>1. LostOf(s)' \subseteq LostOf(s)
      BY DEF LostOf
    <3>2. faults * BatchSize \in Nat
      BY BoundAssumption
    <3> QED
      BY <3>1, <3>2, PartFits DEF LossFits
  <2> QED
    BY <2>1 DEF LossFits
<1> QED
  BY <1>1, <1>2

LEMMA ReadLoses ==
  ASSUME Inv, MemoryFits, LossFits, NEW w \in Worker, Read(w)
  PROVE  MemoryFits' /\ LossFits'
<1>1. /\ raw'[w] = New /\ batch[w] = {} /\ pel'[w] = pel[w] \cup New /\ raw[w] = {}
      /\ \A v \in Worker : v # w => raw'[v] = raw[v] /\ pel'[v] = pel[v]
      /\ UNCHANGED <<batch, faults>>
  BY DEF Read, DeliverTo, Inv, TypeOK, RawOnlyInParse, BatchOnlyInLoop
<1>2. \A v \in Worker : Abandoned(v)' \subseteq Abandoned(v)
  BY <1>1 DEF Abandoned
<1>3. MemoryFits'
  <2>1. ASSUME NEW v \in Worker, NEW s \in Stream
        PROVE  IsFiniteSet(MemoryOf(v, s)') /\ Cardinality(MemoryOf(v, s)') <= BatchSize
    <3>1. CASE v = w
      <4>1. MemoryOf(v, s)' = {e \in New : e[1] = s}
        BY <1>1, <3>1 DEF MemoryOf
      <4> QED
        BY <4>1, NewFits DEF Inv
    <3>2. CASE v # w
      <4>1. MemoryOf(v, s)' = MemoryOf(v, s)
        BY <1>1, <3>2 DEF MemoryOf
      <4> QED
        BY <4>1 DEF MemoryFits
    <3> QED
      BY <3>1, <3>2
  <2> QED
    BY <2>1 DEF MemoryFits
<1>4. LossFits'
  <2>1. faults \in Nat
    BY DEF Inv, TypeOK
  <2>2. ASSUME NEW s \in Stream
        PROVE  /\ IsFiniteSet(LostOf(s)')
               /\ Cardinality(LostOf(s)') <= faults' * BatchSize
    <3>1. LostOf(s)' \subseteq LostOf(s)
      BY <1>2 DEF LostOf
    <3>2. faults * BatchSize \in Nat
      BY <2>1, BoundAssumption
    <3> QED
      BY <1>1, <3>1, <3>2, PartFits DEF LossFits
  <2> QED
    BY <2>2 DEF LossFits
<1> QED
  BY <1>3, <1>4

\* A lost reply leaves what it carried behind, and a failure what the worker
\* had in memory.
LEMMA FaultLoses ==
  ASSUME Inv, MemoryFits, LossFits, NEW w \in Worker, ReadReplyLost(w) \/ Fail(w)
  PROVE  MemoryFits' /\ LossFits'
<1> DEFINE Gone(s) == IF ReadReplyLost(w) THEN {e \in New : e[1] = s} ELSE MemoryOf(w, s)
<1>1. /\ faults' = faults + 1 /\ faults \in Nat
      /\ \A v \in Worker : raw'[v] \cup batch'[v] \subseteq raw[v] \cup batch[v]
  BY DEF ReadReplyLost, Fail, Inv, TypeOK
<1>2. ASSUME NEW s \in Stream
      PROVE  LostOf(s)' \subseteq LostOf(s) \cup Gone(s)
  <2>1. CASE ReadReplyLost(w)
    <3>1. /\ UNCHANGED <<raw, batch>>
          /\ \A v \in Worker : pel'[v] \subseteq pel[v] \cup New
      BY <2>1 DEF ReadReplyLost, DeliverTo, Inv, TypeOK
    <3> QED
      BY <2>1, <3>1 DEF LostOf, Abandoned
  <2>2. CASE Fail(w) /\ ~ ReadReplyLost(w)
    <3>1. /\ UNCHANGED pel
          /\ \A v \in Worker : v # w => raw'[v] = raw[v] /\ batch'[v] = batch[v]
      BY <2>2 DEF Fail, Inv, TypeOK
    <3> QED
      BY <2>2, <3>1 DEF LostOf, Abandoned, MemoryOf
  <2> QED
    BY <2>1, <2>2
<1>3. ASSUME NEW s \in Stream
      PROVE  IsFiniteSet(Gone(s)) /\ Cardinality(Gone(s)) <= BatchSize
  BY NewFits DEF MemoryFits, Inv
<1> HIDE DEF Gone
<1>4. LossFits'
  <2>1. ASSUME NEW s \in Stream
        PROVE  /\ IsFiniteSet(LostOf(s)')
               /\ Cardinality(LostOf(s)') <= faults' * BatchSize
    BY <1>1, <1>2, <1>3, OneBatchMore DEF LossFits
  <2> QED
    BY <2>1 DEF LossFits
<1>5. MemoryFits'
  <2>1. ASSUME NEW v \in Worker, NEW s \in Stream
        PROVE  IsFiniteSet(MemoryOf(v, s)') /\ Cardinality(MemoryOf(v, s)') <= BatchSize
    <3>1. MemoryOf(v, s)' \subseteq MemoryOf(v, s)
      BY <1>1 DEF MemoryOf
    <3> QED
      BY <3>1, PartFits, BoundAssumption DEF MemoryFits
  <2> QED
    BY <2>1 DEF MemoryFits
<1> QED
  BY <1>4, <1>5

LEMMA LossStep ==
  ASSUME Inv, MemoryFits, LossFits, [Next]_vars
  PROVE  MemoryFits' /\ LossFits'
<1>0. faults \in Nat
  BY DEF Inv, TypeOK
<1>1. ASSUME UNCHANGED <<pel, raw, batch, faults>>
      PROVE  MemoryFits' /\ LossFits'
  BY <1>0, <1>1, NothingLost DEF Abandoned
<1>2. ASSUME NEW w \in Worker, Parse(w)
      PROVE  MemoryFits' /\ LossFits'
  <2>1. PICK e \in raw[w] : ParseOne(w, e)
    BY <1>2 DEF Parse
  <2>2. /\ faults' = faults
        /\ \A v \in Worker : /\ raw'[v] \cup batch'[v] \subseteq raw[v] \cup batch[v]
                             /\ pel'[v] \subseteq pel[v]
                             /\ \A f \in raw[v] \cup batch[v] :
                                  f \in pel'[v] => f \in raw'[v] \cup batch'[v]
    BY <1>2, <2>1 DEF Parse, ParseOne, Drop, Accept, XAck, Inv, TypeOK
  <2> QED
    BY <1>0, <2>2, NothingLost DEF Abandoned
<1>3. ASSUME NEW w \in Worker, Ack(w)
      PROVE  MemoryFits' /\ LossFits'
  <2>1. PICK e \in batch[w] : XAck(w, e) /\ batch' = [batch EXCEPT ![w] = @ \ {e}]
    BY <1>3 DEF Ack
  <2>2. raw' = raw /\ faults' = faults
    BY <1>3 DEF Ack
  <2>3. \A v \in Worker : /\ batch'[v] \subseteq batch[v]
                          /\ pel'[v] \subseteq pel[v]
                          /\ \A f \in batch[v] : f \in pel'[v] => f \in batch'[v]
    BY <2>1 DEF XAck, Inv, TypeOK
  <2> QED
    BY <1>0, <2>2, <2>3, NothingLost DEF Abandoned
<1>4. ASSUME NEW s \in Stream, Publish(s) \/ PublishForeign(s)
      PROVE  MemoryFits' /\ LossFits'
  BY <1>1, <1>4 DEF Publish, PublishForeign
<1>5. ASSUME NEW w \in Worker, EnsureGroups(w) \/ Handle(w)
      PROVE  MemoryFits' /\ LossFits'
  BY <1>1, <1>5 DEF EnsureGroups, Handle
<1>6. CASE UNCHANGED vars
  BY <1>1, <1>6 DEF vars
<1> QED
  BY <1>2, <1>3, <1>4, <1>5, <1>6, ReadLoses, FaultLoses DEF Next, Work

LEMMA LossInvHolds == Spec => [](Inv /\ MemoryFits /\ LossFits)
<1>1. Init => MemoryFits /\ LossFits
  <2> HAVE Init
  <2>1. IsFiniteSet({}) /\ Cardinality({}) = 0
    BY FS_EmptySet
  <2>2. \A w \in Worker, s \in Stream : MemoryOf(w, s) = {} /\ LostOf(s) = {}
    BY DEF Init, MemoryOf, LostOf, Abandoned
  <2>3. \A s \in Stream : LostOf(s) = {}
    BY DEF Init, LostOf, Abandoned
  <2>4. 0 <= BatchSize /\ faults * BatchSize = 0
    BY BoundAssumption DEF Init
  <2> QED
    BY <2>1, <2>2, <2>3, <2>4 DEF MemoryFits, LossFits
<1>2. Inv /\ MemoryFits /\ LossFits /\ [Next]_vars => MemoryFits' /\ LossFits'
  BY LossStep
<1> QED
  BY <1>1, <1>2, InvHolds, PTL DEF Spec

\* Each failure and each lost reply costs at most one batch, whatever the
\* number of streams, workers and entries (EventConsumer.read, consume).
THEOREM LossIsOneBatchEach == Spec => []LossIsBounded
<1>1. LossFits => LossIsBounded
  BY DEF LossFits, LossIsBounded
<1> QED
  BY <1>1, LossInvHolds, PTL

NothingIsLeftBehind ==
  faults = 0 => \A w \in Worker : pel[w] = raw[w] \cup batch[w]

\* Without a failure nothing is lost: what is pending is what the workers are
\* at, so that a pending list that outlives its worker's batch tells of a
\* failure and of nothing else.
THEOREM NothingLostWithoutFailure == Spec => []NothingIsLeftBehind
<1>1. ASSUME Inv, LossFits, faults = 0
      PROVE  \A w \in Worker : pel[w] = raw[w] \cup batch[w]
  <2>1. ASSUME NEW s \in Stream PROVE LostOf(s) = {}
    <3>1. IsFiniteSet(LostOf(s)) /\ Cardinality(LostOf(s)) <= 0
      BY <1>1, BoundAssumption DEF LossFits
    <3>2. Cardinality(LostOf(s)) \in Nat
      BY <3>1, FS_CardinalityType
    <3>3. Cardinality(LostOf(s)) = 0
      BY <3>1, <3>2
    <3> QED
      BY <3>1, <3>3, FS_EmptySet
  <2>2. ASSUME NEW w \in Worker, NEW e \in pel[w]
        PROVE  e \in raw[w] \cup batch[w]
    <3>1. e \in Entry /\ e[1] \in Stream
      BY <1>1, <2>2, EntryPair DEF Inv, TypeOK
    <3>2. e \notin LostOf(e[1])
      BY <2>1, <3>1
    <3> QED
      BY <3>1, <3>2 DEF LostOf, Abandoned
  <2> QED
    BY <1>1, <2>2 DEF Inv, MemoryIsPending
<1>2. Inv /\ LossFits => NothingIsLeftBehind
  BY <1>1 DEF NothingIsLeftBehind
<1> QED
  BY <1>2, LossInvHolds, PTL

\* What is left behind was mostly never touched: each failure leaves at most
\* one entry whose handler had already returned (consume, between handler and
\* ack).  A reclaim, if there were one, would repeat no more than that.
LostWork == {e \in handled : \E w \in Worker : e \in Abandoned(w)}

WorkFits == IsFiniteSet(LostWork) /\ Cardinality(LostWork) <= faults

\* Only the step of a failure leaves something behind.
LEMMA LossNeedsFailure ==
  ASSUME Inv, [Next]_vars, faults' = faults, NEW v \in Worker
  PROVE  Abandoned(v)' \subseteq Abandoned(v)
<1>1. CASE UNCHANGED <<pel, raw, batch>>
  BY <1>1 DEF Abandoned
<1>2. ASSUME NEW w \in Worker, Read(w)
      PROVE  Abandoned(v)' \subseteq Abandoned(v)
  <2>1. /\ raw'[w] = New /\ raw[w] = {} /\ batch' = batch /\ pel'[w] = pel[w] \cup New
        /\ \A u \in Worker : u # w => raw'[u] = raw[u] /\ pel'[u] = pel[u]
    BY <1>2 DEF Read, DeliverTo, Inv, TypeOK, RawOnlyInParse
  <2> QED
    BY <2>1 DEF Abandoned
<1>3. ASSUME NEW w \in Worker, Parse(w)
      PROVE  Abandoned(v)' \subseteq Abandoned(v)
  <2>1. PICK e \in raw[w] : ParseOne(w, e)
    BY <1>3 DEF Parse
  <2>2. /\ pel'[v] \subseteq pel[v]
        /\ \A f \in raw[v] \cup batch[v] : f \in pel'[v] => f \in raw'[v] \cup batch'[v]
    BY <2>1 DEF ParseOne, Drop, Accept, XAck, Inv, TypeOK
  <2> QED
    BY <2>2 DEF Abandoned
<1>4. ASSUME NEW w \in Worker, Ack(w)
      PROVE  Abandoned(v)' \subseteq Abandoned(v)
  <2>1. PICK e \in batch[w] : XAck(w, e) /\ batch' = [batch EXCEPT ![w] = @ \ {e}]
    BY <1>4 DEF Ack
  <2>2. /\ raw' = raw /\ pel'[v] \subseteq pel[v]
        /\ \A f \in batch[v] : f \in pel'[v] => f \in batch'[v]
    BY <1>4, <2>1 DEF Ack, XAck, Inv, TypeOK
  <2> QED
    BY <2>2 DEF Abandoned
<1>5. ASSUME NEW w \in Worker, ReadReplyLost(w) \/ Fail(w)
      PROVE  FALSE
  BY <1>5 DEF ReadReplyLost, Fail, Inv, TypeOK
<1>6. ASSUME NEW s \in Stream, Publish(s) \/ PublishForeign(s)
      PROVE  UNCHANGED <<pel, raw, batch>>
  BY <1>6 DEF Publish, PublishForeign
<1>7. ASSUME NEW w \in Worker, EnsureGroups(w) \/ Handle(w)
      PROVE  UNCHANGED <<pel, raw, batch>>
  BY <1>7 DEF EnsureGroups, Handle
<1>8. CASE UNCHANGED vars
  BY <1>1, <1>8 DEF vars
<1> QED
  BY <1>1, <1>2, <1>3, <1>4, <1>5, <1>6, <1>7, <1>8 DEF Next, Work

\* A failure finds at most one handled entry in its worker's memory, and a
\* lost reply carries none.
LEMMA OneWorkMore ==
  ASSUME Inv, NEW w \in Worker, ReadReplyLost(w) \/ Fail(w)
  PROVE  \E e : LostWork' \subseteq LostWork \cup {e}
<1> DEFINE done == handled \cap (raw[w] \cup batch[w])
<1>1. \E e : done \subseteq {e}
  <2>1. ASSUME NEW e \in done, NEW f \in done
        PROVE  e = f
    <3>1. /\ raw[w] = {} /\ batch[w] \in SUBSET Entry
          /\ IsFirst(e, batch[w]) /\ IsFirst(f, batch[w])
      BY DEF Inv, HandledInMemory, RawOnlyInParse, TypeOK
    <3>2. e \in Entry /\ f \in Entry
      BY <3>1 DEF IsFirst
    <3> QED
      BY <3>1, <3>2, FirstIsUnique
  <2>2. CASE done = {}
    BY <2>2
  <2>3. CASE \E e : e \in done
    BY <2>1, <2>3
  <2> QED
    BY <2>2, <2>3
<1>2. LostWork' \subseteq LostWork \cup done
  <2>1. CASE ReadReplyLost(w)
    <3>1. /\ UNCHANGED <<raw, batch, handled>>
          /\ \A v \in Worker : pel'[v] \subseteq pel[v] \cup New
      BY <2>1 DEF ReadReplyLost, DeliverTo, Inv, TypeOK
    <3>2. handled \cap New = {}
      BY NewIsAdded DEF Inv, HandledIsDelivered
    <3> QED
      BY <3>1, <3>2 DEF LostWork, Abandoned
  <2>2. CASE Fail(w)
    <3>1. /\ UNCHANGED <<pel, handled>>
          /\ \A v \in Worker : v # w => raw'[v] = raw[v] /\ batch'[v] = batch[v]
      BY <2>2 DEF Fail, Inv, TypeOK
    <3> QED
      BY <3>1 DEF LostWork, Abandoned
  <2> QED
    BY <2>1, <2>2
<1> QED
  BY <1>1, <1>2

LEMMA WorkStep ==
  ASSUME Inv, WorkFits, [Next]_vars
  PROVE  WorkFits'
<1>0. faults \in Nat /\ IsFiniteSet(LostWork) /\ Cardinality(LostWork) \in Nat
  BY FS_CardinalityType DEF Inv, TypeOK, WorkFits
<1>1. CASE faults' = faults
  <2>1. LostWork' \subseteq LostWork
    <3>1. \A w \in Worker : Abandoned(w)' \subseteq Abandoned(w)
      BY <1>1, LossNeedsFailure
    <3>2. \A w \in Worker : Abandoned(w) \cap handled' \subseteq handled
      BY AbandonedStep DEF StaysAbandoned
    <3> QED
      BY <3>1, <3>2 DEF LostWork
  <2> QED
    BY <1>0, <1>1, <2>1, PartFits DEF WorkFits
<1>2. ASSUME NEW w \in Worker, ReadReplyLost(w) \/ Fail(w)
      PROVE  WorkFits'
  <2>1. faults' = faults + 1
    BY <1>2 DEF ReadReplyLost, Fail
  <2>2. PICK e : LostWork' \subseteq LostWork \cup {e}
    BY <1>2, OneWorkMore
  <2>3. /\ IsFiniteSet(LostWork \cup {e})
        /\ Cardinality(LostWork \cup {e}) <= Cardinality(LostWork) + 1
        /\ Cardinality(LostWork \cup {e}) \in Nat
    <3>1. /\ IsFiniteSet(LostWork \cup {e})
          /\ Cardinality(LostWork \cup {e}) =
               IF e \in LostWork THEN Cardinality(LostWork) ELSE Cardinality(LostWork) + 1
      BY <1>0, FS_AddElement
    <3> QED
      BY <1>0, <3>1
  <2>4. Cardinality(LostWork \cup {e}) <= faults + 1
    BY <1>0, <2>3 DEF WorkFits
  <2>5. /\ IsFiniteSet(LostWork')
        /\ Cardinality(LostWork') <= faults + 1
    BY <1>0, <2>2, <2>3, <2>4, PartFits
  <2> QED
    BY <2>1, <2>5 DEF WorkFits
<1>3. CASE \E w \in Worker : ReadReplyLost(w) \/ Fail(w)
  BY <1>2, <1>3
<1>4. CASE ~ \E w \in Worker : ReadReplyLost(w) \/ Fail(w)
  <2>1. faults' = faults
    BY <1>4 DEF Next, Work, Publish, PublishForeign, EnsureGroups, Read, Parse, Handle,
       Ack, vars
  <2> QED
    BY <1>1, <2>1
<1> QED
  BY <1>3, <1>4

DoneTwiceIsBounded == Cardinality(LostWork) <= faults

\* A failure leaves at most one handled entry unacknowledged.
THEOREM OneHandledEntryEach == Spec => []DoneTwiceIsBounded
<1>1. Init => WorkFits
  <2>1. Init => LostWork = {} /\ faults = 0
    BY DEF Init, LostWork
  <2> QED
    BY <2>1, FS_EmptySet DEF WorkFits
<1>2. Inv /\ WorkFits /\ [Next]_vars => WorkFits'
  BY WorkStep
<1>3. WorkFits => DoneTwiceIsBounded
  BY DEF WorkFits, DoneTwiceIsBounded
<1> QED
  BY <1>1, <1>2, <1>3, InvHolds, PTL DEF Spec

-----------------------------------------------------------------------------
(***************************************************************************)
(* The loop implements EventDelivery: adding is Add, a read (its reply     *)
(* lost or not) is Deliver, an XACK is Settle, the rest is invisible.      *)
(***************************************************************************)
LEMMA AddStep ==
  ASSUME Inv, NEW s \in Stream, length[s] < MaxLen[s],
         length' = [length EXCEPT ![s] = @ + 1],
         UNCHANGED <<grouped, cursor, pel, acked>>
  PROVE  Delivery!Next
<1> DEFINE n == <<s, length[s] + 1>>
<1>1. /\ n \in Entry /\ n \notin Added /\ n \in Added' /\ Added \subseteq Added'
      /\ length' \in [Stream -> Nat]
  BY StreamGrows DEF Inv
<1>2. Added' = Added \cup {n}
  <2> SUFFICES ASSUME NEW e \in Added', e \notin Added PROVE e = n
    BY <1>1
  <2>1. e \in Stream \X Nat /\ e[2] <= length'[e[1]] /\ ~ (e[2] <= length[e[1]])
    BY EntryPair DEF Added
  <2>2. length \in [Stream -> Nat]
    BY DEF Inv, TypeOK
  <2>3. e[1] = s /\ e[2] = length[s] + 1
    BY <2>1, <2>2
  <2> QED
    BY <2>1, <2>3
<1>3. Delivered' = Delivered /\ Delivered \subseteq Added
  BY EntryPair DEF Delivered, Added, Inv, TypeOK
<1>4. n \notin acked \cup Pending
  BY <1>1, <1>3 DEF Inv, DeliveredIsAccountedFor
<1>5. Delivery!Add(n)
  BY <1>1, <1>2, <1>3, <1>4 DEF Delivery!Add, Delivery!IsNew, Pending
<1> QED
  BY <1>1, <1>5 DEF Delivery!Next

LEMMA DeliverStep ==
  ASSUME Inv, NEW w \in Worker, mode[w] = "ready", New # {}, DeliverTo(w),
         UNCHANGED <<length, grouped, acked>>
  PROVE  Delivery!Next
<1>1. Delivered' = Delivered \cup New /\ Added' = Added
  BY DeliverToInv
<1>2. New \subseteq Added \ Delivered
  BY NewIsAdded DEF Inv
<1>3. ASSUME NEW e \in New, NEW f \in Added \ Delivered,
             f[1] = e[1], f[2] < e[2]
      PROVE  f \in New
  <2>1. /\ f \in Entry /\ f[1] \in Stream /\ f[2] \in Nat /\ e[2] \in Nat
        /\ e[2] <= NextCursor(e[1])
    BY <1>3, EntryPair DEF Added, New
  <2>2. grouped = Stream
    BY DEF Inv, GroupedOnceRunning
  <2>3. cursor[f[1]] \in Nat /\ NextCursor(e[1]) \in Nat
    BY <1>3, <2>1, NewIsAdded DEF Inv, TypeOK
  <2>4. cursor[f[1]] < f[2]
    BY <1>3, <2>1, <2>2, <2>3 DEF Delivered
  <2> QED
    BY <1>3, <2>1, <2>3, <2>4 DEF New
<1>4. Delivery!OldestFirst(New)
  BY <1>3 DEF Delivery!OldestFirst
<1>5. (Added \ Delivered)' = (Added \ Delivered) \ New
  BY <1>1
<1>6. Delivery!Deliver(w, New)
  BY <1>4, <1>5 DEF Delivery!Deliver, DeliverTo
<1> QED
  BY <1>2, <1>6 DEF Delivery!Next

LEMMA SettleStep ==
  ASSUME Inv, NEW w \in Worker, NEW e \in raw[w] \cup batch[w], XAck(w, e),
         UNCHANGED <<length, grouped, cursor>>
  PROVE  Delivery!Next
<1>1. e \in pel[w]
  BY DEF Inv, MemoryIsPending
<1>2. (Added \ Delivered)' = Added \ Delivered
  BY DEF Added, Delivered
<1>3. Delivery!Settle(w, e)
  BY <1>1, <1>2 DEF Delivery!Settle, XAck
<1> QED
  BY <1>1, <1>3 DEF Delivery!Next

LEMMA DeliveryStep == Inv /\ [Next]_vars => [Delivery!Next]_(Delivery!vars)
<1> SUFFICES ASSUME Inv, [Next]_vars
             PROVE  Delivery!Next \/ UNCHANGED Delivery!vars
  OBVIOUS
<1> DEFINE Hidden == /\ UNCHANGED <<length, pel, acked>>
                     /\ Delivered' = Delivered
<1>1. Hidden => UNCHANGED Delivery!vars
  BY DEF Delivery!vars, Added
<1>2. ASSUME NEW s \in Stream, Publish(s) PROVE Delivery!Next
  BY <1>2, AddStep DEF Publish
<1>3. ASSUME NEW s \in Stream, PublishForeign(s) PROVE Delivery!Next
  BY <1>3, AddStep DEF PublishForeign
<1>4. ASSUME NEW w \in Worker, EnsureGroups(w) PROVE Hidden
  BY <1>4, EntryPair DEF EnsureGroups, Delivered, GroupStart, Inv, TypeOK
<1>5. ASSUME NEW w \in Worker, Read(w) PROVE Delivery!Next
  BY <1>5, DeliverStep DEF Read
<1>6. ASSUME NEW w \in Worker, ReadReplyLost(w) PROVE Delivery!Next
  BY <1>6, DeliverStep DEF ReadReplyLost
<1>7. ASSUME NEW w \in Worker, Parse(w) PROVE Delivery!Next \/ Hidden
  <2>1. PICK e \in raw[w] : ParseOne(w, e)
    BY <1>7 DEF Parse
  <2>2. CASE Drop(w, e)
    BY <1>7, <2>2, SettleStep DEF Parse, Drop
  <2>3. CASE Accept(w, e)
    BY <1>7, <2>3 DEF Parse, Accept, Delivered
  <2> QED
    BY <2>1, <2>2, <2>3 DEF ParseOne
<1>8. ASSUME NEW w \in Worker, Handle(w) PROVE Hidden
  BY <1>8 DEF Handle, Delivered
<1>9. ASSUME NEW w \in Worker, Ack(w) PROVE Delivery!Next
  BY <1>9, SettleStep DEF Ack
<1>10. ASSUME NEW w \in Worker, Fail(w) PROVE Hidden
  BY <1>10 DEF Fail, Delivered
<1>11. ASSUME UNCHANGED vars PROVE Hidden
  BY <1>11 DEF vars, Delivered
<1> HIDE DEF Hidden
<1> QED
  BY <1>1, <1>2, <1>3, <1>4, <1>5, <1>6, <1>7, <1>8, <1>9, <1>10, <1>11
  DEF Next, Work

\* The streams, the pending lists and the read-parse-handle-ack loop keep the
\* promise of EventDelivery: oldest first, to one worker, settled only there.
THEOREM LoopImplementsDelivery == Spec => ImplementsDelivery
<1>1. Init => Delivery!Init
  <2> SUFFICES ASSUME Init PROVE Delivery!Init
    OBVIOUS
  <2>1. Added = {}
    BY EntryPair DEF Init, Added
  <2> QED
    BY <2>1 DEF Init, Delivery!Init
<1> QED
  BY <1>1, DeliveryStep, InvHolds, PTL DEF Spec, ImplementsDelivery, Delivery!Spec

============================================================================
