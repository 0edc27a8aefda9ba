-------------------------- MODULE EventStoreProofs --------------------------
(***************************************************************************)
(* The safety properties of EventStore for every set of entries and        *)
(* replicas and every number of failures.                                  *)
(***************************************************************************)
EXTENDS EventStore, TLAPS

(***************************************************************************)
(* What they rest on.  An entry that is out was delivered; what waits is   *)
(* newer than what is out of the same stream.                              *)
(***************************************************************************)
Out(e) == e \in settled \/ \E w \in Worker : e \in held[w]

WaitingIsNewer ==
  \A e \in waiting :
    /\ ~ Out(e)
    /\ \A f \in Entry : Out(f) /\ f[1] = e[1] => f[2] < e[2]

StreamHasNoGap ==
  \A e, f \in Entry :
    f[1] = e[1] /\ f[2] < e[2] /\ ~ Bus!IsNew(e) => ~ Bus!IsNew(f)

JobIsHeld ==
  \A w \in Worker : IF pc[w] \in {"down", "idle"} THEN job[w] = NoEntry
                    ELSE job[w] \in held[w]

RowsAreOut == \A r \in rows : Out(r.entry)

\* A seq that was drawn and may still be written is nobody else's.
Drew(w) == pc[w] \in {"insert", "commit"}

SeqIsOwn ==
  \A w \in Worker : Drew(w) =>
    /\ drawn[w] > 0
    /\ \A r \in rows : r.seq # drawn[w]
    /\ \A v \in Worker : Drew(v) /\ v # w => drawn[v] # drawn[w]

\* The unique key: of the transactions that insert, no two hold one event id,
\* and none holds an id that is stored.
WritersAreApart ==
  \A w \in writing :
    /\ ~ Stored(job[w])
    /\ \A v \in writing : origin[job[v]] = origin[job[w]] => v = w

FinishedIsStored ==
  \A w \in Worker :
    pc[w] = "ack" \/ (pc[w] = "commit" /\ w \notin writing) => Stored(job[w])

JobIsNewest ==
  \A w \in Worker : pc[w] \in {"draw", "insert", "commit"} =>
    \A r \in rows : r.by = w /\ r.entry[1] = job[w][1] => r.entry[2] < job[w][2]

SeqIsLater ==
  \A w \in Worker : Drew(w) => \A r \in rows : r.by = w => r.seq < drawn[w]

BusInv == WaitingIsNewer /\ StreamHasNoGap /\ JobIsHeld /\ RowsAreOut
KeyInv == SeqIsOwn /\ WritersAreApart /\ FinishedIsStored /\ AckedIsStored
OrderInv == JobIsNewest /\ SeqIsLater

Inv ==
  /\ TypeOK
  /\ BusInv
  /\ KeyInv
  /\ OrderInv
  /\ StoredOnce
  /\ ReplicaKeepsOrder

-----------------------------------------------------------------------------
LEMMA InitInv == Init => Inv
<1> SUFFICES ASSUME Init PROVE Inv
  OBVIOUS
<1>1. TypeOK
  BY MaxFaultsAssumption DEF Init, Bus!Init, TypeOK, Steps
<1>2. \A e : ~ Out(e)
  BY DEF Init, Bus!Init, Out
<1>3. \A e \in Entry : Bus!IsNew(e)
  BY DEF Init, Bus!Init, Bus!IsNew
<1>4. BusInv
  BY <1>2, <1>3 DEF BusInv, Init, Bus!Init, WaitingIsNewer, StreamHasNoGap,
     JobIsHeld, RowsAreOut
<1>5. KeyInv
  BY DEF KeyInv, Init, Bus!Init, SeqIsOwn, Drew, WritersAreApart,
     FinishedIsStored, AckedIsStored
<1>6. OrderInv /\ StoredOnce /\ ReplicaKeepsOrder
  BY DEF OrderInv, Init, JobIsNewest, SeqIsLater, Drew, StoredOnce,
     ReplicaKeepsOrder
<1> QED
  BY <1>1, <1>4, <1>5, <1>6 DEF Inv

\* Two entries of one place are one.
LEMMA EntryIsItsPlace ==
  ASSUME NEW e \in Entry, NEW f \in Entry, e[1] = f[1], e[2] = f[2]
  PROVE  e = f
  BY EntryAssumption

\* An entry is new, waiting or out.
LEMMA Places ==
  ASSUME NEW e \in Entry
  PROVE  Bus!IsNew(e) <=> e \notin waiting /\ ~ Out(e)
  BY DEF Bus!IsNew, Out

-----------------------------------------------------------------------------
LEMMA SendKeeps ==
  ASSUME Inv, NEW e \in Entry, NEW o \in Entry, Send(e, o)
  PROVE  Inv'
<1>0. /\ Bus!IsNew(e)
      /\ waiting' = waiting \cup {e}
      /\ origin' = [origin EXCEPT ![e] = o]
      /\ UNCHANGED <<held, settled, lastSeq, rows, pc, job, drawn, writing, faults>>
  BY DEF Send, Bus!Add
<1>1. e \notin waiting /\ ~ Out(e)
  BY <1>0, Places
<1>2. \A f : Out(f)' <=> Out(f)
  BY <1>0 DEF Out
<1>3. \A f \in Entry : Bus!IsNew(f)' <=> Bus!IsNew(f) /\ f # e
  BY <1>0 DEF Bus!IsNew
<1>4. origin' \in [Entry -> Entry] /\ \A f \in Entry : f # e => origin'[f] = origin[f]
  BY <1>0 DEF Inv, TypeOK
<1>5. \A r \in rows : r.entry \in Entry /\ r.entry # e
  BY <1>1 DEF Inv, BusInv, RowsAreOut, TypeOK, Row
<1>6. \A f \in Entry : f # e => (Stored(f)' <=> Stored(f))
  BY <1>0, <1>4 DEF Stored
<1>7. \A w \in Worker : pc[w] \notin {"down", "idle"} => job[w] \in Entry /\ job[w] # e
  BY <1>1 DEF Inv, BusInv, JobIsHeld, Out, TypeOK
<1>8. TypeOK'
  BY <1>0, <1>4, <1>5 DEF Inv, TypeOK
<1>9. BusInv'
  <2>1. WaitingIsNewer'
    <3>1. ASSUME NEW f \in Entry, Out(f), f[1] = e[1] PROVE f[2] < e[2]
      <4>1. ~ Bus!IsNew(f) /\ f # e
        BY <1>1, <3>1, Places
      <4>2. ~ (e[2] < f[2])
        BY <1>0, <3>1, <4>1 DEF Inv, BusInv, StreamHasNoGap
      <4>3. e[2] \in Nat /\ f[2] \in Nat /\ e[2] # f[2]
        BY <3>1, <4>1, EntryAssumption, EntryIsItsPlace
      <4> QED
        BY <4>2, <4>3
    <3> QED
      BY <1>0, <1>1, <1>2, <3>1 DEF Inv, BusInv, WaitingIsNewer
  <2>2. StreamHasNoGap'
    BY <1>3 DEF Send, InOrder, Inv, BusInv, StreamHasNoGap
  <2>3. JobIsHeld' /\ RowsAreOut'
    BY <1>0, <1>2 DEF Inv, BusInv, JobIsHeld, RowsAreOut
  <2> QED
    BY <2>1, <2>2, <2>3 DEF BusInv
<1>10. KeyInv'
  <2>1. SeqIsOwn'
    BY <1>0 DEF Inv, KeyInv, SeqIsOwn, Drew
  <2>2. \A w \in writing : job[w] \in Entry /\ job[w] # e
    BY <1>7 DEF Inv, TypeOK
  <2>3. WritersAreApart'
    BY <1>0, <1>4, <1>6, <2>2 DEF Inv, KeyInv, WritersAreApart
  <2>4. FinishedIsStored'
    BY <1>0, <1>6, <1>7 DEF Inv, KeyInv, FinishedIsStored
  <2>5. \A f \in settled : f \in Entry /\ f # e
    BY <1>1 DEF Out, Inv, TypeOK
  <2>6. AckedIsStored'
    BY <1>0, <1>6, <2>5 DEF Inv, KeyInv, AckedIsStored
  <2> QED
    BY <2>1, <2>3, <2>4, <2>6 DEF KeyInv
<1>11. OrderInv'
  BY <1>0 DEF Inv, OrderInv, JobIsNewest, SeqIsLater, Drew
<1>12. StoredOnce' /\ ReplicaKeepsOrder'
  BY <1>0 DEF Inv, StoredOnce, ReplicaKeepsOrder
<1> QED
  BY <1>8, <1>9, <1>10, <1>11, <1>12 DEF Inv

LEMMA StartKeeps ==
  ASSUME Inv, NEW w \in Worker, Start(w)
  PROVE  Inv'
<1>0. /\ pc[w] = "down"
      /\ pc' = [pc EXCEPT ![w] = "idle"]
      /\ UNCHANGED <<waiting, held, settled, origin, lastSeq, rows, job, drawn,
                     writing, faults>>
  BY DEF Start, busVars
<1>1. /\ pc' \in [Worker -> Steps]
      /\ pc'[w] = "idle"
      /\ \A v \in Worker : v # w => pc'[v] = pc[v]
  BY <1>0 DEF Inv, TypeOK, Steps
<1>2. TypeOK'
  BY <1>0, <1>1 DEF Inv, TypeOK
<1>3. BusInv'
  BY <1>0, <1>1 DEF Inv, BusInv, WaitingIsNewer, StreamHasNoGap, JobIsHeld,
     RowsAreOut, Out, Bus!IsNew
<1>4. KeyInv'
  BY <1>0, <1>1 DEF Inv, KeyInv, SeqIsOwn, Drew, WritersAreApart,
     FinishedIsStored, AckedIsStored, Stored
<1>5. OrderInv' /\ StoredOnce' /\ ReplicaKeepsOrder'
  BY <1>0, <1>1 DEF Inv, OrderInv, JobIsNewest, SeqIsLater, Drew, StoredOnce,
     ReplicaKeepsOrder
<1> QED
  BY <1>2, <1>3, <1>4, <1>5 DEF Inv

LEMMA TakeKeeps ==
  ASSUME Inv, NEW w \in Worker, NEW e \in waiting, Take(w, e)
  PROVE  Inv'
<1>0. /\ pc[w] = "idle"
      /\ \A f \in waiting : f[1] = e[1] /\ f[2] < e[2] => f = e
      /\ waiting' = waiting \ {e}
      /\ held' = [held EXCEPT ![w] = @ \cup {e}]
      /\ pc' = [pc EXCEPT ![w] = "draw"]
      /\ job' = [job EXCEPT ![w] = e]
      /\ UNCHANGED <<settled, origin, lastSeq, rows, drawn, writing, faults>>
  BY DEF Take, Bus!Deliver, Bus!OldestFirst
<1>1. /\ e \in Entry
      /\ pc' \in [Worker -> Steps] /\ pc'[w] = "draw"
      /\ \A v \in Worker : v # w => pc'[v] = pc[v]
      /\ job' \in [Worker -> Entry \cup {NoEntry}] /\ job'[w] = e
      /\ \A v \in Worker : v # w => job'[v] = job[v]
      /\ held' \in [Worker -> SUBSET Entry] /\ held'[w] = held[w] \cup {e}
      /\ \A v \in Worker : v # w => held'[v] = held[v]
  BY <1>0 DEF Inv, TypeOK, Steps
<1>2. \A f : Out(f)' <=> Out(f) \/ f = e
  BY <1>0, <1>1 DEF Out
<1>3. w \notin writing
  BY <1>0 DEF Inv, TypeOK
<1>4. TypeOK'
  BY <1>0, <1>1, <1>3 DEF Inv, TypeOK
<1>5. BusInv'
  <2>1. WaitingIsNewer'
    <3>1. ASSUME NEW g \in waiting, g # e, g[1] = e[1] PROVE e[2] < g[2]
      <4>1. g \in Entry /\ e[2] \in Nat /\ g[2] \in Nat
        BY <1>1, EntryAssumption DEF Inv, TypeOK
      <4>2. e[2] # g[2]
        BY <1>1, <3>1, <4>1, EntryIsItsPlace
      <4> QED
        BY <1>0, <3>1, <4>1, <4>2
    <3> QED
      BY <1>0, <1>2, <3>1 DEF Inv, BusInv, WaitingIsNewer
  <2>2. \A f \in Entry : Bus!IsNew(f)' <=> Bus!IsNew(f)
    <3>1. ASSUME NEW f \in Entry PROVE Bus!IsNew(f)' <=> Bus!IsNew(f)
      BY <1>0, <1>1 DEF Bus!IsNew
    <3> QED
      BY <3>1
  <2>3. StreamHasNoGap'
    BY <2>2 DEF Inv, BusInv, StreamHasNoGap
  <2>4. JobIsHeld'
    BY <1>0, <1>1 DEF Inv, BusInv, JobIsHeld
  <2>5. RowsAreOut'
    BY <1>0, <1>2 DEF Inv, BusInv, RowsAreOut
  <2> QED
    BY <2>1, <2>3, <2>4, <2>5 DEF BusInv
<1>6. KeyInv'
  <2>1. \A f : Stored(f)' <=> Stored(f)
    BY <1>0 DEF Stored
  <2>2. SeqIsOwn'
    BY <1>0, <1>1 DEF Inv, KeyInv, SeqIsOwn, Drew
  <2>3. WritersAreApart'
    BY <1>0, <1>1, <1>3, <2>1 DEF Inv, KeyInv, WritersAreApart, TypeOK
  <2>4. FinishedIsStored'
    BY <1>0, <1>1, <2>1 DEF Inv, KeyInv, FinishedIsStored
  <2>5. AckedIsStored'
    BY <1>0, <2>1 DEF Inv, KeyInv, AckedIsStored
  <2> QED
    BY <2>2, <2>3, <2>4, <2>5 DEF KeyInv
<1>7. OrderInv'
  <2>1. \A r \in rows : r.entry[1] = e[1] => r.entry[2] < e[2]
    <3>1. \A r \in rows : r.entry \in Entry /\ Out(r.entry)
      BY DEF Inv, BusInv, RowsAreOut, TypeOK, Row
    <3> QED
      BY <3>1 DEF Inv, BusInv, WaitingIsNewer
  <2>2. JobIsNewest'
    BY <1>0, <1>1, <2>1 DEF Inv, OrderInv, JobIsNewest
  <2>3. SeqIsLater'
    BY <1>0, <1>1 DEF Inv, OrderInv, SeqIsLater, Drew
  <2> QED
    BY <2>2, <2>3 DEF OrderInv
<1>8. StoredOnce' /\ ReplicaKeepsOrder'
  BY <1>0 DEF Inv, StoredOnce, ReplicaKeepsOrder
<1> QED
  BY <1>4, <1>5, <1>6, <1>7, <1>8 DEF Inv

LEMMA DrawKeeps ==
  ASSUME Inv, NEW w \in Worker, Draw(w)
  PROVE  Inv'
<1>0. /\ pc[w] = "draw"
      /\ lastSeq' = lastSeq + 1
      /\ drawn' = [drawn EXCEPT ![w] = lastSeq + 1]
      /\ pc' = [pc EXCEPT ![w] = "insert"]
      /\ UNCHANGED <<waiting, held, settled, origin, rows, job, writing, faults>>
  BY DEF Draw, busVars
<1>1. /\ lastSeq \in Nat
      /\ pc' \in [Worker -> Steps] /\ pc'[w] = "insert"
      /\ \A v \in Worker : v # w => pc'[v] = pc[v]
      /\ drawn' \in [Worker -> Nat] /\ drawn'[w] = lastSeq + 1
      /\ \A v \in Worker : v # w => drawn'[v] = drawn[v]
      /\ \A v \in Worker : drawn[v] \in Nat /\ drawn[v] <= lastSeq
  BY <1>0 DEF Inv, TypeOK, Steps
<1>2. \A r \in rows : r.seq \in Nat /\ r.seq <= lastSeq
  BY DEF Inv, TypeOK
<1>3. TypeOK'
  <2>1. drawn' \in [Worker -> 0 .. lastSeq']
    BY <1>0, <1>1
  <2>2. \A r \in rows' : r.seq \in 1 .. lastSeq' /\ r.id = origin'[r.entry]
    BY <1>0, <1>1 DEF Inv, TypeOK
  <2>3. lastSeq' \in Nat
    BY <1>0, <1>1
  <2>4. w \notin writing
    BY <1>0 DEF Inv, TypeOK
  <2> QED
    BY <1>0, <1>1, <2>1, <2>2, <2>3, <2>4 DEF Inv, TypeOK
<1>4. BusInv'
  BY <1>0, <1>1 DEF Inv, BusInv, WaitingIsNewer, StreamHasNoGap, JobIsHeld,
     RowsAreOut, Out, Bus!IsNew
<1>5. KeyInv'
  <2>1. SeqIsOwn'
    BY <1>0, <1>1, <1>2 DEF Inv, KeyInv, SeqIsOwn, Drew
  <2>2. WritersAreApart' /\ FinishedIsStored' /\ AckedIsStored'
    BY <1>0, <1>1 DEF Inv, KeyInv, WritersAreApart, FinishedIsStored,
       AckedIsStored, Stored
  <2> QED
    BY <2>1, <2>2 DEF KeyInv
<1>6. OrderInv'
  <2>1. JobIsNewest'
    BY <1>0, <1>1 DEF Inv, OrderInv, JobIsNewest
  <2>2. SeqIsLater'
    BY <1>0, <1>1, <1>2 DEF Inv, OrderInv, SeqIsLater, Drew
  <2> QED
    BY <2>1, <2>2 DEF OrderInv
<1>7. StoredOnce' /\ ReplicaKeepsOrder'
  BY <1>0 DEF Inv, StoredOnce, ReplicaKeepsOrder
<1> QED
  BY <1>3, <1>4, <1>5, <1>6, <1>7 DEF Inv

LEMMA InsertKeeps ==
  ASSUME Inv, NEW w \in Worker, Insert(w)
  PROVE  Inv'
<1>0. /\ pc[w] = "insert"
      /\ \A v \in writing : origin[job[v]] # origin[job[w]]
      /\ writing' = IF Stored(job[w]) THEN writing ELSE writing \cup {w}
      /\ pc' = [pc EXCEPT ![w] = "commit"]
      /\ UNCHANGED <<waiting, held, settled, origin, lastSeq, rows, job, drawn, faults>>
  BY DEF Insert, busVars
<1>1. /\ pc' \in [Worker -> Steps] /\ pc'[w] = "commit"
      /\ \A v \in Worker : v # w => pc'[v] = pc[v]
  BY <1>0 DEF Inv, TypeOK, Steps
<1>2. TypeOK'
  BY <1>0, <1>1 DEF Inv, TypeOK
<1>3. BusInv'
  BY <1>0, <1>1 DEF Inv, BusInv, WaitingIsNewer, StreamHasNoGap, JobIsHeld,
     RowsAreOut, Out, Bus!IsNew
<1>4. KeyInv'
  <2>1. \A e : Stored(e)' <=> Stored(e)
    BY <1>0 DEF Stored
  <2>2. SeqIsOwn'
    BY <1>0, <1>1 DEF Inv, KeyInv, SeqIsOwn, Drew
  <2>3. WritersAreApart'
    BY <1>0, <2>1 DEF Inv, KeyInv, WritersAreApart
  <2>4. FinishedIsStored'
    BY <1>0, <1>1, <2>1 DEF Inv, KeyInv, FinishedIsStored
  <2>5. AckedIsStored'
    BY <1>0, <2>1 DEF Inv, KeyInv, AckedIsStored
  <2> QED
    BY <2>2, <2>3, <2>4, <2>5 DEF KeyInv
<1>5. OrderInv'
  BY <1>0, <1>1 DEF Inv, OrderInv, JobIsNewest, SeqIsLater, Drew
<1>6. StoredOnce' /\ ReplicaKeepsOrder'
  BY <1>0 DEF Inv, StoredOnce, ReplicaKeepsOrder
<1> QED
  BY <1>2, <1>3, <1>4, <1>5, <1>6 DEF Inv

LEMMA CommitKeeps ==
  ASSUME Inv, NEW w \in Worker, Commit(w)
  PROVE  Inv'
<1>0. /\ pc[w] = "commit"
      /\ rows' = IF w \in writing THEN rows \cup {NewRow(w)} ELSE rows
      /\ writing' = writing \ {w}
      /\ pc' = [pc EXCEPT ![w] = "ack"]
      /\ UNCHANGED <<waiting, held, settled, origin, lastSeq, job, drawn, faults>>
  BY DEF Commit, busVars
<1>1. /\ pc' \in [Worker -> Steps] /\ pc'[w] = "ack"
      /\ \A v \in Worker : v # w => pc'[v] = pc[v]
  BY <1>0 DEF Inv, TypeOK, Steps
<1>2. /\ job[w] \in Entry /\ job[w] \in held[w]
      /\ origin[job[w]] \in Entry
      /\ drawn[w] \in Nat /\ drawn[w] > 0 /\ drawn[w] <= lastSeq /\ lastSeq \in Nat
  BY <1>0 DEF Inv, BusInv, KeyInv, JobIsHeld, SeqIsOwn, Drew, TypeOK
<1>3. /\ NewRow(w) \in Row
      /\ NewRow(w).entry = job[w] /\ NewRow(w).id = origin[job[w]]
      /\ NewRow(w).seq = drawn[w] /\ NewRow(w).by = w
  BY <1>2 DEF NewRow, Row
<1>4. \A e : Stored(e)' <=> Stored(e) \/ (w \in writing /\ origin[e] = origin[job[w]])
  BY <1>0, <1>3 DEF Stored
<1>5. TypeOK'
  <2>1. rows' \subseteq Row
    BY <1>0, <1>3 DEF Inv, TypeOK
  <2>2. \A r \in rows' : r.seq \in 1 .. lastSeq' /\ r.id = origin'[r.entry]
    BY <1>0, <1>2, <1>3 DEF Inv, TypeOK
  <2>3. writing' \subseteq {v \in Worker : pc'[v] = "commit"}
    BY <1>0, <1>1 DEF Inv, TypeOK
  <2> QED
    BY <1>0, <1>1, <2>1, <2>2, <2>3 DEF Inv, TypeOK
<1>6. BusInv'
  <2>1. \A e : Out(e)' <=> Out(e)
    BY <1>0 DEF Out
  <2>2. WaitingIsNewer' /\ StreamHasNoGap'
    BY <1>0, <2>1 DEF Inv, BusInv, WaitingIsNewer, StreamHasNoGap, Bus!IsNew
  <2>3. JobIsHeld'
    BY <1>0, <1>1 DEF Inv, BusInv, JobIsHeld
  <2>4. Out(job[w])
    BY <1>2 DEF Out
  <2>5. RowsAreOut'
    BY <1>0, <1>3, <2>1, <2>4 DEF Inv, BusInv, RowsAreOut
  <2> QED
    BY <2>2, <2>3, <2>5 DEF BusInv
<1>7. KeyInv'
  <2>1. SeqIsOwn'
    BY <1>0, <1>1, <1>3 DEF Inv, KeyInv, SeqIsOwn, Drew
  <2>2. WritersAreApart'
    BY <1>0, <1>4 DEF Inv, KeyInv, WritersAreApart
  <2>3. FinishedIsStored'
    BY <1>0, <1>1, <1>4 DEF Inv, KeyInv, FinishedIsStored
  <2>4. AckedIsStored'
    BY <1>0, <1>4 DEF Inv, KeyInv, AckedIsStored
  <2> QED
    BY <2>1, <2>2, <2>3, <2>4 DEF KeyInv
<1>8. OrderInv'
  BY <1>0, <1>1, <1>3 DEF Inv, OrderInv, JobIsNewest, SeqIsLater, Drew
<1>9. StoredOnce'
  <2>1. \A r \in rows : w \in writing => r.id # origin[job[w]] /\ r.seq # drawn[w]
    BY <1>0 DEF Inv, KeyInv, WritersAreApart, SeqIsOwn, Drew, Stored
  <2> QED
    BY <1>0, <1>3, <2>1 DEF Inv, StoredOnce
<1>10. ReplicaKeepsOrder'
  <2>1. \A r \in rows :
          r.by = w => /\ r.seq < drawn[w]
                      /\ r.entry[1] = job[w][1] => r.entry[2] < job[w][2]
    BY <1>0 DEF Inv, OrderInv, JobIsNewest, SeqIsLater, Drew
  <2>2. \A r \in rows : r.entry[2] \in Nat
    BY EntryAssumption DEF Inv, TypeOK, Row
  <2>3. job[w][2] \in Nat
    BY <1>2, EntryAssumption
  <2> QED
    BY <1>0, <1>3, <2>1, <2>2, <2>3 DEF Inv, ReplicaKeepsOrder
<1> QED
  BY <1>5, <1>6, <1>7, <1>8, <1>9, <1>10 DEF Inv

LEMMA AckKeeps ==
  ASSUME Inv, NEW w \in Worker, Ack(w)
  PROVE  Inv'
<1>0. /\ pc[w] = "ack"
      /\ job[w] \in held[w]
      /\ held' = [held EXCEPT ![w] = @ \ {job[w]}]
      /\ settled' = settled \cup {job[w]}
      /\ pc' = [pc EXCEPT ![w] = "idle"]
      /\ job' = [job EXCEPT ![w] = NoEntry]
      /\ UNCHANGED <<waiting, origin, lastSeq, rows, drawn, writing, faults>>
  BY DEF Ack, Bus!Settle
<1>1. /\ job[w] \in Entry
      /\ pc' \in [Worker -> Steps] /\ pc'[w] = "idle"
      /\ \A v \in Worker : v # w => pc'[v] = pc[v]
      /\ job' \in [Worker -> Entry \cup {NoEntry}] /\ job'[w] = NoEntry
      /\ \A v \in Worker : v # w => job'[v] = job[v]
      /\ held' \in [Worker -> SUBSET Entry] /\ held'[w] = held[w] \ {job[w]}
      /\ \A v \in Worker : v # w => held'[v] = held[v]
      /\ w \notin writing
  BY <1>0 DEF Inv, TypeOK, Steps
<1>2. \A e : Out(e)' <=> Out(e)
  BY <1>0, <1>1 DEF Out
<1>3. \A e : Stored(e)' <=> Stored(e)
  BY <1>0 DEF Stored
<1>4. TypeOK'
  BY <1>0, <1>1 DEF Inv, TypeOK
<1>5. BusInv'
  <2>1. \A e \in Entry : Bus!IsNew(e)' <=> Bus!IsNew(e)
    <3>1. ASSUME NEW e \in Entry PROVE Bus!IsNew(e)' <=> Bus!IsNew(e)
      BY <1>0, <1>1 DEF Bus!IsNew
    <3> QED
      BY <3>1
  <2>2. WaitingIsNewer' /\ StreamHasNoGap' /\ RowsAreOut'
    BY <1>0, <1>2, <2>1 DEF Inv, BusInv, WaitingIsNewer, StreamHasNoGap, RowsAreOut
  <2>3. JobIsHeld'
    BY <1>0, <1>1 DEF Inv, BusInv, JobIsHeld
  <2> QED
    BY <2>2, <2>3 DEF BusInv
<1>6. KeyInv'
  <2>1. SeqIsOwn'
    BY <1>0, <1>1 DEF Inv, KeyInv, SeqIsOwn, Drew
  <2>2. WritersAreApart'
    BY <1>0, <1>1, <1>3 DEF Inv, KeyInv, WritersAreApart, TypeOK
  <2>3. FinishedIsStored'
    BY <1>0, <1>1, <1>3 DEF Inv, KeyInv, FinishedIsStored
  <2>4. AckedIsStored'
    BY <1>0, <1>3 DEF Inv, KeyInv, FinishedIsStored, AckedIsStored
  <2> QED
    BY <2>1, <2>2, <2>3, <2>4 DEF KeyInv
<1>7. OrderInv'
  BY <1>0, <1>1 DEF Inv, OrderInv, JobIsNewest, SeqIsLater, Drew
<1>8. StoredOnce' /\ ReplicaKeepsOrder'
  BY <1>0 DEF Inv, StoredOnce, ReplicaKeepsOrder
<1> QED
  BY <1>4, <1>5, <1>6, <1>7, <1>8 DEF Inv

LEMMA FailKeeps ==
  ASSUME Inv, NEW w \in Worker, Fail(w)
  PROVE  Inv'
<1>0. /\ faults < MaxFaults
      /\ faults' = faults + 1
      /\ writing' = writing \ {w}
      /\ pc' = [pc EXCEPT ![w] = "down"]
      /\ job' = [job EXCEPT ![w] = NoEntry]
      /\ UNCHANGED <<waiting, held, settled, origin, lastSeq, rows, drawn>>
  BY DEF Fail, busVars
<1>1. /\ pc' \in [Worker -> Steps] /\ pc'[w] = "down"
      /\ \A v \in Worker : v # w => pc'[v] = pc[v]
      /\ job' \in [Worker -> Entry \cup {NoEntry}] /\ job'[w] = NoEntry
      /\ \A v \in Worker : v # w => job'[v] = job[v]
  BY <1>0 DEF Inv, TypeOK, Steps
<1>2. TypeOK'
  <2>1. faults' \in 0 .. MaxFaults
    BY <1>0, MaxFaultsAssumption DEF Inv, TypeOK
  <2> QED
    BY <1>0, <1>1, <2>1 DEF Inv, TypeOK
<1>3. BusInv'
  BY <1>0, <1>1 DEF Inv, BusInv, WaitingIsNewer, StreamHasNoGap, JobIsHeld,
     RowsAreOut, Out, Bus!IsNew
<1>4. KeyInv'
  <2>1. SeqIsOwn'
    BY <1>0, <1>1 DEF Inv, KeyInv, SeqIsOwn, Drew
  <2>2. \A v \in writing' : v \in Worker /\ v \in writing /\ v # w
    BY <1>0 DEF Inv, TypeOK
  <2>3. WritersAreApart'
    BY <1>0, <1>1, <2>2 DEF Inv, KeyInv, WritersAreApart, Stored
  <2>4. FinishedIsStored' /\ AckedIsStored'
    BY <1>0, <1>1 DEF Inv, KeyInv, FinishedIsStored, AckedIsStored, Stored
  <2> QED
    BY <2>1, <2>3, <2>4 DEF KeyInv
<1>5. OrderInv'
  BY <1>0, <1>1 DEF Inv, OrderInv, JobIsNewest, SeqIsLater, Drew
<1>6. StoredOnce' /\ ReplicaKeepsOrder'
  BY <1>0 DEF Inv, StoredOnce, ReplicaKeepsOrder
<1> QED
  BY <1>2, <1>3, <1>4, <1>5, <1>6 DEF Inv

LEMMA StutterKeeps ==
  ASSUME Inv, UNCHANGED vars
  PROVE  Inv'
<1>0. UNCHANGED <<waiting, held, settled, origin, lastSeq, rows, pc, job, drawn,
                  writing, faults>>
  BY DEF vars, busVars
<1> QED
  BY <1>0 DEF Inv, TypeOK, BusInv, KeyInv, OrderInv, WaitingIsNewer,
     StreamHasNoGap, JobIsHeld, RowsAreOut, SeqIsOwn, Drew, WritersAreApart,
     FinishedIsStored, AckedIsStored, JobIsNewest, SeqIsLater, StoredOnce,
     ReplicaKeepsOrder, Out, Stored, Bus!IsNew

LEMMA NextKeeps ==
  ASSUME Inv, [Next]_vars
  PROVE  Inv'
<1>1. CASE \E e \in Entry : Publish(e)
  BY <1>1, SendKeeps DEF Publish
<1>2. CASE \E e, o \in Entry : PublishAgain(e, o)
  BY <1>2, SendKeeps DEF PublishAgain
<1>3. ASSUME NEW w \in Worker, Work(w)
      PROVE  Inv'
  BY <1>3, StartKeeps, TakeKeeps, DrawKeeps, InsertKeeps, CommitKeeps, AckKeeps
     DEF Work
<1>4. CASE \E w \in Worker : Fail(w)
  BY <1>4, FailKeeps
<1>5. CASE UNCHANGED vars
  BY <1>5, StutterKeeps
<1> QED
  BY <1>1, <1>2, <1>3, <1>4, <1>5 DEF Next

-----------------------------------------------------------------------------
(***************************************************************************)
(* The invariant holds in every reachable state.                           *)
(***************************************************************************)
THEOREM InvHolds == Spec => []Inv
<1>1. Init => Inv
  BY InitInv
<1>2. Inv /\ [Next]_vars => Inv'
  BY NextKeeps
<1> QED
  BY <1>1, <1>2, PTL DEF Spec

\* Type correctness of the event store.
THEOREM TypeCorrect == Spec => []TypeOK
<1>1. Inv => TypeOK
  BY DEF Inv
<1> QED
  BY <1>1, InvHolds, PTL

\* An event id is stored once, under a seq of its own, however many replicas
\* insert its copies and however many of them fail (events.event_id UNIQUE).
THEOREM EventsAreStoredOnce == Spec => []StoredOnce
<1>1. Inv => StoredOnce
  BY DEF Inv
<1> QED
  BY <1>1, InvHolds, PTL

\* What is acknowledged is in the table (persist commits before the ack).
THEOREM AckFollowsCommit == Spec => []AckedIsStored
<1>1. Inv => AckedIsStored
  BY DEF Inv, KeyInv
<1> QED
  BY <1>1, InvHolds, PTL

\* One replica's seq follows the order of each stream (read, INSERT's seq).
THEOREM SeqFollowsTheStream == Spec => []ReplicaKeepsOrder
<1>1. Inv => ReplicaKeepsOrder
  BY DEF Inv
<1> QED
  BY <1>1, InvHolds, PTL

\* No step takes a stored row away or changes it (ON CONFLICT DO NOTHING).
THEOREM NothingStoredIsLost == Spec => AppendOnly
<1>1. ASSUME Next PROVE rows \subseteq rows'
  <2>1. CASE \E e \in Entry : Publish(e)
    BY <2>1 DEF Publish, Send
  <2>2. CASE \E e, o \in Entry : PublishAgain(e, o)
    BY <2>2 DEF PublishAgain, Send
  <2>3. ASSUME NEW w \in Worker, Work(w) PROVE rows \subseteq rows'
    BY <2>3 DEF Work, Start, Take, Draw, Insert, Commit, Ack
  <2>4. CASE \E w \in Worker : Fail(w)
    BY <2>4 DEF Fail
  <2> QED
    BY <1>1, <2>1, <2>2, <2>3, <2>4 DEF Next
<1>2. [Next]_vars => [rows \subseteq rows']_vars
  BY <1>1
<1> QED
  BY <1>2, PTL DEF Spec, AppendOnly

-----------------------------------------------------------------------------
(***************************************************************************)
(* The table implements EventLog: a publication sends an event or, for a   *)
(* copy, does nothing; a draw gives out a number; the commit of an insert  *)
(* adds to the log; an acknowledgement confirms.                           *)
(***************************************************************************)
Sent == EventOf({e \in Entry : ~ Bus!IsNew(e)})
RowLog == {[id |-> r.id, seq |-> r.seq, by |-> r.by] : r \in rows}

LEMMA SendImplements ==
  ASSUME Inv, NEW e \in Entry, NEW o \in Entry, Send(e, o),
         o = e \/ (~ Bus!IsNew(o) /\ origin[o] = o)
  PROVE  Log!Next \/ UNCHANGED Log!vars
<1>1. /\ Bus!IsNew(e)
      /\ \A f \in Entry : Bus!IsNew(f)' <=> Bus!IsNew(f) /\ f # e
      /\ \A f \in Entry : origin'[f] = IF f = e THEN o ELSE origin[f]
      /\ UNCHANGED <<settled, lastSeq, rows>>
  BY DEF Send, Bus!Add, Bus!IsNew, Inv, TypeOK
<1>2. \A f \in settled : f \in Entry /\ f # e
  BY <1>1, Places DEF Out, Inv, TypeOK
<1>3. EventOf(settled)' = EventOf(settled)
  BY <1>1, <1>2 DEF EventOf
<1>4. Sent' = Sent \cup {o}
  BY <1>1 DEF Sent, EventOf
<1>5. CASE o = e
  <2>1. Log!Send(e)
    BY <1>1, <1>3, <1>4, <1>5 DEF Log!Send, Sent
  <2> QED
    BY <2>1 DEF Log!Next
<1>6. CASE ~ Bus!IsNew(o) /\ origin[o] = o
  <2>1. o \in Sent
    BY <1>6 DEF Sent, EventOf
  <2> QED
    BY <1>1, <1>3, <1>4, <2>1 DEF Log!vars, Sent
<1> QED
  BY <1>5, <1>6

\* A replica's step brings nothing new onto the bus.
LEMMA WorkSendsNothing ==
  ASSUME Inv, NEW w \in Worker, Work(w) \/ Fail(w)
  PROVE  Sent' = Sent
<1>1. /\ origin' = origin
      /\ \A e \in Entry : Bus!IsNew(e)' <=> Bus!IsNew(e)
  <2>1. held \in [Worker -> SUBSET Entry]
    BY DEF Inv, TypeOK
  <2>2. CASE \E e \in waiting : Take(w, e)
    BY <2>1, <2>2 DEF Take, Bus!Deliver, Bus!IsNew
  <2>3. CASE Ack(w)
    BY <2>1, <2>3 DEF Ack, Bus!Settle, Bus!IsNew
  <2>4. CASE Start(w) \/ Draw(w) \/ Insert(w) \/ Commit(w) \/ Fail(w)
    BY <2>4 DEF Start, Draw, Insert, Commit, Fail, busVars, Bus!IsNew
  <2> QED
    BY <2>2, <2>3, <2>4 DEF Work
<1> QED
  BY <1>1 DEF Sent, EventOf

LEMMA CommitImplements ==
  ASSUME Inv, NEW w \in Worker, Commit(w)
  PROVE  Log!Next \/ UNCHANGED Log!vars
<1>1. /\ Sent' = Sent
      /\ EventOf(settled)' = EventOf(settled)
      /\ lastSeq' = lastSeq
  BY WorkSendsNothing DEF Work, Commit, busVars, EventOf
<1>2. CASE w \notin writing
  BY <1>1, <1>2 DEF Commit, Log!vars, Sent
<1>3. CASE w \in writing
  <2> DEFINE id == origin[job[w]]
             n == drawn[w]
  <2>1. /\ job[w] \in Entry /\ job[w] \in held[w]
        /\ id \in Entry
        /\ pc[w] = "commit"
    BY DEF Commit, Inv, BusInv, JobIsHeld, TypeOK
  <2>2. id \in Sent
    BY <2>1, Places DEF Sent, EventOf, Out
  <2>3. n \in 1 .. lastSeq
    BY <2>1 DEF Inv, KeyInv, SeqIsOwn, Drew, TypeOK
  <2>4. \A r \in RowLog : r.id # id
    BY <1>3, <2>1 DEF RowLog, Inv, KeyInv, WritersAreApart, Stored
  <2>5. \A r \in RowLog : r.seq # n
    BY <2>1 DEF RowLog, Inv, KeyInv, SeqIsOwn, Drew
  <2>6. \A r \in RowLog : r.by = w => r.seq < n
    BY <2>1 DEF RowLog, Inv, OrderInv, SeqIsLater, Drew
  <2>7. RowLog' = RowLog \cup {[id |-> id, seq |-> n, by |-> w]}
    <3>1. /\ rows' = rows \cup {NewRow(w)}
          /\ NewRow(w).id = id /\ NewRow(w).seq = n /\ NewRow(w).by = w
      BY <1>3 DEF Commit, NewRow
    <3> QED
      BY <3>1 DEF RowLog
  <2>8. Log!Add(id, n, w)
    BY <1>1, <2>2, <2>4, <2>5, <2>6, <2>7 DEF Log!Add, Log!Logged, Sent, RowLog
  <2> QED
    BY <2>1, <2>3, <2>8 DEF Log!Next
<1> QED
  BY <1>2, <1>3

LEMMA AckImplements ==
  ASSUME Inv, NEW w \in Worker, Ack(w)
  PROVE  Log!Next \/ UNCHANGED Log!vars
<1> DEFINE id == origin[job[w]]
<1>1. /\ Sent' = Sent
      /\ lastSeq' = lastSeq /\ rows' = rows /\ origin' = origin
      /\ settled' = settled \cup {job[w]}
  BY WorkSendsNothing DEF Work, Ack, Bus!Settle
<1>2. job[w] \in Entry /\ id \in Entry /\ Stored(job[w])
  BY DEF Ack, Inv, BusInv, JobIsHeld, KeyInv, FinishedIsStored, TypeOK
<1>3. EventOf(settled)' = EventOf(settled) \cup {id}
  BY <1>1 DEF EventOf
<1>4. \E r \in RowLog : r.id = id
  <2>1. PICK s \in rows : s.id = id
    BY <1>2 DEF Stored
  <2>2. [id |-> s.id, seq |-> s.seq, by |-> s.by] \in RowLog
    BY DEF RowLog
  <2> QED
    BY <2>1, <2>2
<1>5. RowLog' = RowLog
  BY <1>1 DEF RowLog
<1>6. Log!Confirm(id)
  BY <1>1, <1>3, <1>4, <1>5 DEF Log!Confirm, Log!Logged, Sent, RowLog
<1> QED
  BY <1>2, <1>6 DEF Log!Next

LEMMA LogStep == Inv /\ [Next]_vars => [Log!Next]_(Log!vars)
<1> SUFFICES ASSUME Inv, [Next]_vars
             PROVE  Log!Next \/ UNCHANGED Log!vars
  OBVIOUS
<1>1. ASSUME NEW e \in Entry, Publish(e)
      PROVE  Log!Next \/ UNCHANGED Log!vars
  BY <1>1, SendImplements DEF Publish
<1>2. ASSUME NEW e \in Entry, NEW o \in Entry, PublishAgain(e, o)
      PROVE  Log!Next \/ UNCHANGED Log!vars
  BY <1>2, SendImplements DEF PublishAgain
<1>3. ASSUME NEW w \in Worker, Draw(w)
      PROVE  Log!Next \/ UNCHANGED Log!vars
  <2>1. /\ Sent' = Sent /\ EventOf(settled)' = EventOf(settled)
        /\ RowLog' = RowLog
        /\ lastSeq' = lastSeq + 1
    BY <1>3, WorkSendsNothing DEF Work, Draw, busVars, EventOf, RowLog
  <2>2. Log!GiveNumber
    BY <2>1 DEF Log!GiveNumber, Sent, RowLog
  <2> QED
    BY <2>2 DEF Log!Next
<1>4. ASSUME NEW w \in Worker,
             Start(w) \/ (\E e \in waiting : Take(w, e)) \/ Insert(w) \/ Fail(w)
      PROVE  Log!Next \/ UNCHANGED Log!vars
  <2>1. Sent' = Sent
    BY <1>4, WorkSendsNothing DEF Work
  <2>2. UNCHANGED <<settled, origin, lastSeq, rows>>
    BY <1>4 DEF Start, Take, Insert, Fail, busVars, Bus!Deliver
  <2>3. EventOf(settled)' = EventOf(settled) /\ RowLog' = RowLog
    BY <2>2 DEF EventOf, RowLog
  <2> QED
    BY <2>1, <2>2, <2>3 DEF Log!vars, Sent, RowLog
<1>5. CASE UNCHANGED vars
  <2>1. Sent' = Sent /\ EventOf(settled)' = EventOf(settled) /\ RowLog' = RowLog
    BY <1>5 DEF vars, busVars, Sent, EventOf, RowLog, Bus!IsNew
  <2> QED
    BY <1>5, <2>1 DEF vars, Log!vars, Sent, RowLog
<1> QED
  BY <1>1, <1>2, <1>3, <1>4, <1>5, CommitImplements, AckImplements DEF Next, Work

\* The table events is the log that EventLog describes, whatever copies,
\* replicas and failures there are (event_repo.py, persist, main.py).
THEOREM StoreImplementsLog == Spec => ImplementsLog
<1>1. Init => Log!Init
  BY DEF Init, Bus!Init, Log!Init, EventOf, Bus!IsNew
<1> QED
  BY <1>1, LogStep, InvHolds, PTL DEF Spec, ImplementsLog, Log!Spec

============================================================================
