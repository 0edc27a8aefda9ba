------------------------- MODULE RevalidationProofs -------------------------
(***************************************************************************)
(* The safety properties of Revalidation for every set of deals, requests  *)
(* and replicas, every cap, budget and number of failures.                 *)
(***************************************************************************)
EXTENDS Revalidation, FiniteSetTheorems, SequenceTheorems, TLAPS

(***************************************************************************)
(* What they rest on.  An entry that is out was delivered; one worker at   *)
(* most has it.                                                            *)
(***************************************************************************)
Out(e) == e \in settled \/ \E w \in Worker : e \in held[w]

InOnePlace ==
  /\ \A e \in waiting : ~ Out(e)
  /\ \A w \in Worker : held[w] \cap settled = {}
  /\ \A v, w \in Worker : v # w => held[v] \cap held[w] = {}

AddedHasDeal == \A e \in Entry : ~ Bus!IsNew(e) => body[e] \in Deal

JobIsHeld ==
  \A w \in Worker :
    /\ IF pc[w] \in {"down", "idle"} THEN job[w] = NoEntry /\ batch[w] = {}
       ELSE job[w] \in held[w]
    /\ batch[w] \subseteq held[w]
    /\ job[w] \notin batch[w]

Reading == {"admit", "read", "judge", "recheck", "send"}
HasRead == {"judge", "recheck", "send"}

JobHasItsKind ==
  \A w \in Worker : /\ pc[w] = "record" => job[w] \in Scored
                    /\ pc[w] \in Reading \cup {"lookup"} => job[w] \in Request

\* A deal that a projection knows, or that is being looked at, was announced
\* and its announcement delivered.
Told(d) == \E s \in Scored : body[s] = d /\ Out(s)

RefsAreTold == \A w \in Worker : \A d \in ToSet(refs[w]) : Told(d)

AskedIsTold == \A w \in Worker : pc[w] \in Reading => Told(body[job[w]])

\* What was read may be late until it was judged.
ReadIsFresh ==
  \A w \in Worker :
    /\ pc[w] \in Reading \cup {"lookup"} => started[w] <= clock
    /\ pc[w] \in HasRead => started[w] <= seen[w].at /\ seen[w].at <= clock
    /\ pc[w] \in HasRead \ {"judge"} => seen[w].at < started[w] + Budget

AnswersAreOut == \A a \in answers : Out(a.request)

NotYetAnswered ==
  \A w \in Worker : \A a \in answers :
    /\ pc[w] \in Reading \cup {"lookup", "check"} => a.request # job[w]
    /\ a.request \notin batch[w]

AnswersAreJudged ==
  \A a \in answers :
    /\ a.deal = body[a.request]
    /\ ~ a.changed <=> a.in_stock /\ WithinTolerance(Detected[a.deal], a.price)

AnswersAreTold == \A a \in answers : Told(a.deal)

BusInv == InOnePlace /\ AddedHasDeal /\ JobIsHeld /\ JobHasItsKind
WorkInv == RefsAreTold /\ AskedIsTold /\ ReadIsFresh
AnswerInv ==
  /\ AnswersAreOut
  /\ NotYetAnswered
  /\ AnswersAreJudged
  /\ AnswersAreTold
  /\ AnswersAreFresh
  /\ AnsweredOnce

Inv == TypeOK /\ BusInv /\ WorkInv /\ AnswerInv

-----------------------------------------------------------------------------
\* What the projection's OrderedDict does.
LEMMA WithoutLemma ==
  ASSUME NEW q \in Seq(Deal), IsInjective(q), NEW d \in Deal
  PROVE  /\ Without(q, d) \in Seq(Deal)
         /\ IsInjective(Without(q, d))
         /\ ToSet(Without(q, d)) = ToSet(q) \ {d}
         /\ Len(Without(q, d)) <= Len(q)
         /\ Len(Without(q, d)) = Len(q) => Without(q, d) = q
<1>1. CASE ~ \E i \in DOMAIN q : q[i] = d
  BY <1>1 DEF Without, ToSet
<1>2. CASE \E i \in DOMAIN q : q[i] = d
  <2> DEFINE i == CHOOSE j \in DOMAIN q : q[j] = d
             r == RemoveAt(q, i)
  <2>1. i \in 1 .. Len(q) /\ q[i] = d
    BY <1>2
  <2> HIDE DEF i, r
  <2>2. /\ r \in Seq(Deal)
        /\ Len(r) = Len(q) - 1
        /\ \A j \in 1 .. Len(r) : r[j] = IF j < i THEN q[j] ELSE q[j + 1]
    <3> DEFINE front == SubSeq(q, 1, i - 1)
               back == SubSeq(q, i + 1, Len(q))
    <3>1. Len(q) \in Nat /\ i \in Nat /\ \A j \in 1 .. Len(q) : q[j] \in Deal
      BY <2>1
    <3>2. /\ front \in Seq(Deal)
          /\ Len(front) = IF 1 <= i - 1 THEN (i - 1) - 1 + 1 ELSE 0
          /\ \A j \in 1 .. (i - 1) - 1 + 1 : front[j] = q[1 + j - 1]
      <4>1. \A j \in 1 .. i - 1 : q[j] \in Deal
        BY <2>1, <3>1
      <4> QED
        BY <2>1, <3>1, <4>1, SubSeqProperties
    <3>3. /\ back \in Seq(Deal)
          /\ Len(back) = IF i + 1 <= Len(q) THEN Len(q) - (i + 1) + 1 ELSE 0
          /\ \A j \in 1 .. Len(q) - (i + 1) + 1 : back[j] = q[(i + 1) + j - 1]
      <4>1. \A j \in i + 1 .. Len(q) : q[j] \in Deal
        BY <2>1, <3>1
      <4> QED
        BY <2>1, <3>1, <4>1, SubSeqProperties
    <3> HIDE DEF front, back
    <3>4. Len(front) = i - 1 /\ Len(back) = Len(q) - i
      BY <2>1, <3>1, <3>2, <3>3
    <3>5. r = front \o back
      BY DEF RemoveAt, front, back, r
    <3>6. /\ r \in Seq(Deal)
          /\ Len(r) = Len(front) + Len(back)
          /\ \A j \in 1 .. Len(front) + Len(back) :
               r[j] = IF j <= Len(front) THEN front[j] ELSE back[j - Len(front)]
      BY <3>2, <3>3, <3>5, ConcatProperties
    <3>7. ASSUME NEW j \in 1 .. Len(r)
          PROVE  r[j] = IF j < i THEN q[j] ELSE q[j + 1]
      <4>1. CASE j < i
        <5>1. r[j] = front[j]
          BY <2>1, <3>1, <3>4, <3>6, <3>7, <4>1
        <5>2. front[j] = q[1 + j - 1]
          BY <2>1, <3>1, <3>2, <3>7, <4>1
        <5>3. 1 + j - 1 = j
          BY <3>7
        <5> QED
          BY <4>1, <5>1, <5>2, <5>3
      <4>2. CASE i <= j
        <5> DEFINE k == j - Len(front)
        <5>1. k \in 1 .. Len(q) - (i + 1) + 1
          BY <2>1, <3>1, <3>4, <3>6, <3>7, <4>2
        <5>2. r[j] = back[k]
          BY <2>1, <3>1, <3>4, <3>6, <3>7, <4>2
        <5>3. back[k] = q[(i + 1) + k - 1]
          BY <3>3, <5>1
        <5>4. (i + 1) + k - 1 = j + 1 /\ ~ (j < i)
          BY <3>1, <3>4, <3>7, <4>2
        <5> QED
          BY <5>2, <5>3, <5>4
      <4> QED
        BY <3>1, <3>7, <4>1, <4>2
    <3> QED
      BY <3>1, <3>4, <3>6, <3>7
  <2>3. \A j, k \in 1 .. Len(q) : q[j] = q[k] => j = k
    BY DEF IsInjective
  <2>4. IsInjective(r)
    <3>1. ASSUME NEW j \in 1 .. Len(r), NEW k \in 1 .. Len(r), r[j] = r[k]
          PROVE  j = k
      <4> DEFINE J == IF j < i THEN j ELSE j + 1
                 K == IF k < i THEN k ELSE k + 1
      <4>1. J \in 1 .. Len(q) /\ K \in 1 .. Len(q) /\ q[J] = r[j] /\ q[K] = r[k]
        BY <2>1, <2>2
      <4>2. J = K
        BY <2>3, <3>1, <4>1
      <4> QED
        BY <2>1, <4>2
    <3> QED
      BY <2>2, <3>1 DEF IsInjective
  <2>5. ToSet(r) = ToSet(q) \ {d}
    <3>1. ASSUME NEW j \in 1 .. Len(r) PROVE r[j] \in ToSet(q) \ {d}
      <4> DEFINE J == IF j < i THEN j ELSE j + 1
      <4>1. J \in 1 .. Len(q) /\ q[J] = r[j] /\ J # i
        BY <2>1, <2>2
      <4>2. q[J] # d
        BY <2>1, <2>3, <4>1
      <4> QED
        BY <4>1, <4>2 DEF ToSet
    <3>2. ASSUME NEW c \in ToSet(q), c # d PROVE c \in ToSet(r)
      <4>1. PICK k \in 1 .. Len(q) : q[k] = c
        BY DEF ToSet
      <4>2. k # i
        BY <2>1, <3>2, <4>1
      <4> DEFINE J == IF k < i THEN k ELSE k - 1
      <4>3. J \in 1 .. Len(r) /\ r[J] = c
        BY <2>1, <2>2, <4>1, <4>2
      <4>4. DOMAIN r = 1 .. Len(r)
        BY <2>2
      <4> QED
        BY <4>3, <4>4 DEF ToSet
    <3>3. \A x \in ToSet(r) : \E j \in 1 .. Len(r) : x = r[j]
      BY <2>2 DEF ToSet
    <3> QED
      BY <3>1, <3>2, <3>3
  <2>6. Without(q, d) = r
    BY <1>2 DEF Without, r, i
  <2> QED
    BY <2>2, <2>4, <2>5, <2>6
<1> QED
  BY <1>1, <1>2

LEMMA RememberLemma ==
  ASSUME NEW q \in Seq(Deal), IsInjective(q), Len(q) <= MaxDeals, NEW d \in Deal
  PROVE  /\ Remember(q, d) \in Seq(Deal)
         /\ IsInjective(Remember(q, d))
         /\ Len(Remember(q, d)) <= MaxDeals
         /\ ToSet(Remember(q, d)) \subseteq ToSet(q) \cup {d}
         /\ \A c \in ToSet(q) \ ToSet(Remember(q, d)) :
              c = q[1] /\ Len(Remember(q, d)) = MaxDeals
<1> DEFINE u == Without(q, d)
           r == Append(u, d)
<1>1. /\ u \in Seq(Deal) /\ IsInjective(u)
      /\ ToSet(u) = ToSet(q) \ {d} /\ Len(u) <= Len(q)
      /\ Len(u) = Len(q) => u = q
  BY WithoutLemma
<1> HIDE DEF u
<1>2. /\ r \in Seq(Deal) /\ r # <<>> /\ Len(r) = Len(u) + 1
      /\ \A i \in 1 .. Len(u) : r[i] = u[i]
      /\ r[Len(u) + 1] = d
  BY <1>1, AppendProperties
<1>3. Len(u) \in Nat /\ DOMAIN u = 1 .. Len(u)
  BY <1>1
<1>3a. DOMAIN r = 1 .. Len(u) + 1
  BY <1>2
<1>3b. r = Append(u, d)
  OBVIOUS
<1> HIDE DEF r
<1>4. \A i \in 1 .. Len(u) : u[i] # d
  BY <1>1, <1>3 DEF ToSet
<1>5. \A i, j \in 1 .. Len(u) + 1 : r[i] = r[j] => i = j
  <2>1. ASSUME NEW i \in 1 .. Len(u) + 1, NEW j \in 1 .. Len(u) + 1, r[i] = r[j]
        PROVE  i = j
    <3>1. CASE i \in 1 .. Len(u) /\ j \in 1 .. Len(u)
      BY <1>1, <1>2, <1>3, <2>1, <3>1 DEF IsInjective
    <3>2. CASE i = Len(u) + 1 \/ j = Len(u) + 1
      BY <1>2, <1>3, <1>4, <2>1, <3>2
    <3> QED
      BY <1>3, <2>1, <3>1, <3>2
  <2> QED
    BY <2>1
<1>6. ToSet(q) \subseteq ToSet(r) /\ ToSet(r) \subseteq ToSet(q) \cup {d}
  <2>1. ASSUME NEW c \in ToSet(q) PROVE c \in ToSet(r)
    <3>1. CASE c = d
      BY <1>2, <1>3, <1>3a, <3>1 DEF ToSet
    <3>2. CASE c # d
      <4>1. PICK i \in 1 .. Len(u) : u[i] = c
        BY <1>1, <1>3, <2>1, <3>2 DEF ToSet
      <4> QED
        BY <1>2, <1>3, <1>3a, <4>1 DEF ToSet
    <3> QED
      BY <3>1, <3>2
  <2>2. ASSUME NEW i \in 1 .. Len(u) + 1 PROVE r[i] \in ToSet(q) \cup {d}
    <3>1. CASE i \in 1 .. Len(u)
      <4>1. u[i] \in ToSet(u)
        BY <1>3, <3>1 DEF ToSet
      <4> QED
        BY <1>1, <1>2, <3>1, <4>1
    <3>2. CASE i = Len(u) + 1
      BY <1>2, <3>2
    <3> QED
      BY <1>3, <2>2, <3>1, <3>2
  <2>3. ToSet(r) \subseteq ToSet(q) \cup {d}
    BY <1>3a, <2>2 DEF ToSet
  <2> QED
    BY <2>1, <2>3
<1>7. CASE Len(r) > MaxDeals
  <2>1. Remember(q, d) = Tail(r)
    BY <1>3b, <1>7 DEF Remember, u
  <2>2. /\ Tail(r) \in Seq(Deal) /\ Len(Tail(r)) = Len(u)
        /\ \A i \in 1 .. Len(u) : Tail(r)[i] = r[i + 1]
    BY <1>2, <1>3, HeadTailProperties
  <2> DEFINE t == Tail(r)
  <2> HIDE DEF t
  <2>3. /\ t \in Seq(Deal) /\ Len(t) = Len(u) /\ DOMAIN t = 1 .. Len(u)
        /\ \A i \in 1 .. Len(u) : t[i] = r[i + 1]
    BY <2>2 DEF t
  <2>4. Len(u) = MaxDeals
    <3>1. Len(q) \in Nat /\ MaxDeals \in Nat
      BY BoundAssumption
    <3>2. Len(r) = Len(u) + 1 /\ Len(u) <= Len(q)
      BY <1>1, <1>2
    <3>3. \A a, b, m \in Nat : a <= b /\ b <= m /\ a + 1 > m => a = m
      OBVIOUS
    <3>4. Len(u) + 1 > MaxDeals
      BY <1>7, <3>2
    <3> QED
      BY <1>3, <3>1, <3>2, <3>3, <3>4
  <2>5. IsInjective(t)
    <3>1. ASSUME NEW i \in 1 .. Len(u), NEW j \in 1 .. Len(u), t[i] = t[j]
          PROVE  i = j
      <4>1. r[i + 1] = r[j + 1]
        BY <2>3, <3>1
      <4>2. i + 1 \in 1 .. Len(u) + 1 /\ j + 1 \in 1 .. Len(u) + 1
        BY <1>3
      <4>3. i + 1 = j + 1
        BY <1>5, <4>1, <4>2
      <4> QED
        BY <4>3
    <3> QED
      BY <2>3, <3>1 DEF IsInjective
  <2>6. ToSet(t) \subseteq ToSet(r)
    <3>1. \A i \in 1 .. Len(u) : i + 1 \in DOMAIN r
      BY <1>3, <1>3a
    <3> QED
      BY <2>3, <3>1 DEF ToSet
  <2>7. ASSUME NEW c \in ToSet(q), c \notin ToSet(t) PROVE c = q[1]
    <3>1. u = q
      <4>1. Len(q) \in Nat /\ Len(u) <= Len(q) /\ Len(q) <= MaxDeals /\ MaxDeals \in Nat
        BY <1>1, BoundAssumption
      <4>2. Len(u) = Len(q)
        BY <1>3, <2>4, <4>1
      <4> QED
        BY <1>1, <4>2
    <3>2. PICK i \in 1 .. Len(u) + 1 : r[i] = c
      BY <1>3a, <1>6 DEF ToSet
    <3>3. CASE i = 1
      <4>1. 1 \in 1 .. Len(u)
        BY <1>3, <2>4, BoundAssumption
      <4> QED
        BY <1>2, <3>1, <3>2, <3>3, <4>1
    <3>4. CASE i # 1
      <4>1. i - 1 \in 1 .. Len(u) /\ (i - 1) + 1 = i
        BY <1>3, <3>4
      <4>2. t[i - 1] = c
        BY <2>3, <3>2, <4>1
      <4> QED
        BY <2>3, <2>7, <4>1, <4>2 DEF ToSet
    <3> QED
      BY <3>3, <3>4
  <2> QED
    BY <1>6, <2>1, <2>3, <2>4, <2>5, <2>6, <2>7, BoundAssumption DEF t
<1>8. CASE ~ Len(r) > MaxDeals
  <2>1. Remember(q, d) = r
    BY <1>3b, <1>8 DEF Remember, u
  <2>2. Len(r) <= MaxDeals
    BY <1>2, <1>3, <1>8, BoundAssumption
  <2>3. IsInjective(r)
    BY <1>3a, <1>5 DEF IsInjective
  <2> QED
    BY <1>2, <1>6, <2>1, <2>2, <2>3
<1> QED
  BY <1>7, <1>8

-----------------------------------------------------------------------------
LEMMA InitInv == Init => Inv
<1> SUFFICES ASSUME Init PROVE Inv
  OBVIOUS
<1>1. TypeOK
  <2>1. NoRead \in Snapshot
    BY BoundAssumption DEF NoRead, Snapshot, Time
  <2>2. <<>> \in Seq(Deal) /\ Len(<<>>) = 0 /\ IsInjective(<<>>)
    BY DEF IsInjective
  <2>3. \A w \in Worker : refs[w] = <<>>
    BY DEF Init
  <2>4. refs \in [Worker -> Seq(Deal)]
    BY <2>2 DEF Init
  <2>5. \A w \in Worker : Len(refs[w]) <= MaxDeals /\ IsInjective(refs[w])
    BY <2>2, <2>3, BoundAssumption
  <2> QED
    BY <2>1, <2>4, <2>5, BoundAssumption DEF Init, Bus!Init, TypeOK, Steps, Time
<1>2. BusInv
  BY DEF Init, Bus!Init, BusInv, InOnePlace, AddedHasDeal, Bus!IsNew, JobIsHeld,
     JobHasItsKind, Out, Reading
<1>3. WorkInv
  <2>1. \A w \in Worker : ToSet(refs[w]) = {}
    BY DEF Init, ToSet
  <2> QED
    BY <2>1 DEF Init, WorkInv, RefsAreTold, AskedIsTold, ReadIsFresh, Reading, HasRead
<1>4. AnswerInv
  BY DEF Init, AnswerInv, AnswersAreOut, NotYetAnswered, AnswersAreJudged,
     AnswersAreTold, AnswersAreFresh, AnsweredOnce
<1> QED
  BY <1>1, <1>2, <1>3, <1>4 DEF Inv

\* An entry is new, waiting or out.
LEMMA Places ==
  ASSUME NEW e \in Entry
  PROVE  Bus!IsNew(e) <=> e \notin waiting /\ ~ Out(e)
  BY DEF Bus!IsNew, Out

\* What a working worker works on.
LEMMA Job ==
  ASSUME Inv, NEW w \in Worker, pc[w] \notin {"down", "idle"}
  PROVE  /\ job[w] \in Entry /\ job[w] \in held[w] /\ Out(job[w])
         /\ ~ Bus!IsNew(job[w]) /\ body[job[w]] \in Deal
<1>1. job[w] \in held[w] /\ job[w] \in Entry
  BY DEF Inv, BusInv, JobIsHeld, TypeOK
<1>2. Out(job[w])
  BY <1>1 DEF Out
<1> QED
  BY <1>1, <1>2, Places DEF Inv, BusInv, AddedHasDeal

-----------------------------------------------------------------------------
LEMMA SendKeeps ==
  ASSUME Inv, NEW e \in Entry, NEW d \in Deal, Send(e, d),
         origin' \in [Entry -> Entry]
  PROVE  Inv'
<1>0. /\ Bus!IsNew(e)
      /\ waiting' = waiting \cup {e}
      /\ body' = [body EXCEPT ![e] = d]
      /\ UNCHANGED <<held, settled, clock, refs, pc, job, batch, started, seen, marks,
                     answers, raised, faults>>
  BY DEF Send, Bus!Add, work, effects
<1>1. e \notin waiting /\ ~ Out(e)
  BY <1>0, Places
<1>2. \A f : Out(f)' <=> Out(f)
  BY <1>0 DEF Out
<1>3. /\ body' \in [Entry -> Deal \cup {NoDeal}] /\ body'[e] = d
      /\ \A f \in Entry : f # e => body'[f] = body[f]
  BY <1>0 DEF Inv, TypeOK
<1>4. \A c : Told(c) => Told(c)'
  <2>1. \A s \in Scored : s \in Entry
    BY DEF Entry
  <2> QED
    BY <1>1, <1>2, <1>3, <2>1 DEF Told
<1>5. TypeOK'
  BY <1>0, <1>3 DEF Inv, TypeOK
<1>6. BusInv'
  <2>1. InOnePlace'
    BY <1>0, <1>1, <1>2 DEF Inv, BusInv, InOnePlace
  <2>2. AddedHasDeal'
    <3>1. ASSUME NEW f \in Entry, ~ Bus!IsNew(f)', f # e PROVE ~ Bus!IsNew(f)
      BY <1>0, <3>1 DEF Bus!IsNew
    <3> QED
      BY <1>3, <3>1 DEF Inv, BusInv, AddedHasDeal
  <2>3. JobIsHeld' /\ JobHasItsKind'
    BY <1>0 DEF Inv, BusInv, JobIsHeld, JobHasItsKind, Reading
  <2> QED
    BY <2>1, <2>2, <2>3 DEF BusInv
<1>7. WorkInv'
  <2>1. RefsAreTold'
    BY <1>0, <1>4 DEF Inv, WorkInv, RefsAreTold
  <2>2. AskedIsTold'
    <3>1. ASSUME NEW w \in Worker, pc[w] \in Reading
          PROVE  body'[job[w]] = body[job[w]]
      <4>1. job[w] \in Entry /\ job[w] # e
        BY <1>1, <3>1, Job DEF Reading
      <4> QED
        BY <1>3, <4>1
    <3>2. \A c : (\E s \in Scored : body[s] = c /\ Out(s)) =>
                  (\E s \in Scored : body'[s] = c /\ Out(s)')
      BY <1>4 DEF Told
    <3> QED
      BY <1>0, <3>1, <3>2 DEF Inv, WorkInv, AskedIsTold, Told
  <2>3. ReadIsFresh'
    BY <1>0 DEF Inv, WorkInv, ReadIsFresh
  <2> QED
    BY <2>1, <2>2, <2>3 DEF WorkInv
<1>8. AnswerInv'
  <2>1. \A a \in answers : a.request \in Entry /\ a.request # e
    BY <1>1 DEF Inv, AnswerInv, AnswersAreOut, TypeOK, Answers, Entry
  <2>2. AnswersAreOut' /\ NotYetAnswered' /\ AnswersAreFresh' /\ AnsweredOnce'
    BY <1>0, <1>2 DEF Inv, AnswerInv, AnswersAreOut, NotYetAnswered,
       AnswersAreFresh, AnsweredOnce
  <2>3. AnswersAreJudged'
    BY <1>0, <1>3, <2>1 DEF Inv, AnswerInv, AnswersAreJudged
  <2>4. AnswersAreTold'
    BY <1>0, <1>4 DEF Inv, AnswerInv, AnswersAreTold
  <2> QED
    BY <2>2, <2>3, <2>4 DEF AnswerInv
<1> QED
  BY <1>5, <1>6, <1>7, <1>8 DEF Inv

LEMMA AroundKeeps ==
  ASSUME Inv, Around
  PROVE  Inv'
<1>1. CASE \E e \in Scored, d \in Deal : Announce(e, d)
  <2>1. PICK e \in Scored, d \in Deal : Announce(e, d)
    BY <1>1
  <2>2. e \in Entry /\ Send(e, d) /\ origin' = origin
    BY <2>1 DEF Entry, Announce
  <2> QED
    BY <2>2, SendKeeps DEF Inv, TypeOK
<1>2. CASE \E e \in Request, d \in Deal : Ask(e, d)
  <2>1. PICK e \in Request, d \in Deal : Ask(e, d)
    BY <1>2
  <2>2. e \in Entry /\ Send(e, d) /\ origin' = origin
    BY <2>1 DEF Entry, Ask
  <2> QED
    BY <2>2, SendKeeps DEF Inv, TypeOK
<1>3. CASE \E e, o \in Entry : SendAgain(e, o)
  <2>1. PICK e \in Entry, o \in Entry : SendAgain(e, o)
    BY <1>3
  <2>2. Send(e, body[o]) /\ origin' = [origin EXCEPT ![e] = o] /\ ~ Bus!IsNew(o)
    BY <2>1 DEF SendAgain
  <2>3. body[o] \in Deal /\ origin' \in [Entry -> Entry]
    BY <2>2 DEF Inv, BusInv, AddedHasDeal, TypeOK
  <2> QED
    BY <2>2, <2>3, SendKeeps
<1>4. CASE Tick
  <2>0. /\ clock < MaxTime /\ clock' = clock + 1
        /\ UNCHANGED <<waiting, held, settled, body, origin, refs, pc, job, batch, started,
                       seen, marks, answers, raised, faults>>
    BY <1>4 DEF Tick, busVars, work, effects
  <2>1. clock' \in Time /\ clock \in Nat /\ clock' = clock + 1
    BY <2>0, BoundAssumption DEF Inv, TypeOK, Time
  <2>2. TypeOK'
    BY <2>0, <2>1 DEF Inv, TypeOK
  <2>3. BusInv'
    BY <2>0 DEF Inv, BusInv, InOnePlace, AddedHasDeal, Bus!IsNew, JobIsHeld,
       JobHasItsKind, Out
  <2>4. WorkInv'
    <3>1. RefsAreTold' /\ AskedIsTold'
      BY <2>0 DEF Inv, WorkInv, RefsAreTold, AskedIsTold, Told, Out
    <3>2. \A w \in Worker : started[w] \in Nat /\ seen[w].at \in Nat
      BY DEF Inv, TypeOK, Time, Snapshot
    <3>3. ReadIsFresh'
      BY <2>0, <2>1, <3>2 DEF Inv, WorkInv, ReadIsFresh
    <3> QED
      BY <3>1, <3>3 DEF WorkInv
  <2>5. AnswerInv'
    BY <2>0 DEF Inv, AnswerInv, AnswersAreOut, NotYetAnswered, AnswersAreJudged,
       AnswersAreTold, AnswersAreFresh, AnsweredOnce, Told, Out
  <2> QED
    BY <2>2, <2>3, <2>4, <2>5 DEF Inv
<1> QED
  BY <1>1, <1>2, <1>3, <1>4 DEF Around

\* A worker that stops or starts takes nothing with it but its memory.
LEMMA QuietKeeps ==
  ASSUME Inv, NEW w \in Worker,
         pc' \in [Worker -> Steps], pc'[w] \in {"down", "idle"},
         \A v \in Worker : v # w => pc'[v] = pc[v],
         job' \in [Worker -> Entry \cup {NoEntry}], job'[w] = NoEntry,
         \A v \in Worker : v # w => job'[v] = job[v],
         batch' \in [Worker -> SUBSET Entry], batch'[w] = {},
         \A v \in Worker : v # w => batch'[v] = batch[v],
         refs' = refs \/ refs' = [refs EXCEPT ![w] = <<>>],
         raised' \in SUBSET Request, faults' \in 0 .. MaxFaults,
         UNCHANGED <<waiting, held, settled, body, origin, clock, started, seen,
                     marks, answers>>
  PROVE  Inv'
<1>1. TypeOK'
  <2>1. <<>> \in Seq(Deal) /\ Len(<<>>) = 0 /\ IsInjective(<<>>)
    BY DEF IsInjective
  <2>2. refs' \in [Worker -> Seq(Deal)]
    BY <2>1 DEF Inv, TypeOK
  <2>3. \A v \in Worker : refs'[v] = <<>> \/ refs'[v] = refs[v]
    BY DEF Inv, TypeOK
  <2>4. \A v \in Worker : Len(refs'[v]) <= MaxDeals /\ IsInjective(refs'[v])
    BY <2>1, <2>3, BoundAssumption DEF Inv, TypeOK
  <2> QED
    BY <2>2, <2>4 DEF Inv, TypeOK
<1>2. BusInv'
  BY DEF Inv, BusInv, InOnePlace, AddedHasDeal, Bus!IsNew, JobIsHeld, JobHasItsKind,
     Out, Reading
<1>3. WorkInv'
  <2>1. RefsAreTold'
    <3>1. \A v \in Worker : refs'[v] = <<>> \/ refs'[v] = refs[v]
      BY DEF Inv, TypeOK
    <3>2. ToSet(<<>>) = {}
      BY DEF ToSet
    <3>3. \A d : Told(d)' <=> Told(d)
      BY DEF Told, Out
    <3> QED
      BY <3>1, <3>2, <3>3 DEF Inv, WorkInv, RefsAreTold
  <2>2. AskedIsTold'
    BY DEF Inv, WorkInv, AskedIsTold, Told, Out, Reading
  <2>3. ReadIsFresh'
    BY DEF Inv, WorkInv, ReadIsFresh, Reading, HasRead
  <2> QED
    BY <2>1, <2>2, <2>3 DEF WorkInv
<1>4. AnswerInv'
  BY DEF Inv, AnswerInv, AnswersAreOut, NotYetAnswered, AnswersAreJudged,
     AnswersAreTold, AnswersAreFresh, AnsweredOnce, Told, Out, Reading
<1> QED
  BY <1>1, <1>2, <1>3, <1>4 DEF Inv

\* A worker goes on with its entry: what its next step needs is there.
LEMMA MoveKeeps ==
  ASSUME Inv, NEW w \in Worker, NEW to \in Steps \ {"down", "idle"},
         pc[w] \notin {"down", "idle"},
         pc' = [pc EXCEPT ![w] = to],
         marks' \in SUBSET Entry,
         started' \in [Worker -> Time], seen' \in [Worker -> Snapshot],
         \A v \in Worker : v # w => started'[v] = started[v] /\ seen'[v] = seen[v],
         to = "record" => job[w] \in Scored,
         to \in Reading \cup {"lookup"} => job[w] \in Request /\ started'[w] <= clock,
         to \in Reading => Told(body[job[w]]),
         to \in HasRead => started'[w] <= seen'[w].at /\ seen'[w].at <= clock,
         to \in HasRead \ {"judge"} => seen'[w].at < started'[w] + Budget,
         to \in Reading \cup {"lookup", "check"} =>
           pc[w] \in Reading \cup {"lookup", "check"},
         UNCHANGED <<waiting, held, settled, origin, body, clock, refs, job, batch,
                     answers, raised, faults>>
  PROVE  Inv'
<1>1. /\ pc' \in [Worker -> Steps] /\ pc'[w] = to
      /\ \A v \in Worker : v # w => pc'[v] = pc[v]
  BY DEF Inv, TypeOK
<1>2. TypeOK'
  BY <1>1 DEF Inv, TypeOK
<1>3. BusInv'
  <2>1. InOnePlace' /\ AddedHasDeal'
    BY DEF Inv, BusInv, InOnePlace, AddedHasDeal, Bus!IsNew, Out
  <2>2. JobIsHeld'
    BY <1>1 DEF Inv, BusInv, JobIsHeld
  <2>3. JobHasItsKind'
    BY <1>1 DEF Inv, BusInv, JobHasItsKind
  <2> QED
    BY <2>1, <2>2, <2>3 DEF BusInv
<1>4. WorkInv'
  <2>1. \A d : Told(d) => Told(d)'
    BY DEF Told, Out
  <2>2. RefsAreTold'
    BY <2>1 DEF Inv, WorkInv, RefsAreTold
  <2>3. AskedIsTold'
    BY <1>1, <2>1 DEF Inv, WorkInv, AskedIsTold
  <2>4. ReadIsFresh'
    BY <1>1 DEF Inv, WorkInv, ReadIsFresh, Reading, HasRead
  <2> QED
    BY <2>2, <2>3, <2>4 DEF WorkInv
<1>5. AnswerInv'
  <2>1. NotYetAnswered'
    BY <1>1 DEF Inv, AnswerInv, NotYetAnswered
  <2> QED
    BY <2>1 DEF Inv, AnswerInv, AnswersAreOut, AnswersAreJudged, AnswersAreTold,
       AnswersAreFresh, AnsweredOnce, Told, Out
<1> QED
  BY <1>2, <1>3, <1>4, <1>5 DEF Inv

LEMMA StartKeeps ==
  ASSUME Inv, NEW w \in Worker, Start(w)
  PROVE  Inv'
<1>1. /\ pc[w] = "down" /\ pc' = [pc EXCEPT ![w] = "idle"]
      /\ refs' = [refs EXCEPT ![w] = << >>]
      /\ UNCHANGED <<waiting, held, settled, origin, body, clock, job, batch, started,
                     seen, marks, answers, raised, faults>>
  BY DEF Start, busVars, effects
<1>2. job[w] = NoEntry /\ batch[w] = {}
  BY <1>1 DEF Inv, BusInv, JobIsHeld
<1>3. /\ pc' \in [Worker -> Steps] /\ pc'[w] = "idle"
      /\ \A v \in Worker : v # w => pc'[v] = pc[v]
      /\ job' \in [Worker -> Entry \cup {NoEntry}]
      /\ batch' \in [Worker -> SUBSET Entry]
      /\ raised' \in SUBSET Request /\ faults' \in 0 .. MaxFaults
  BY <1>1 DEF Inv, TypeOK, Steps
<1> QED
  BY <1>1, <1>2, <1>3, QuietKeeps

LEMMA StopKeeps ==
  ASSUME Inv, NEW w \in Worker, Stopped(w),
         raised' \in SUBSET Request, faults' \in 0 .. MaxFaults,
         UNCHANGED <<waiting, held, settled, origin, body, clock, refs, started,
                     seen, marks, answers>>
  PROVE  Inv'
<1>1. /\ pc' \in [Worker -> Steps] /\ pc'[w] = "down"
      /\ \A v \in Worker : v # w => pc'[v] = pc[v]
      /\ job' \in [Worker -> Entry \cup {NoEntry}] /\ job'[w] = NoEntry
      /\ \A v \in Worker : v # w => job'[v] = job[v]
      /\ batch' \in [Worker -> SUBSET Entry] /\ batch'[w] = {}
      /\ \A v \in Worker : v # w => batch'[v] = batch[v]
  BY DEF Stopped, Now, Inv, TypeOK, Steps
<1> QED
  BY <1>1, QuietKeeps

LEMMA FailKeeps ==
  ASSUME Inv, NEW w \in Worker, Fail(w)
  PROVE  Inv'
<1>1. faults' \in 0 .. MaxFaults /\ raised' \in SUBSET Request
  BY BoundAssumption DEF Fail, effects, Inv, TypeOK
<1> QED
  BY <1>1, StopKeeps DEF Fail, busVars, effects

\* Whichever of the entries S that it holds w turns to, if any.
LEMMA TurnFacts ==
  ASSUME Inv, NEW w \in Worker, NEW S \in SUBSET Entry, Turn(w, S)
  PROVE  /\ pc' \in [Worker -> Steps] /\ pc'[w] \in {"idle", "check"}
         /\ job' \in [Worker -> Entry \cup {NoEntry}]
         /\ batch' \in [Worker -> SUBSET Entry]
         /\ pc'[w] = "idle" => job'[w] = NoEntry /\ batch'[w] = {}
         /\ pc'[w] = "check" => job'[w] \in S
         /\ batch'[w] \subseteq S /\ job'[w] \notin batch'[w]
         /\ \A v \in Worker : v # w =>
              pc'[v] = pc[v] /\ job'[v] = job[v] /\ batch'[v] = batch[v]
<1>1. /\ pc \in [Worker -> Steps] /\ job \in [Worker -> Entry \cup {NoEntry}]
      /\ batch \in [Worker -> SUBSET Entry]
  BY DEF Inv, TypeOK
<1>2. CASE S = {} /\ Now(w, "idle", NoEntry, {})
  BY <1>1, <1>2 DEF Now, Steps
<1>3. ASSUME NEW e \in S, Now(w, "check", e, S \ {e})
      PROVE  /\ pc' \in [Worker -> Steps] /\ pc'[w] = "check"
             /\ job' \in [Worker -> Entry \cup {NoEntry}] /\ job'[w] = e
             /\ batch' \in [Worker -> SUBSET Entry] /\ batch'[w] = S \ {e}
             /\ \A v \in Worker : v # w =>
                  pc'[v] = pc[v] /\ job'[v] = job[v] /\ batch'[v] = batch[v]
  BY <1>1, <1>3 DEF Now, Steps
<1> QED
  BY <1>2, <1>3 DEF Turn, InTurn

\* A worker that holds S and turns to it: nothing in S was answered.
LEMMA TurnKeeps ==
  ASSUME Inv, NEW w \in Worker, NEW S \in SUBSET Entry, Turn(w, S),
         waiting' \in SUBSET Entry, settled' \in SUBSET Entry,
         held' \in [Worker -> SUBSET Entry],
         \A v \in Worker : v # w => held'[v] = held[v],
         InOnePlace', S \subseteq held'[w],
         \A e \in Entry : (Out(e) => Out(e)') /\ (Bus!IsNew(e) => Bus!IsNew(e)'),
         \A a \in answers : a.request \notin S,
         UNCHANGED <<body, origin, clock, refs, started, seen, marks, answers,
                     raised, faults>>
  PROVE  Inv'
<1>1. /\ pc' \in [Worker -> Steps] /\ pc'[w] \in {"idle", "check"}
      /\ job' \in [Worker -> Entry \cup {NoEntry}]
      /\ batch' \in [Worker -> SUBSET Entry]
      /\ pc'[w] = "idle" => job'[w] = NoEntry /\ batch'[w] = {}
      /\ pc'[w] = "check" => job'[w] \in S
      /\ batch'[w] \subseteq S /\ job'[w] \notin batch'[w]
      /\ \A v \in Worker : v # w =>
           pc'[v] = pc[v] /\ job'[v] = job[v] /\ batch'[v] = batch[v]
  BY TurnFacts
<1>2. \A d : Told(d) => Told(d)'
  <2>1. \A s \in Scored : s \in Entry
    BY DEF Entry
  <2> QED
    BY <2>1 DEF Told
<1>3. TypeOK'
  BY <1>1 DEF Inv, TypeOK
<1>4. BusInv'
  <2>1. AddedHasDeal'
    BY DEF Inv, BusInv, AddedHasDeal
  <2>2. JobIsHeld'
    BY <1>1 DEF Inv, BusInv, JobIsHeld
  <2>3. JobHasItsKind'
    BY <1>1 DEF Inv, BusInv, JobHasItsKind, Reading
  <2> QED
    BY <2>1, <2>2, <2>3 DEF BusInv
<1>5. WorkInv'
  <2>1. RefsAreTold'
    BY <1>2 DEF Inv, WorkInv, RefsAreTold
  <2>2. AskedIsTold'
    <3>1. \A c : (\E s \in Scored : body[s] = c /\ Out(s)) =>
                   (\E s \in Scored : body'[s] = c /\ Out(s)')
      BY <1>2 DEF Told
    <3> QED
      BY <1>1, <3>1 DEF Inv, WorkInv, AskedIsTold, Told, Reading
  <2>3. ReadIsFresh'
    BY <1>1 DEF Inv, WorkInv, ReadIsFresh, Reading, HasRead
  <2> QED
    BY <2>1, <2>2, <2>3 DEF WorkInv
<1>6. AnswerInv'
  <2>1. AnswersAreOut'
    <3>1. \A a \in answers : a.request \in Entry
      BY DEF Inv, TypeOK, Answers, Entry
    <3> QED
      BY <3>1 DEF Inv, AnswerInv, AnswersAreOut
  <2>2. NotYetAnswered'
    BY <1>1 DEF Inv, AnswerInv, NotYetAnswered, Reading
  <2>3. AnswersAreTold'
    BY <1>2 DEF Inv, AnswerInv, AnswersAreTold
  <2>4. AnswersAreJudged' /\ AnswersAreFresh' /\ AnsweredOnce'
    BY DEF Inv, AnswerInv, AnswersAreJudged, AnswersAreFresh, AnsweredOnce
  <2> QED
    BY <2>1, <2>2, <2>3, <2>4 DEF AnswerInv
<1> QED
  BY <1>3, <1>4, <1>5, <1>6 DEF Inv

\* What a read() does to the bus.
LEMMA TakeFacts ==
  ASSUME Inv, NEW w \in Worker, Take(w)
  PROVE  /\ pc[w] = "idle"
         /\ NewEntries \subseteq waiting /\ NewEntries \subseteq Entry
         /\ waiting' = waiting \ NewEntries
         /\ held' \in [Worker -> SUBSET Entry] /\ held'[w] = held[w] \cup NewEntries
         /\ \A v \in Worker : v # w => held'[v] = held[v]
         /\ Turn(w, NewEntries)
         /\ UNCHANGED <<settled, body, origin, clock, refs, started, seen, marks,
                        answers, raised, faults>>
         /\ \A e \in NewEntries : ~ Out(e)
         /\ \A e : Out(e)' <=> Out(e) \/ e \in NewEntries
<1>1. NewEntries \subseteq waiting /\ NewEntries \subseteq Entry
  BY DEF NewEntries, Inv, TypeOK
<1> DEFINE S == NewEntries
<1>2. /\ pc[w] = "idle" /\ waiting' = waiting \ S
      /\ held' = [held EXCEPT ![w] = @ \cup S]
      /\ Turn(w, S)
      /\ UNCHANGED <<settled, body, origin, clock, refs, started, seen, marks,
                     answers, raised, faults>>
  BY DEF Take, Bus!Deliver, effects
<1> HIDE DEF S
<1>3. S \subseteq waiting /\ S \subseteq Entry
  BY <1>1 DEF S
<1>4. /\ held' \in [Worker -> SUBSET Entry] /\ held'[w] = held[w] \cup S
      /\ \A v \in Worker : v # w => held'[v] = held[v]
  BY <1>2, <1>3 DEF Inv, TypeOK
<1>5. \A e \in S : ~ Out(e)
  BY <1>3 DEF Inv, BusInv, InOnePlace
<1>6. \A e : Out(e)' <=> Out(e) \/ e \in S
  BY <1>2, <1>4 DEF Out
<1> QED
  BY <1>2, <1>3, <1>4, <1>5, <1>6 DEF S

LEMMA TakeKeeps ==
  ASSUME Inv, NEW w \in Worker, Take(w)
  PROVE  Inv'
<1> DEFINE S == NewEntries
<1>1. /\ S \subseteq waiting /\ S \in SUBSET Entry
      /\ waiting' = waiting \ S
      /\ held' \in [Worker -> SUBSET Entry] /\ held'[w] = held[w] \cup S
      /\ \A v \in Worker : v # w => held'[v] = held[v]
      /\ Turn(w, S)
      /\ UNCHANGED <<settled, body, origin, clock, refs, started, seen, marks,
                     answers, raised, faults>>
      /\ \A e \in S : ~ Out(e)
      /\ \A e : Out(e)' <=> Out(e) \/ e \in S
  BY TakeFacts
<1> HIDE DEF S
<1>2. InOnePlace'
  <2>1. \A e \in waiting' : ~ Out(e)'
    BY <1>1 DEF Inv, BusInv, InOnePlace
  <2>2. \A v \in Worker : held'[v] \cap settled' = {}
    BY <1>1 DEF Inv, BusInv, InOnePlace, Out
  <2>3. \A u, v \in Worker : u # v => held'[u] \cap held'[v] = {}
    BY <1>1 DEF Inv, BusInv, InOnePlace, Out
  <2> QED
    BY <2>1, <2>2, <2>3 DEF InOnePlace
<1>3. \A e \in Entry : Bus!IsNew(e) => Bus!IsNew(e)'
  BY <1>1, Places DEF Bus!IsNew
<1>4. \A a \in answers : a.request \notin S
  BY <1>1 DEF Inv, AnswerInv, AnswersAreOut
<1>5. waiting' \in SUBSET Entry /\ settled' \in SUBSET Entry /\ S \subseteq held'[w]
  BY <1>1 DEF Inv, TypeOK
<1> QED
  BY <1>1, <1>2, <1>3, <1>4, <1>5, TurnKeeps


LEMMA CheckMarkKeeps ==
  ASSUME Inv, NEW w \in Worker, CheckMark(w)
  PROVE  Inv'
<1>0. /\ pc[w] = "check"
      /\ UNCHANGED <<waiting, held, settled, origin, body, clock, refs, job, batch, seen,
                     marks, answers, raised, faults>>
  BY DEF CheckMark, Goto, busVars, effects
<1>1. /\ marks' \in SUBSET Entry /\ seen' \in [Worker -> Snapshot]
      /\ clock \in Time /\ started \in [Worker -> Time] /\ clock <= clock
  BY <1>0, BoundAssumption DEF Inv, TypeOK, Time
<1>2. CASE Goto(w, "commit") /\ UNCHANGED started
  BY <1>0, <1>1, <1>2, MoveKeeps DEF Goto, Steps, Reading, HasRead
<1>3. CASE job[w] \in Scored /\ Goto(w, "record") /\ UNCHANGED started
  BY <1>0, <1>1, <1>3, MoveKeeps DEF Goto, Steps, Reading, HasRead
<1>4. CASE /\ job[w] \in Request
           /\ Goto(w, "lookup")
           /\ started' = [started EXCEPT ![w] = clock]
  BY <1>0, <1>1, <1>4, MoveKeeps DEF Goto, Steps, Reading, HasRead
<1> QED
  BY <1>2, <1>3, <1>4 DEF CheckMark

LEMMA RecordKeeps ==
  ASSUME Inv, NEW w \in Worker, Record(w)
  PROVE  Inv'
<1>0. /\ pc[w] = "record"
      /\ refs' = [refs EXCEPT ![w] = Remember(@, body[job[w]])]
      /\ pc' = [pc EXCEPT ![w] = "commit"]
      /\ UNCHANGED <<waiting, held, settled, origin, body, clock, job, batch, started,
                     seen, marks, answers, raised, faults>>
  BY DEF Record, Goto, busVars, effects
<1> DEFINE d == body[job[w]]
           r == Remember(refs[w], d)
<1>1. job[w] \in Scored /\ Out(job[w]) /\ d \in Deal
  BY <1>0, Job DEF Inv, BusInv, JobHasItsKind
<1>2. /\ r \in Seq(Deal) /\ IsInjective(r) /\ Len(r) <= MaxDeals
      /\ ToSet(r) \subseteq ToSet(refs[w]) \cup {d}
  BY <1>1, RememberLemma DEF Inv, TypeOK
<1>3. /\ pc' \in [Worker -> Steps] /\ pc'[w] = "commit"
      /\ \A v \in Worker : v # w => pc'[v] = pc[v]
  BY <1>0 DEF Inv, TypeOK, Steps
<1>4. refs'[w] = r /\ \A v \in Worker : v # w => refs'[v] = refs[v]
  BY <1>0 DEF Inv, TypeOK
<1>5. TypeOK'
  <2>1. refs' \in [Worker -> Seq(Deal)]
    BY <1>0, <1>2 DEF Inv, TypeOK
  <2>2. \A v \in Worker : Len(refs'[v]) <= MaxDeals /\ IsInjective(refs'[v])
    BY <1>2, <1>4 DEF Inv, TypeOK
  <2> QED
    BY <1>0, <1>3, <2>1, <2>2 DEF Inv, TypeOK
<1>6. BusInv'
  BY <1>0, <1>3 DEF Inv, BusInv, InOnePlace, AddedHasDeal, Bus!IsNew, JobIsHeld,
     JobHasItsKind, Out, Reading
<1>7. WorkInv'
  <2>1. \A c : Told(c)' <=> Told(c)
    BY <1>0 DEF Told, Out
  <2>2. Told(d)
    BY <1>1 DEF Told
  <2>3. RefsAreTold'
    BY <1>2, <1>4, <2>1, <2>2 DEF Inv, WorkInv, RefsAreTold
  <2>4. AskedIsTold' /\ ReadIsFresh'
    BY <1>0, <1>3 DEF Inv, WorkInv, AskedIsTold, ReadIsFresh, Told, Out, Reading,
       HasRead
  <2> QED
    BY <2>3, <2>4 DEF WorkInv
<1>8. AnswerInv'
  BY <1>0, <1>3 DEF Inv, AnswerInv, AnswersAreOut, NotYetAnswered, AnswersAreJudged,
     AnswersAreTold, AnswersAreFresh, AnsweredOnce, Told, Out, Reading
<1> QED
  BY <1>5, <1>6, <1>7, <1>8 DEF Inv

LEMMA LookupKeeps ==
  ASSUME Inv, NEW w \in Worker, Lookup(w)
  PROVE  Inv'
<1>0. /\ pc[w] = "lookup"
      /\ UNCHANGED <<waiting, held, settled, origin, body, clock, refs, started, seen,
                     marks, answers, faults>>
  BY DEF Lookup, busVars
<1>1. job[w] \in Request /\ started[w] <= clock
  BY <1>0 DEF Inv, BusInv, WorkInv, JobHasItsKind, ReadIsFresh, Reading, HasRead
<1>2. CASE /\ body[job[w]] \in ToSet(refs[w])
           /\ Goto(w, "admit")
           /\ UNCHANGED raised
  <2>1. Told(body[job[w]])
    BY <1>2 DEF Inv, WorkInv, RefsAreTold
  <2>2. /\ marks' \in SUBSET Entry /\ seen' \in [Worker -> Snapshot]
        /\ started' \in [Worker -> Time] /\ started'[w] <= clock
    BY <1>0, <1>1 DEF Inv, TypeOK
  <2> QED
    BY <1>0, <1>1, <1>2, <2>1, <2>2, MoveKeeps DEF Goto, Steps, Reading, HasRead
<1>3. CASE raised' = raised \cup {job[w]} /\ Stopped(w)
  <2>1. raised' \in SUBSET Request /\ faults' \in 0 .. MaxFaults
    BY <1>0, <1>1, <1>3 DEF Inv, TypeOK
  <2> QED
    BY <1>0, <1>3, <2>1, StopKeeps
<1> QED
  BY <1>2, <1>3 DEF Lookup

LEMMA ReadKeeps ==
  ASSUME Inv, NEW w \in Worker, Read(w)
  PROVE  Inv'
<1>0. /\ pc[w] = "read"
      /\ UNCHANGED <<waiting, held, settled, origin, body, clock, refs, job, batch,
                     started, marks, answers, raised, faults>>
  BY DEF Read, Goto, busVars, effects
<1>1. /\ job[w] \in Request /\ started[w] <= clock /\ Told(body[job[w]])
      /\ marks' \in SUBSET Entry /\ started' \in [Worker -> Time]
      /\ started[w] \in Nat /\ clock \in Nat /\ clock \in Time
  BY <1>0 DEF Inv, BusInv, WorkInv, JobHasItsKind, AskedIsTold, ReadIsFresh, Reading,
     TypeOK, Time
<1>2. CASE Goto(w, "commit") /\ UNCHANGED seen
  <2>1. seen' \in [Worker -> Snapshot]
    BY <1>2 DEF Inv, TypeOK
  <2> QED
    BY <1>0, <1>1, <1>2, <2>1, MoveKeeps DEF Goto, Steps, Reading, HasRead
<1>3. ASSUME NEW p \in LivePrice, NEW b \in BOOLEAN,
             seen' = [seen EXCEPT ![w] = [price |-> p, in_stock |-> b, at |-> clock]],
             Goto(w, "judge")
      PROVE  Inv'
  <2>1. /\ seen' \in [Worker -> Snapshot] /\ seen'[w].at = clock
        /\ \A v \in Worker : v # w => seen'[v] = seen[v]
    BY <1>1, <1>3 DEF Inv, TypeOK, Snapshot
  <2>2. started'[w] <= seen'[w].at /\ seen'[w].at <= clock
    BY <1>0, <1>1, <2>1
  <2>3. started'[w] <= clock /\ \A v \in Worker : v # w => started'[v] = started[v]
    BY <1>0, <1>1
  <2> QED
    BY <1>0, <1>1, <1>3, <2>1, <2>2, <2>3, MoveKeeps DEF Goto, Steps, Reading, HasRead
<1> QED
  BY <1>2, <1>3 DEF Read


\* Three times the budget is asked; the second is the one that throws away
\* what was read too late.
LEMMA OnTimeKeeps ==
  ASSUME Inv, NEW w \in Worker, Admit(w) \/ Judge(w) \/ Recheck(w)
  PROVE  Inv'
<1>0. PICK to \in {"commit", "read", "recheck", "send"} :
        /\ pc[w] \in {"admit", "judge", "recheck"} /\ pc' = [pc EXCEPT ![w] = to]
        /\ to = "recheck" => pc[w] = "judge" /\ ~ Expired(w)
        /\ to = "send" => pc[w] = "recheck"
  BY DEF Admit, Judge, Recheck, OnTime, Goto
<1>1. UNCHANGED <<waiting, held, settled, origin, body, clock, refs, job, batch,
                  started, seen, marks, answers, raised, faults>>
  BY DEF Admit, Judge, Recheck, OnTime, Goto, busVars, effects
<1>2. /\ job[w] \in Request /\ started[w] <= clock /\ Told(body[job[w]])
      /\ pc[w] \in HasRead => started[w] <= seen[w].at /\ seen[w].at <= clock
      /\ pc[w] = "recheck" => seen[w].at < started[w] + Budget
  BY <1>0 DEF Inv, BusInv, WorkInv, JobHasItsKind, AskedIsTold, ReadIsFresh, Reading,
     HasRead
<1>3. /\ marks' \in SUBSET Entry /\ started' \in [Worker -> Time]
      /\ seen' \in [Worker -> Snapshot]
  BY <1>1 DEF Inv, TypeOK
<1>4. to = "recheck" => seen[w].at < started[w] + Budget
  <2>1. clock \in Nat /\ started[w] \in Nat /\ seen[w].at \in Nat /\ Budget \in Nat
    BY BoundAssumption DEF Inv, TypeOK, Time, Snapshot
  <2> QED
    BY <1>0, <1>2, <2>1 DEF Expired, HasRead
<1> QED
  BY <1>0, <1>1, <1>2, <1>3, <1>4, MoveKeeps DEF Steps, Reading, HasRead


LEMMA CommitKeeps ==
  ASSUME Inv, NEW w \in Worker, Commit(w)
  PROVE  Inv'
<1>0. /\ pc[w] = "commit"
      /\ marks' = marks \cup {origin[job[w]]}
      /\ pc' = [pc EXCEPT ![w] = "ack"]
      /\ UNCHANGED <<waiting, held, settled, origin, body, clock, refs, job, batch, started,
                     seen, answers, raised, faults>>
  BY DEF Commit, Goto, busVars
<1>1. job[w] \in Entry
  BY <1>0, Job
<1>2. /\ marks' \in SUBSET Entry /\ started' \in [Worker -> Time]
      /\ seen' \in [Worker -> Snapshot]
  BY <1>0, <1>1 DEF Inv, TypeOK
<1> QED
  BY <1>0, <1>2, MoveKeeps DEF Steps, Reading, HasRead

LEMMA AnswerKeeps ==
  ASSUME Inv, NEW w \in Worker, Answer(w)
  PROVE  Inv'
<1> DEFINE d == body[job[w]]
           a == [request |-> job[w], deal |-> d,
                 price |-> seen[w].price, in_stock |-> seen[w].in_stock,
                 changed |-> Changed(Detected[d], seen[w]),
                 at |-> seen[w].at, started |-> started[w]]
<1>0. /\ pc[w] = "send"
      /\ answers' = answers \cup {a}
      /\ pc' = [pc EXCEPT ![w] = "commit"]
      /\ UNCHANGED <<waiting, held, settled, origin, body, clock, refs, job, batch, started,
                     seen, marks, raised, faults>>
  BY DEF Answer, Goto, busVars, effects
<1>1. /\ job[w] \in Request /\ job[w] \in held[w] /\ Out(job[w]) /\ d \in Deal
      /\ Told(d)
      /\ started[w] <= seen[w].at /\ seen[w].at < started[w] + Budget
      /\ \A b \in answers : b.request # job[w]
  BY <1>0, Job DEF Inv, BusInv, WorkInv, AnswerInv, JobHasItsKind, AskedIsTold,
     ReadIsFresh, NotYetAnswered, Reading, HasRead
<1>2. /\ seen[w] \in Snapshot /\ started[w] \in Time
      /\ Changed(Detected[d], seen[w]) \in BOOLEAN
  BY DEF Inv, TypeOK, Changed
<1>3. a \in Answers
  BY <1>1, <1>2 DEF Answers, Snapshot
<1>4. /\ pc' \in [Worker -> Steps] /\ pc'[w] = "commit"
      /\ \A v \in Worker : v # w => pc'[v] = pc[v]
  BY <1>0 DEF Inv, TypeOK, Steps
<1>5. /\ a.request = job[w] /\ a.deal = d /\ a.started = started[w] /\ a.at = seen[w].at
      /\ a.price = seen[w].price /\ a.in_stock = seen[w].in_stock
      /\ a.changed = Changed(Detected[d], seen[w])
  OBVIOUS
<1> HIDE DEF a
<1>6. TypeOK'
  BY <1>0, <1>3, <1>4 DEF Inv, TypeOK
<1>7. BusInv'
  BY <1>0, <1>4 DEF Inv, BusInv, InOnePlace, AddedHasDeal, Bus!IsNew, JobIsHeld,
     JobHasItsKind, Out, Reading
<1>8. WorkInv'
  BY <1>0, <1>4 DEF Inv, WorkInv, RefsAreTold, AskedIsTold, ReadIsFresh, Told, Out,
     Reading, HasRead
<1>9. AnswerInv'
  <2>1. AnswersAreOut'
    BY <1>0, <1>1, <1>5 DEF Inv, AnswerInv, AnswersAreOut, Out
  <2>2. NotYetAnswered'
    <3>1. ASSUME NEW v \in Worker, v # w, pc[v] \in Reading \cup {"lookup", "check"}
          PROVE  job[v] # job[w]
      BY <1>1, <3>1, Job DEF Inv, BusInv, InOnePlace, Reading
    <3>2. ASSUME NEW v \in Worker PROVE job[w] \notin batch[v]
      BY <1>1 DEF Inv, BusInv, InOnePlace, JobIsHeld
    <3> QED
      BY <1>0, <1>4, <1>5, <3>1, <3>2 DEF Inv, AnswerInv, NotYetAnswered, Reading
  <2>3. AnswersAreJudged'
    <3>1. ~ a.changed <=> a.in_stock /\ WithinTolerance(Detected[a.deal], a.price)
      BY <1>2, <1>5 DEF Changed, Snapshot
    <3> QED
      BY <1>0, <1>5, <3>1 DEF Inv, AnswerInv, AnswersAreJudged
  <2>4. AnswersAreTold'
    BY <1>0, <1>1, <1>5 DEF Inv, AnswerInv, AnswersAreTold, Told, Out
  <2>5. AnswersAreFresh'
    <3>1. a.started <= a.at /\ a.at - a.started < Budget
      <4>1. seen[w].at \in Nat /\ started[w] \in Nat
        BY <1>2 DEF Snapshot, Time
      <4> QED
        BY <1>1, <1>5, <4>1, BoundAssumption
    <3> QED
      BY <1>0, <3>1 DEF Inv, AnswerInv, AnswersAreFresh
  <2>6. AnsweredOnce'
    BY <1>0, <1>1, <1>5 DEF Inv, AnswerInv, AnsweredOnce
  <2> QED
    BY <2>1, <2>2, <2>3, <2>4, <2>5, <2>6 DEF AnswerInv
<1> QED
  BY <1>6, <1>7, <1>8, <1>9 DEF Inv

\* What an acknowledgement does to the bus.
LEMMA AckFacts ==
  ASSUME Inv, NEW w \in Worker, Ack(w)
  PROVE  /\ pc[w] = "ack" /\ job[w] \in held[w] /\ job[w] \in Entry
         /\ settled' = settled \cup {job[w]}
         /\ held' \in [Worker -> SUBSET Entry] /\ held'[w] = held[w] \ {job[w]}
         /\ \A v \in Worker : v # w => held'[v] = held[v]
         /\ batch[w] \in SUBSET Entry /\ batch[w] \subseteq held'[w]
         /\ Turn(w, batch[w])
         /\ UNCHANGED <<waiting, body, origin, clock, refs, started, seen, marks,
                        answers, raised, faults>>
         /\ \A e : Out(e)' <=> Out(e)
<1>1. /\ pc[w] = "ack" /\ job[w] \in held[w]
      /\ held' = [held EXCEPT ![w] = @ \ {job[w]}]
      /\ settled' = settled \cup {job[w]}
      /\ Turn(w, batch[w])
      /\ UNCHANGED <<waiting, body, origin, clock, refs, started, seen, marks,
                     answers, raised, faults>>
  BY DEF Ack, Bus!Settle, effects
<1>2. /\ held' \in [Worker -> SUBSET Entry] /\ held'[w] = held[w] \ {job[w]}
      /\ \A v \in Worker : v # w => held'[v] = held[v]
      /\ job[w] \in Entry
  BY <1>1 DEF Inv, TypeOK
<1>3. \A e : Out(e)' <=> Out(e)
  BY <1>1, <1>2 DEF Out
<1>4. batch[w] \in SUBSET Entry /\ batch[w] \subseteq held'[w]
  BY <1>2 DEF Inv, TypeOK, BusInv, JobIsHeld
<1> QED
  BY <1>1, <1>2, <1>3, <1>4

LEMMA AckKeeps ==
  ASSUME Inv, NEW w \in Worker, Ack(w)
  PROVE  Inv'
<1>1. /\ pc[w] = "ack" /\ job[w] \in held[w] /\ job[w] \in Entry
      /\ settled' = settled \cup {job[w]}
      /\ held' \in [Worker -> SUBSET Entry] /\ held'[w] = held[w] \ {job[w]}
      /\ \A v \in Worker : v # w => held'[v] = held[v]
      /\ batch[w] \in SUBSET Entry /\ batch[w] \subseteq held'[w]
      /\ Turn(w, batch[w])
      /\ UNCHANGED <<waiting, body, origin, clock, refs, started, seen, marks,
                     answers, raised, faults>>
      /\ \A e : Out(e)' <=> Out(e)
  BY AckFacts
<1>2. InOnePlace'
  <2>1. \A e \in waiting' : ~ Out(e)'
    BY <1>1 DEF Inv, BusInv, InOnePlace
  <2>2. \A v \in Worker : held'[v] \cap settled' = {}
    BY <1>1 DEF Inv, BusInv, InOnePlace
  <2>3. \A u, v \in Worker : u # v => held'[u] \cap held'[v] = {}
    BY <1>1 DEF Inv, BusInv, InOnePlace
  <2> QED
    BY <2>1, <2>2, <2>3 DEF InOnePlace
<1>3. \A e \in Entry : Bus!IsNew(e) => Bus!IsNew(e)'
  <2>1. \A e \in Entry : Bus!IsNew(e)' <=> e \notin waiting' /\ ~ Out(e)'
    BY DEF Bus!IsNew, Out
  <2> QED
    BY <1>1, <2>1, Places
<1>4. \A a \in answers : a.request \notin batch[w]
  BY DEF Inv, AnswerInv, NotYetAnswered
<1>5. waiting' \in SUBSET Entry /\ settled' \in SUBSET Entry
  BY <1>1 DEF Inv, TypeOK
<1> QED
  BY <1>1, <1>2, <1>3, <1>4, <1>5, TurnKeeps


LEMMA StutterKeeps ==
  ASSUME Inv, UNCHANGED vars
  PROVE  Inv'
<1>0. UNCHANGED <<waiting, held, settled, body, origin, clock, refs, pc, job, batch, started,
                  seen, marks, answers, raised, faults>>
  BY DEF vars, busVars, work, effects
<1>1. TypeOK' /\ BusInv'
  BY <1>0 DEF Inv, TypeOK, BusInv, InOnePlace, AddedHasDeal, Bus!IsNew, JobIsHeld,
     JobHasItsKind, Out
<1>2. WorkInv' /\ AnswerInv'
  BY <1>0 DEF Inv, WorkInv, RefsAreTold, AskedIsTold, ReadIsFresh, Told, Out, AnswerInv,
     AnswersAreOut, NotYetAnswered, AnswersAreJudged, AnswersAreTold, AnswersAreFresh,
     AnsweredOnce
<1> QED
  BY <1>1, <1>2 DEF Inv

LEMMA NextKeeps ==
  ASSUME Inv, [Next]_vars
  PROVE  Inv'
<1>1. CASE Around
  BY <1>1, AroundKeeps
<1>2. ASSUME NEW w \in Worker, Work(w)
      PROVE  Inv'
  BY <1>2, StartKeeps, TakeKeeps, CheckMarkKeeps, RecordKeeps, LookupKeeps, ReadKeeps,
     OnTimeKeeps, AnswerKeeps, CommitKeeps, AckKeeps DEF Work
<1>3. CASE \E w \in Worker : Fail(w)
  BY <1>3, FailKeeps
<1>4. CASE UNCHANGED vars
  BY <1>4, StutterKeeps
<1> QED
  BY <1>1, <1>2, <1>3, <1>4 DEF Next

-----------------------------------------------------------------------------
(***************************************************************************)
(* The invariant holds in every reachable state.                           *)
(***************************************************************************)
THEOREM InvHolds == Spec => []Inv
<1>1. Init => Inv
  BY InitInv
<1>2. Inv /\ [Next]_vars => Inv'
  BY NextKeeps
<1> QED
  BY <1>1, <1>2, PTL DEF Spec

\* Type correctness; a projection never outgrows its cap and never holds a
\* deal twice (DealReferenceStore).
THEOREM TypeCorrect == Spec => []TypeOK
<1>1. Inv => TypeOK
  BY DEF Inv
<1> QED
  BY <1>1, InvHolds, PTL

\* An answer is about the deal that was asked for, and that deal's
\* announcement was delivered (handle_deal_revalidation_request).
THEOREM GroundedAnswers == Spec => []AnswersAreGrounded
<1>1. ASSUME Inv PROVE AnswersAreGrounded
  <2>1. \A s \in Scored : Out(s) => Handled(s)
    <3>1. ASSUME NEW s \in Scored, Out(s) PROVE Handled(s)
      <4>1. s \in Entry /\ s \notin waiting
        BY <1>1, <3>1 DEF Entry, Inv, BusInv, InOnePlace
      <4> QED
        BY <3>1, <4>1, Places DEF Handled
    <3> QED
      BY <3>1
  <2> QED
    BY <1>1, <2>1 DEF Inv, AnswerInv, AnswersAreJudged, AnswersAreTold, Told,
       AnswersAreGrounded
<1> QED
  BY <1>1, InvHolds, PTL

\* What an answer says was read inside its budget, whatever time the read took:
\* what came back too late was thrown away (revalidate).
THEOREM FreshAnswers == Spec => []AnswersAreFresh
<1>1. Inv => AnswersAreFresh
  BY DEF Inv, AnswerInv
<1> QED
  BY <1>1, InvHolds, PTL

\* No entry is answered twice, whatever fails between publish and mark.
THEOREM OneAnswer == Spec => []AnsweredOnce
<1>1. Inv => AnsweredOnce
  BY DEF Inv, AnswerInv
<1> QED
  BY <1>1, InvHolds, PTL

\* For every price, the band the answers go by is exactly 98% to 102% of the
\* announced price (price_within_tolerance, revalidation_changed).
THEOREM TwoPercentHolds == Spec => []TwoPercentIsTheLine
<1>1. ASSUME NEW p \in Nat, NEW q \in Nat
      PROVE  WithinTolerance(q, p) <=> InBand(p, q)
  BY DEF WithinTolerance, InBand
<1>2. ASSUME Inv, NEW a \in answers, NEW s \in Scored, body[s] = body[a.request]
      PROVE  ~ a.changed <=> a.in_stock /\ InBand(a.price, Detected[body[s]])
  <2>1. a.price \in Nat /\ a.deal \in Deal
    BY <1>2, BoundAssumption DEF Inv, TypeOK, Answers
  <2>2. Detected[a.deal] \in Nat
    BY <2>1, BoundAssumption
  <2>3. a.deal = body[s]
    BY <1>2 DEF Inv, AnswerInv, AnswersAreJudged
  <2>4. WithinTolerance(Detected[a.deal], a.price) <=> InBand(a.price, Detected[a.deal])
    BY <1>1, <2>1, <2>2
  <2> QED
    BY <1>2, <2>3, <2>4 DEF Inv, AnswerInv, AnswersAreJudged
<1>3. Inv => TwoPercentIsTheLine
  BY <1>2 DEF TwoPercentIsTheLine
<1> QED
  BY <1>3, InvHolds, PTL

\* A sequence without repetition has as many members as places.
LEMMA DistinctMembers ==
  ASSUME NEW q \in Seq(Deal), IsInjective(q)
  PROVE  Cardinality(ToSet(q)) = Len(q)
<1>1. q \in [1 .. Len(q) -> ToSet(q)]
  BY DEF ToSet
<1>2. q \in Injection(1 .. Len(q), ToSet(q))
  BY <1>1 DEF Injection, IsInjective
<1>3. q \in Surjection(1 .. Len(q), ToSet(q))
  BY <1>1 DEF Surjection, ToSet
<1>4. ExistsBijection(1 .. Len(q), ToSet(q))
  BY <1>2, <1>3 DEF ExistsBijection, Bijection
<1> QED
  BY <1>4, FS_CountingElements

-----------------------------------------------------------------------------
(***************************************************************************)
(* How many answers the copies of one request can get.  As long as the     *)
(* mark of m is not in, whoever answered m is still about to mark it or    *)
(* failed.  So when the mark commits there are at most so many answers,    *)
(* and only the workers that looked before it may still add one each.      *)
(***************************************************************************)
Committing(m) == {w \in Worker : pc[w] = "commit" /\ origin[job[w]] = m}

Answering(m) ==
  {w \in Worker : pc[w] \in Reading \cup {"lookup"} /\ origin[job[w]] = m}

Counted(m) ==
  /\ IsFiniteSet(Answered(m))
  /\ m \notin marks =>
       Cardinality(Answered(m)) <= Cardinality(Committing(m)) + faults
  /\ Cardinality(Answered(m)) + Cardinality(Answering(m))
       <= Cardinality(Worker) + faults

LEMMA FewWorkers ==
  ASSUME NEW S \in SUBSET Worker, NEW T \in SUBSET S
  PROVE  /\ IsFiniteSet(S) /\ IsFiniteSet(T)
         /\ Cardinality(S) \in Nat /\ Cardinality(T) \in Nat
         /\ Cardinality(T) <= Cardinality(S)
         /\ Cardinality(S) <= Cardinality(Worker)
         /\ Cardinality(Worker) \in Nat
<1>1. IsFiniteSet(S) /\ Cardinality(S) <= Cardinality(Worker)
  BY WorkerAssumption, FS_Subset
<1>2. IsFiniteSet(T) /\ Cardinality(T) <= Cardinality(S)
  BY <1>1, FS_Subset
<1> QED
  BY <1>1, <1>2, WorkerAssumption, FS_CardinalityType

\* Two sets of workers that have nobody in common.
LEMMA ApartWorkers ==
  ASSUME NEW S \in SUBSET Worker, NEW T \in SUBSET Worker, S \cap T = {}
  PROVE  Cardinality(S) + Cardinality(T) <= Cardinality(Worker)
<1>1. /\ IsFiniteSet(S) /\ IsFiniteSet(T) /\ IsFiniteSet(S \cup T)
      /\ Cardinality(S) \in Nat /\ Cardinality(T) \in Nat
      /\ Cardinality(S \cup T) <= Cardinality(Worker)
  BY FewWorkers
<1>2. Cardinality(S \cup T) = Cardinality(S) + Cardinality(T) - Cardinality(S \cap T)
  BY <1>1, FS_Union
<1> QED
  BY <1>1, <1>2, FS_EmptySet

LEMMA CountTypes ==
  ASSUME Inv, NEW m \in Request, Counted(m)
  PROVE  /\ Cardinality(Answered(m)) \in Nat
         /\ Cardinality(Committing(m)) \in Nat
         /\ Cardinality(Answering(m)) \in Nat
         /\ Cardinality(Worker) \in Nat
         /\ faults \in Nat
         /\ Committing(m) \subseteq Worker
         /\ Answering(m) \subseteq Worker
<1>1. Committing(m) \subseteq Worker /\ Answering(m) \subseteq Worker
  BY DEF Committing, Answering
<1> QED
  BY <1>1, FewWorkers, FS_CardinalityType, BoundAssumption DEF Inv, TypeOK, Counted

\* Nobody answers, and nobody starts to; of those that are about to mark,
\* some may fail, each with its fault.
LEMMA NoAnswer ==
  ASSUME Inv, NEW m \in Request, Counted(m), Answered(m)' = Answered(m),
         Answering(m)' \subseteq Answering(m), marks \subseteq marks',
         \/ Committing(m) \subseteq Committing(m)' /\ faults' = faults
         \/ m \in marks' /\ faults' = faults
         \/ /\ \E w \in Worker : Committing(m) \ {w} \subseteq Committing(m)'
            /\ faults' = faults + 1
  PROVE  Counted(m)'
<1>1. /\ Cardinality(Answering(m)') \in Nat
      /\ Cardinality(Answering(m)') <= Cardinality(Answering(m))
  BY CountTypes, FewWorkers
<1>2. Cardinality(Committing(m)') \in Nat /\ Committing(m)' \subseteq Worker
  <2>1. Committing(m)' \subseteq Worker
    BY DEF Committing
  <2> QED
    BY <2>1, FewWorkers
<1>3. CASE Committing(m) \subseteq Committing(m)' /\ faults' = faults
  <2>1. Cardinality(Committing(m)) <= Cardinality(Committing(m)')
    BY <1>2, <1>3, FewWorkers
  <2> QED
    BY <1>1, <1>2, <1>3, <2>1, CountTypes DEF Counted
<1>4. CASE m \in marks' /\ faults' = faults
  BY <1>1, <1>4, CountTypes DEF Counted
<1>5. ASSUME NEW w \in Worker, Committing(m) \ {w} \subseteq Committing(m)',
             faults' = faults + 1
      PROVE  Counted(m)'
  <2>1. /\ Cardinality(Committing(m) \ {w}) >= Cardinality(Committing(m)) - 1
        /\ Cardinality(Committing(m) \ {w}) \in Nat
        /\ Cardinality(Committing(m) \ {w}) <= Cardinality(Committing(m)')
    <3>1. Committing(m) \subseteq Worker /\ Cardinality(Committing(m)) \in Nat
      BY CountTypes
    <3>2. IsFiniteSet(Committing(m))
      BY <3>1, FewWorkers
    <3>3. Cardinality(Committing(m) \ {w})
            = IF w \in Committing(m) THEN Cardinality(Committing(m)) - 1
              ELSE Cardinality(Committing(m))
      BY <3>2, FS_RemoveElement
    <3>4. /\ Cardinality(Committing(m) \ {w}) \in Nat
          /\ Cardinality(Committing(m) \ {w}) <= Cardinality(Committing(m)')
      BY <1>2, <1>5, FewWorkers
    <3> QED
      BY <3>1, <3>3, <3>4
  <2> QED
    BY <1>1, <1>2, <1>5, <2>1, CountTypes DEF Counted
<1> QED
  BY <1>3, <1>4, <1>5

\* An answer: its worker is about to mark, and does not answer again.
LEMMA OneMoreAnswer ==
  ASSUME Inv, NEW w \in Worker, Answer(w), NEW m \in Request, Counted(m),
         origin[job[w]] = m
  PROVE  Counted(m)'
<1>1. PICK a : answers' = answers \cup {a}
  BY DEF Answer
<1>2. Answered(m)' = Answered(m) \cup {a} \/ Answered(m)' = Answered(m)
  BY <1>1 DEF Answer, Answered, busVars
<1>3. /\ Answering(m)' = Answering(m) \ {w} /\ w \in Answering(m)
      /\ Committing(m)' = Committing(m) \cup {w} /\ w \notin Committing(m)
      /\ faults' = faults /\ marks' = marks
  BY DEF Answer, Answering, Committing, Goto, Reading, Inv, TypeOK, busVars
<1>4. /\ IsFiniteSet(Answered(m)')
      /\ Cardinality(Answered(m)') \in Nat
      /\ Cardinality(Answered(m)') <= Cardinality(Answered(m)) + 1
  <2>1. IsFiniteSet(Answered(m)) /\ Cardinality(Answered(m)) \in Nat
    BY CountTypes DEF Counted
  <2>2. /\ IsFiniteSet(Answered(m) \cup {a})
        /\ Cardinality(Answered(m) \cup {a})
             = IF a \in Answered(m) THEN Cardinality(Answered(m))
               ELSE Cardinality(Answered(m)) + 1
    BY <2>1, FS_AddElement
  <2>3. /\ Cardinality(Answered(m) \cup {a}) \in Nat
        /\ Cardinality(Answered(m) \cup {a}) <= Cardinality(Answered(m)) + 1
    BY <2>1, <2>2
  <2>4. CASE Answered(m)' = Answered(m) \cup {a}
    BY <2>2, <2>3, <2>4
  <2>5. CASE Answered(m)' = Answered(m)
    BY <2>1, <2>5
  <2> QED
    BY <1>2, <2>4, <2>5
<1>5. /\ Cardinality(Answering(m)') = Cardinality(Answering(m)) - 1
      /\ Cardinality(Committing(m)') = Cardinality(Committing(m)) + 1
  <2>1. IsFiniteSet(Answering(m)) /\ IsFiniteSet(Committing(m))
    BY CountTypes, FewWorkers
  <2>2. Cardinality(Answering(m) \ {w}) = Cardinality(Answering(m)) - 1
    BY <1>3, <2>1, FS_RemoveElement
  <2>3. Cardinality(Committing(m) \cup {w}) = Cardinality(Committing(m)) + 1
    BY <1>3, <2>1, FS_AddElement
  <2> QED
    BY <1>3, <2>2, <2>3
<1> QED
  BY <1>3, <1>4, <1>5, CountTypes DEF Counted

\* The lookup of a mark that is not there lets one more worker answer.
LEMMA OneMoreAnswering ==
  ASSUME Inv, NEW m \in Request, Counted(m), m \notin marks,
         Answered(m)' = Answered(m), Committing(m)' = Committing(m),
         faults' = faults
  PROVE  Counted(m)'
<1>1. /\ Answering(m)' \subseteq Worker
      /\ Committing(m)' \subseteq Worker
      /\ Answering(m)' \cap Committing(m)' = {}
  BY DEF Answering, Committing, Reading
<1>2. Cardinality(Answering(m)') + Cardinality(Committing(m)') <= Cardinality(Worker)
  BY <1>1, ApartWorkers
<1>3. Cardinality(Answering(m)') \in Nat
  BY <1>1, FewWorkers
<1> QED
  BY <1>2, <1>3, CountTypes DEF Counted

LEMMA CountedStep ==
  ASSUME Inv, [Next]_vars, NEW m \in Request, Counted(m)
  PROVE  Counted(m)'
<1>1. CASE Around \/ UNCHANGED vars
  <2>1. /\ UNCHANGED <<answers, marks, pc, job, faults>>
        /\ \A e \in Entry : ~ Bus!IsNew(e) => origin'[e] = origin[e]
    BY <1>1
    DEF Around, Announce, Ask, SendAgain, Send, Tick, vars, busVars, work, effects, Bus!Add,
        Inv, TypeOK
  <2>2. \A a \in answers : origin'[a.request] = origin[a.request]
    BY <2>1, Places DEF Inv, TypeOK, AnswerInv, AnswersAreOut, Answers, Entry
  <2>3. \A w \in Worker : pc[w] \notin {"down", "idle"} =>
          origin'[job[w]] = origin[job[w]]
    BY <2>1, Job
  <2>4. /\ Answered(m)' = Answered(m)
        /\ Answering(m)' = Answering(m)
        /\ Committing(m)' = Committing(m)
    BY <2>1, <2>2, <2>3 DEF Answered, Answering, Committing, Reading
  <2> QED
    BY <2>1, <2>4, NoAnswer
<1>2. ASSUME NEW w \in Worker,
             \/ Start(w) \/ Take(w) \/ Record(w) \/ Lookup(w) \/ Admit(w)
             \/ Read(w) \/ Judge(w) \/ Recheck(w) \/ Ack(w)
      PROVE  Counted(m)'
  <2>1. /\ UNCHANGED <<answers, marks, faults, origin>>
        /\ pc[w] # "commit"
        /\ pc'[w] \in Reading \cup {"lookup"} =>
             pc[w] \in Reading \cup {"lookup"} /\ job'[w] = job[w]
        /\ \A v \in Worker \ {w} : pc'[v] = pc[v] /\ job'[v] = job[v]
    <3>1. CASE Take(w)
      <4>1. NewEntries \in SUBSET Entry /\ Turn(w, NewEntries) /\ pc[w] = "idle"
            /\ UNCHANGED <<answers, marks, faults, origin>>
        BY <3>1, TakeFacts
      <4> QED
        BY <4>1, TurnFacts DEF Reading
    <3>2. CASE Ack(w)
      <4>1. batch[w] \in SUBSET Entry /\ Turn(w, batch[w]) /\ pc[w] = "ack"
            /\ UNCHANGED <<answers, marks, faults, origin>>
        BY <3>2, AckFacts
      <4> QED
        BY <4>1, TurnFacts DEF Reading
    <3>3. CASE ~ Take(w) /\ ~ Ack(w)
      BY <1>2, <3>3
      DEF Start, Record, Lookup, Admit, Read, Judge, Recheck, OnTime, Stopped, Now,
          Goto, Reading, Inv, TypeOK, busVars, effects
    <3> QED
      BY <3>1, <3>2, <3>3
  <2>2. /\ Answered(m)' = Answered(m)
        /\ Answering(m)' \subseteq Answering(m)
        /\ Committing(m) \subseteq Committing(m)'
    BY <2>1 DEF Answered, Answering, Committing
  <2> QED
    BY <2>1, <2>2, NoAnswer
<1>3. ASSUME NEW w \in Worker, CheckMark(w)
      PROVE  Counted(m)'
  <2>1. /\ UNCHANGED <<answers, marks, faults, origin, job, batch>>
        /\ pc[w] = "check"
        /\ \A v \in Worker \ {w} : pc'[v] = pc[v]
    BY <1>3 DEF CheckMark, Goto, Inv, TypeOK, busVars, effects
  <2>2. Answered(m)' = Answered(m) /\ Committing(m) \subseteq Committing(m)'
    BY <2>1 DEF Answered, Committing
  <2>3. CASE pc'[w] = "lookup" /\ origin[job[w]] = m
    <3>1. m \notin marks
      BY <1>3, <2>1, <2>3 DEF CheckMark, Goto, Marked, Inv, TypeOK
    <3>2. Committing(m)' = Committing(m)
      BY <2>1, <2>3 DEF Committing
    <3> QED
      BY <2>1, <2>2, <3>1, <3>2, OneMoreAnswering
  <2>4. CASE ~ (pc'[w] = "lookup" /\ origin[job[w]] = m)
    <3>1. pc'[w] \in {"commit", "record", "lookup"}
      BY <1>3 DEF CheckMark, Goto, Inv, TypeOK
    <3>2. Answering(m)' \subseteq Answering(m)
      BY <2>1, <2>4, <3>1 DEF Answering, Reading
    <3> QED
      BY <2>1, <2>2, <3>2, NoAnswer
  <2> QED
    BY <2>3, <2>4
<1>4. ASSUME NEW w \in Worker, Answer(w)
      PROVE  Counted(m)'
  <2>1. CASE origin[job[w]] = m
    BY <1>4, <2>1, OneMoreAnswer
  <2>2. CASE origin[job[w]] # m
    <3>1. /\ Answered(m)' = Answered(m)
          /\ Answering(m)' = Answering(m)
          /\ Committing(m)' = Committing(m)
          /\ UNCHANGED <<marks, faults>>
      BY <1>4, <2>2
      DEF Answer, Answered, Answering, Committing, Goto, Inv, TypeOK, busVars
    <3> QED
      BY <3>1, NoAnswer
  <2> QED
    BY <2>1, <2>2
<1>5. ASSUME NEW w \in Worker, Commit(w)
      PROVE  Counted(m)'
  <2>1. /\ Answered(m)' = Answered(m)
        /\ Answering(m)' \subseteq Answering(m)
        /\ marks' = marks \cup {origin[job[w]]}
        /\ faults' = faults
        /\ origin[job[w]] = m \/ Committing(m) \subseteq Committing(m)'
    BY <1>5
    DEF Commit, Answered, Answering, Committing, Goto, Reading, Inv, TypeOK, busVars
  <2> QED
    BY <2>1, NoAnswer
<1>6. ASSUME NEW w \in Worker, Fail(w)
      PROVE  Counted(m)'
  <2>1. /\ Answered(m)' = Answered(m)
        /\ Answering(m)' \subseteq Answering(m)
        /\ marks' = marks
        /\ faults' = faults + 1
        /\ Committing(m) \ {w} \subseteq Committing(m)'
    BY <1>6
    DEF Fail, Stopped, Now, Answered, Answering, Committing, Goto, Reading, Inv, TypeOK,
        busVars, effects
  <2> QED
    BY <2>1, NoAnswer
<1> QED
  BY <1>1, <1>2, <1>3, <1>4, <1>5, <1>6 DEF Next, Work

\* One request is answered at most once for each replica and each failure,
\* however many copies of it are on the stream (main.py, process_once).
THEOREM CopiesAreAnsweredRarely == Spec => []CopiesGetFewAnswers
<1> DEFINE AllCounted == \A m \in Request : Counted(m)
<1>1. Init => AllCounted
  <2> HAVE Init
  <2>1. ASSUME NEW m \in Request
        PROVE  Answered(m) = {} /\ Answering(m) = {} /\ Committing(m) = {}
    BY DEF Init, Answered, Answering, Committing, Reading
  <2>2. faults = 0 /\ Cardinality(Worker) \in Nat
    BY WorkerAssumption, FS_CardinalityType DEF Init
  <2>3. IsFiniteSet({}) /\ Cardinality({}) = 0
    BY FS_EmptySet
  <2>4. ASSUME NEW m \in Request
        PROVE  Counted(m)
    BY <2>1, <2>2, <2>3 DEF Counted
  <2> QED
    BY <2>4
<1>2. Inv /\ AllCounted /\ [Next]_vars => AllCounted'
  BY CountedStep
<1>3. Inv /\ AllCounted => CopiesGetFewAnswers
  <2> HAVE Inv /\ AllCounted
  <2> QED
    BY CountTypes DEF Counted, CopiesGetFewAnswers
<1> QED
  BY <1>1, <1>2, <1>3, InvHolds, PTL DEF Spec

\* A projection forgets a deal only with its process, or the oldest one when
\* it is full of others (DealReferenceStore.record).
THEOREM EvictsTheOldest == Spec => EvictsOnlyTheOldest
<1> DEFINE Kept == \A w \in Worker, d \in Deal :
             Forgets(w, d) =>
               \/ pc[w] = "down"
               \/ d = refs[w][1] /\ Cardinality(ToSet(refs'[w])) = MaxDeals
<1>1. ASSUME Inv, Next PROVE Kept
  <2>1. CASE refs' = refs
    BY <2>1 DEF Forgets
  <2>2. ASSUME NEW w \in Worker, Start(w) PROVE Kept
    <3>1. pc[w] = "down" /\ \A v \in Worker : v # w => refs'[v] = refs[v]
      BY <1>1, <2>2 DEF Start, Inv, TypeOK
    <3> QED
      BY <3>1 DEF Forgets
  <2>3. ASSUME NEW w \in Worker, Record(w) PROVE Kept
    <3> DEFINE r == Remember(refs[w], body[job[w]])
    <3>1. refs'[w] = r /\ \A v \in Worker : v # w => refs'[v] = refs[v]
      BY <1>1, <2>3 DEF Record, Inv, TypeOK
    <3>2. body[job[w]] \in Deal
      BY <1>1, <2>3, Job DEF Record
    <3>3. /\ r \in Seq(Deal) /\ IsInjective(r)
          /\ \A c \in ToSet(refs[w]) \ ToSet(r) : c = refs[w][1] /\ Len(r) = MaxDeals
      BY <1>1, <3>2, RememberLemma DEF Inv, TypeOK
    <3>4. Cardinality(ToSet(r)) = Len(r)
      BY <3>3, DistinctMembers
    <3> QED
      BY <3>1, <3>3, <3>4 DEF Forgets
  <2>4. ASSUME NEW w \in Worker, Work(w) PROVE Kept
    BY <2>1, <2>2, <2>3, <2>4 DEF Work, Take, CheckMark, Lookup, Admit, Read, Judge,
       Recheck, OnTime, Answer, Commit, Ack
  <2>5. ASSUME NEW w \in Worker, Fail(w) PROVE Kept
    BY <2>1, <2>5 DEF Fail
  <2>6. CASE Around
    BY <2>1, <2>6 DEF Around, Announce, Ask, SendAgain, Send, Tick
  <2> QED
    BY <1>1, <2>4, <2>5, <2>6 DEF Next
<1>2. Inv /\ [Next]_vars => [Kept]_vars
  BY <1>1
<1> QED
  BY <1>2, InvHolds, PTL DEF Spec, EvictsOnlyTheOldest
-----------------------------------------------------------------------------
(***************************************************************************)
(* The service implements RevalidationDesk: a request on its stream asks,  *)
(* the delivery of an announcement tells, the publish replies, the         *)
(* acknowledgement closes and UnknownDealError refuses.                    *)
(*                                                                         *)
(* A refused request stays with the process that refused it and with no    *)
(* other: nothing ever answers it or acknowledges it.                      *)
(***************************************************************************)
RefusedIsOver ==
  /\ \A r \in raised : Out(r) /\ r \notin settled
  /\ \A w \in Worker :
       /\ pc[w] \notin {"down", "idle"} => job[w] \notin raised
       /\ raised \cap batch[w] = {}
  /\ \A a \in answers : a.request \notin raised

\* A worker turns to entries that it was given or got just now.
LEMMA TurnRefuses ==
  ASSUME Inv, RefusedIsOver, NEW w \in Worker, NEW S \in SUBSET Entry, Turn(w, S),
         raised \cap S = {}, UNCHANGED <<answers, raised>>,
         \A r \in raised : Out(r)' /\ r \notin settled'
  PROVE  RefusedIsOver'
<1>1. /\ pc'[w] \in {"idle", "check"}
      /\ pc'[w] = "check" => job'[w] \in S
      /\ batch'[w] \subseteq S
      /\ \A v \in Worker : v # w =>
           pc'[v] = pc[v] /\ job'[v] = job[v] /\ batch'[v] = batch[v]
  BY TurnFacts
<1> QED
  BY <1>1 DEF RefusedIsOver

LEMMA RefusedStaysOver ==
  ASSUME Inv, RefusedIsOver, [Next]_vars
  PROVE  RefusedIsOver'
<1>1. CASE Around \/ UNCHANGED vars
  <2>1. UNCHANGED <<held, settled, pc, job, batch, answers, raised>>
    BY <1>1 DEF Around, Announce, Ask, SendAgain, Send, Bus!Add, Tick, vars, busVars,
       work, effects
  <2> QED
    BY <2>1 DEF RefusedIsOver, Out
<1>2. ASSUME NEW w \in Worker, Take(w)
      PROVE  RefusedIsOver'
  <2>1. /\ NewEntries \in SUBSET Entry /\ Turn(w, NewEntries)
        /\ UNCHANGED <<settled, answers, raised>>
        /\ \A e \in NewEntries : ~ Out(e)
        /\ \A e : Out(e)' <=> Out(e) \/ e \in NewEntries
    BY <1>2, TakeFacts
  <2>2. /\ raised \cap NewEntries = {}
        /\ \A r \in raised : Out(r)' /\ r \notin settled'
    BY <2>1 DEF RefusedIsOver
  <2> QED
    BY <2>1, <2>2, TurnRefuses
<1>3. ASSUME NEW w \in Worker, Ack(w)
      PROVE  RefusedIsOver'
  <2>1. /\ pc[w] = "ack" /\ batch[w] \in SUBSET Entry /\ Turn(w, batch[w])
        /\ settled' = settled \cup {job[w]} /\ UNCHANGED <<answers, raised>>
        /\ \A e : Out(e)' <=> Out(e)
    BY <1>3, AckFacts
  <2>2. /\ raised \cap batch[w] = {}
        /\ \A r \in raised : Out(r)' /\ r \notin settled'
    BY <2>1 DEF RefusedIsOver
  <2> QED
    BY <2>1, <2>2, TurnRefuses
<1>4. ASSUME NEW w \in Worker, Lookup(w)
      PROVE  RefusedIsOver'
  <2>0. /\ pc[w] = "lookup"
        /\ UNCHANGED <<held, settled, answers>>
    BY <1>4 DEF Lookup, busVars
  <2>1. /\ Out(job[w]) /\ job[w] \in held[w] /\ job[w] \notin settled
        /\ \A a \in answers : a.request # job[w]
    BY <2>0, Job DEF Inv, BusInv, InOnePlace, AnswerInv, NotYetAnswered
  <2>2. \A f : Out(f)' <=> Out(f)
    BY <2>0 DEF Out
  <2>3. ASSUME NEW v \in Worker, v # w
        PROVE  /\ pc[v] \notin {"down", "idle"} => job[v] # job[w]
               /\ job[w] \notin batch[v]
    BY <2>1, <2>3, Job DEF Inv, BusInv, InOnePlace, JobIsHeld
  <2>4. CASE pc' = [pc EXCEPT ![w] = "admit"] /\ UNCHANGED <<job, batch, raised>>
    BY <2>0, <2>2, <2>4 DEF RefusedIsOver, Inv, TypeOK
  <2>5. CASE /\ raised' = raised \cup {job[w]}
             /\ pc' = [pc EXCEPT ![w] = "down"] /\ job' = [job EXCEPT ![w] = NoEntry]
             /\ batch' = [batch EXCEPT ![w] = {}]
    <3>1. /\ \A r \in raised' : Out(r)' /\ r \notin settled'
          /\ \A a \in answers' : a.request \notin raised'
      BY <2>0, <2>1, <2>2, <2>5 DEF RefusedIsOver
    <3>2. ASSUME NEW v \in Worker
          PROVE  /\ pc'[v] \notin {"down", "idle"} => job'[v] \notin raised'
                 /\ raised' \cap batch'[v] = {}
      <4>1. CASE v = w
        <5>1. pc'[w] = "down" /\ batch'[w] = {}
          BY <2>5 DEF Inv, TypeOK
        <5> QED
          BY <4>1, <5>1
      <4>2. CASE v # w
        <5>1. pc'[v] = pc[v] /\ job'[v] = job[v] /\ batch'[v] = batch[v]
          BY <2>5, <4>2 DEF Inv, TypeOK
        <5> QED
          BY <2>3, <2>5, <4>2, <5>1 DEF RefusedIsOver
      <4> QED
        BY <4>1, <4>2
    <3> QED
      BY <3>1, <3>2 DEF RefusedIsOver
  <2> QED
    BY <1>4, <2>4, <2>5 DEF Lookup, Goto, Stopped, Now
<1>5. ASSUME NEW w \in Worker, Answer(w)
      PROVE  RefusedIsOver'
  <2>1. /\ pc[w] = "send" /\ pc' = [pc EXCEPT ![w] = "commit"]
        /\ UNCHANGED <<held, settled, job, batch, raised>>
        /\ \A a \in answers' : a \in answers \/ a.request = job[w]
    BY <1>5 DEF Answer, Goto, busVars
  <2> QED
    BY <2>1 DEF RefusedIsOver, Out, Inv, TypeOK
<1>6. ASSUME NEW w \in Worker,
             \/ Start(w) \/ CheckMark(w) \/ Record(w) \/ Admit(w) \/ Read(w)
             \/ Judge(w) \/ Recheck(w) \/ Commit(w) \/ Fail(w)
      PROVE  RefusedIsOver'
  <2>1. /\ UNCHANGED <<held, settled, answers, raised>>
        /\ \A v \in Worker \ {w} :
             pc'[v] = pc[v] /\ job'[v] = job[v] /\ batch'[v] = batch[v]
        /\ pc'[w] \notin {"down", "idle"} => pc[w] \notin {"down", "idle"} /\ job'[w] = job[w]
        /\ batch'[w] \subseteq batch[w]
    BY <1>6 DEF Start, CheckMark, Record, Admit, Read, Judge, Recheck, OnTime, Commit,
       Fail, Stopped, Now, Goto, busVars, effects, Inv, TypeOK
  <2> QED
    BY <2>1 DEF RefusedIsOver, Out
<1> QED
  BY <1>1, <1>2, <1>3, <1>4, <1>5, <1>6 DEF Next, Work

\* A request is about no deal before it is sent.
NewHasNoDeal == \A e \in Entry : Bus!IsNew(e) => body[e] = NoDeal

LEMMA NewKeeps ==
  ASSUME Inv, NewHasNoDeal, [Next]_vars
  PROVE  NewHasNoDeal'
<1>1. ASSUME NEW e \in Entry, NEW d, Send(e, d)
      PROVE  NewHasNoDeal'
  <2>1. /\ waiting' = waiting \cup {e} /\ UNCHANGED <<held, settled>>
        /\ body' = [body EXCEPT ![e] = d]
    BY <1>1 DEF Send, Bus!Add
  <2> QED
    BY <2>1 DEF NewHasNoDeal, Bus!IsNew, Inv, TypeOK
<1>2. CASE Around
  <2>1. CASE Tick
    BY <2>1 DEF Tick, busVars, NewHasNoDeal, Bus!IsNew
  <2> QED
    BY <1>1, <1>2, <2>1 DEF Around, Announce, Ask, SendAgain, Entry
<1>a. \A e \in Entry : Bus!IsNew(e)' <=> e \notin waiting' /\ ~ Out(e)'
  BY DEF Bus!IsNew, Out
<1>3. ASSUME NEW w \in Worker, Take(w)
      PROVE  NewHasNoDeal'
  <2>1. /\ waiting' = waiting \ NewEntries /\ UNCHANGED body
        /\ \A e : Out(e)' <=> Out(e) \/ e \in NewEntries
    BY <1>3, TakeFacts
  <2> QED
    BY <1>a, <2>1, Places DEF NewHasNoDeal
<1>4. ASSUME NEW w \in Worker, Ack(w)
      PROVE  NewHasNoDeal'
  <2>1. UNCHANGED <<waiting, body>> /\ \A e : Out(e)' <=> Out(e)
    BY <1>4, AckFacts
  <2> QED
    BY <1>a, <2>1, Places DEF NewHasNoDeal
<1>5. ASSUME NEW w \in Worker,
             Start(w) \/ CheckMark(w) \/ Record(w) \/ Lookup(w) \/ Admit(w) \/ Read(w)
               \/ Judge(w) \/ Recheck(w) \/ Answer(w) \/ Commit(w) \/ Fail(w)
      PROVE  NewHasNoDeal'
  BY <1>5 DEF Start, CheckMark, Record, Lookup, Admit, Read, Judge, Recheck, OnTime, Answer,
     Commit, Fail, busVars, NewHasNoDeal, Bus!IsNew
<1>6. CASE UNCHANGED vars
  BY <1>6 DEF vars, busVars, NewHasNoDeal, Bus!IsNew
<1> QED
  BY <1>2, <1>3, <1>4, <1>5, <1>6 DEF Next, Work

LEMMA RefusedHolds == Spec => [](Inv /\ RefusedIsOver /\ NewHasNoDeal)
<1>1. Init => RefusedIsOver /\ NewHasNoDeal
  BY DEF Init, RefusedIsOver, NewHasNoDeal
<1>2. Inv /\ RefusedIsOver /\ NewHasNoDeal /\ [Next]_vars
        => RefusedIsOver' /\ NewHasNoDeal'
  BY RefusedStaysOver, NewKeeps
<1> QED
  BY <1>1, <1>2, InvHolds, PTL DEF Spec

\* What the desk sees of the service.
Asked == [r \in Request |-> body[r]]
ToldDeals == {body[s] : s \in {t \in Scored : Handled(t)}}
Closed == settled \cap Request

LEMMA ToldLemma ==
  ASSUME Inv, NEW d
  PROVE  d \in ToldDeals <=> Told(d)
<1>1. ASSUME NEW s \in Scored PROVE Handled(s) <=> Out(s)
  <2>1. s \in Entry /\ (Out(s) => s \notin waiting)
    BY DEF Entry, Inv, BusInv, InOnePlace
  <2> QED
    BY <2>1, Places DEF Handled
<1> QED
  BY <1>1 DEF ToldDeals, Told

\* A step that tells nothing, asks nothing, closes nothing.
LEMMA ToldStays ==
  ASSUME Inv, Inv', UNCHANGED body, \A e \in Entry : Out(e)' <=> Out(e)
  PROVE  Asked' = Asked /\ ToldDeals' = ToldDeals
<1>1. \A s \in Scored : s \in Entry
  BY DEF Entry
<1>2. ASSUME NEW t \in Scored PROVE Handled(t)' <=> Handled(t)
  <2>1. /\ t \in Entry
        /\ Out(t) => t \notin waiting
        /\ Out(t)' => t \notin waiting'
    BY <1>1 DEF Inv, BusInv, InOnePlace
  <2>2. Bus!IsNew(t)' <=> t \notin waiting' /\ ~ Out(t)'
    BY DEF Bus!IsNew, Out
  <2> QED
    BY <2>1, <2>2, Places DEF Handled
<1> QED
  BY <1>2 DEF Asked, ToldDeals

LEMMA SendDesk ==
  ASSUME Inv, Inv', NewHasNoDeal, NEW e \in Entry, NEW d \in Deal, Send(e, d)
  PROVE  Desk!Next \/ UNCHANGED Desk!vars
<1>1. /\ Bus!IsNew(e) /\ ~ Out(e)
      /\ body' = [body EXCEPT ![e] = d]
      /\ UNCHANGED <<held, settled, clock, answers, raised>>
  BY Places DEF Send, Bus!Add, effects
<1>2. ToldDeals' = ToldDeals
  <2>1. \A f : Out(f)' <=> Out(f)
    BY <1>1 DEF Out
  <2>2. \A s \in Scored : Out(s) => body'[s] = body[s]
    BY <1>1 DEF Inv, TypeOK, Entry
  <2>3. ASSUME NEW t \in Scored
        PROVE  (Handled(t)' <=> Handled(t)) /\ (Handled(t) <=> Out(t))
    <3>1. /\ t \in Entry
          /\ Out(t) => t \notin waiting
          /\ Out(t)' => t \notin waiting'
      BY DEF Entry, Inv, BusInv, InOnePlace
    <3>2. Bus!IsNew(t)' <=> t \notin waiting' /\ ~ Out(t)'
      BY DEF Bus!IsNew, Out
    <3> QED
      BY <2>1, <3>1, <3>2, Places DEF Handled
  <2> QED
    BY <2>2, <2>3 DEF ToldDeals
<1>3. CASE e \in Request
  <2>1. Asked[e] = NoDeal
    BY <1>1, <1>3 DEF NewHasNoDeal, Asked
  <2>2. Asked' = [Asked EXCEPT ![e] = d]
    BY <1>1, <1>3 DEF Asked, Inv, TypeOK, Entry
  <2>3. Desk!Ask(e, d)
    BY <1>1, <1>2, <2>1, <2>2 DEF Desk!Ask, Asked, ToldDeals
  <2> QED
    BY <1>3, <2>3 DEF Desk!Next
<1>4. CASE e \notin Request
  <2>1. Asked' = Asked
    BY <1>1, <1>4 DEF Asked, Inv, TypeOK
  <2> QED
    BY <1>1, <1>2, <2>1 DEF Desk!vars, Asked, ToldDeals
<1> QED
  BY <1>3, <1>4

\* The delivery of a batch tells the desk of the deals announced in it.
LEMMA TakeDesk ==
  ASSUME Inv, Inv', NEW w \in Worker, Take(w)
  PROVE  Desk!Next
<1> DEFINE D == {body[s] : s \in NewEntries \cap Scored}
<1>1. /\ NewEntries \subseteq waiting /\ NewEntries \subseteq Entry
      /\ UNCHANGED <<settled, body, clock, answers, raised>>
      /\ \A f : Out(f)' <=> Out(f) \/ f \in NewEntries
  BY TakeFacts
<1>2. Asked' = Asked /\ Closed' = Closed
  BY <1>1 DEF Asked, Closed
<1>3. ASSUME NEW t \in Scored PROVE Handled(t)' <=> Handled(t) \/ t \in NewEntries
  <2>1. /\ t \in Entry
        /\ Out(t) => t \notin waiting
        /\ Out(t)' => t \notin waiting'
    BY DEF Entry, Inv, BusInv, InOnePlace
  <2>2. Bus!IsNew(t)' <=> t \notin waiting' /\ ~ Out(t)'
    BY DEF Bus!IsNew, Out
  <2> QED
    BY <1>1, <2>1, <2>2, Places DEF Handled
<1>4. ToldDeals' = ToldDeals \cup D
  BY <1>1, <1>3 DEF ToldDeals
<1>5. D \in SUBSET Deal
  <2>1. \A s \in NewEntries : ~ Bus!IsNew(s)
    BY <1>1, Places
  <2> QED
    BY <1>1, <2>1 DEF Inv, BusInv, AddedHasDeal
<1> HIDE DEF D
<1>6. Desk!Tell(D)
  BY <1>1, <1>2, <1>4 DEF Desk!Tell, Asked, ToldDeals, Closed
<1>7. \E told \in SUBSET Deal : Desk!Tell(told)
  BY <1>5, <1>6 DEF Desk!Tell
<1> QED
  BY <1>7 DEF Desk!Next

LEMMA AnswerDesk ==
  ASSUME Inv, Inv', RefusedIsOver, NEW w \in Worker, Answer(w)
  PROVE  Desk!Next
<1> DEFINE r == job[w]
           d == body[r]
           read == seen[w]
<1>1. /\ pc[w] = "send"
      /\ UNCHANGED <<waiting, held, settled, body, clock, raised>>
  BY DEF Answer, busVars
<1>2. /\ r \in Request /\ r \in held[w] /\ r \notin settled /\ d \in Deal /\ Told(d)
      /\ started[w] <= read.at /\ read.at < started[w] + Budget
      /\ \A a \in answers : a.request # r
  BY <1>1, Job DEF Inv, BusInv, WorkInv, AnswerInv, InOnePlace, JobHasItsKind,
     AskedIsTold, ReadIsFresh, NotYetAnswered, Reading, HasRead
<1>3. r \notin raised /\ read.at <= clock
  BY <1>1 DEF RefusedIsOver, Inv, WorkInv, ReadIsFresh, HasRead
<1>4. /\ read.price \in LivePrice /\ read.in_stock \in BOOLEAN
      /\ read.at \in 0 .. clock /\ started[w] \in 0 .. clock
  <2>1. read \in Snapshot /\ started[w] \in Nat /\ clock \in Nat
    BY DEF Inv, TypeOK, Time
  <2> QED
    BY <1>2, <1>3, <2>1 DEF Snapshot, Time
<1>5. Changed(Detected[d], read) = ~ Desk!Passes(read.price, read.in_stock, Detected[d])
  <2>1. Detected[d] \in Nat /\ read.price \in Nat
    BY <1>2, <1>4, BoundAssumption
  <2>2. WithinTolerance(Detected[d], read.price)
          <=> 98 * Detected[d] <= 100 * read.price
                /\ 100 * read.price <= 102 * Detected[d]
    BY <2>1 DEF WithinTolerance
  <2> QED
    BY <1>4, <2>2 DEF Changed, Desk!Passes
<1>6. Asked[r] = d /\ d \in ToldDeals /\ r \notin Closed
  BY <1>2, ToldLemma DEF Asked, Closed
<1>7. /\ Asked' = Asked /\ ToldDeals' = ToldDeals
      /\ Closed' = Closed
  <2>1. \A e \in Entry : Out(e)' <=> Out(e)
    BY <1>1 DEF Out
  <2> QED
    BY <1>1, <2>1, ToldStays DEF Closed
<1>8. d # NoDeal
  BY <1>2, EntryAssumption
<1>9. answers' = answers \cup
        {[request |-> r, deal |-> Asked[r], price |-> read.price,
          in_stock |-> read.in_stock,
          changed |-> ~ Desk!Passes(read.price, read.in_stock, Detected[Asked[r]]),
          at |-> read.at, started |-> started[w]]}
  BY <1>5, <1>6 DEF Answer
<1>10. Desk!Reply(r, read.price, read.in_stock, read.at, started[w])
  BY <1>1, <1>2, <1>3, <1>6, <1>7, <1>8, <1>9
     DEF Desk!Reply, Desk!Open, Desk!Unanswered, Asked, ToldDeals, Closed
<1> QED
  BY <1>2, <1>4, <1>10 DEF Desk!Next

LEMMA AckDesk ==
  ASSUME Inv, Inv', RefusedIsOver, NEW w \in Worker, Ack(w)
  PROVE  Desk!Next \/ UNCHANGED Desk!vars
<1> DEFINE r == job[w]
<1>1. /\ pc[w] = "ack" /\ r \in held[w] /\ r \in Entry
      /\ settled' = settled \cup {r}
      /\ UNCHANGED <<body, clock, answers, raised>>
      /\ \A e : Out(e)' <=> Out(e)
  BY AckFacts
<1>2. Asked' = Asked /\ ToldDeals' = ToldDeals
  BY <1>1, ToldStays
<1>3. CASE r \in Request
  <2>1. r \notin settled /\ r \notin raised /\ body[r] \in Deal
    BY <1>1, Job DEF Inv, BusInv, InOnePlace, RefusedIsOver
  <2>2. Closed' = Closed \cup {r} /\ Asked[r] # NoDeal
    BY <1>1, <1>3, <2>1, EntryAssumption DEF Closed, Asked
  <2>3. Desk!Close(r)
    BY <1>1, <1>2, <2>1, <2>2 DEF Desk!Close, Desk!Open, Asked, ToldDeals, Closed
  <2> QED
    BY <1>3, <2>3 DEF Desk!Next
<1>4. CASE r \notin Request
  <2>1. Closed' = Closed
    BY <1>1, <1>4 DEF Closed
  <2> QED
    BY <1>1, <1>2, <2>1 DEF Desk!vars, Asked, ToldDeals, Closed
<1> QED
  BY <1>3, <1>4

LEMMA LookupDesk ==
  ASSUME Inv, Inv', RefusedIsOver, NEW w \in Worker, Lookup(w)
  PROVE  Desk!Next \/ UNCHANGED Desk!vars
<1> DEFINE r == job[w]
<1>1. /\ pc[w] = "lookup"
      /\ UNCHANGED <<waiting, held, settled, body, clock, answers>>
  BY DEF Lookup, busVars
<1>2. Asked' = Asked /\ ToldDeals' = ToldDeals /\ Closed' = Closed
  <2>1. \A e \in Entry : Out(e)' <=> Out(e)
    BY <1>1 DEF Out
  <2> QED
    BY <1>1, <2>1, ToldStays DEF Closed
<1>3. CASE raised' = raised
  BY <1>1, <1>2, <1>3 DEF Desk!vars, Asked, ToldDeals, Closed
<1>4. CASE raised' = raised \cup {r}
  <2>1. /\ r \in Request /\ r \notin settled /\ r \notin raised /\ body[r] \in Deal
        /\ \A a \in answers : a.request # r
    BY <1>1, Job DEF Inv, BusInv, InOnePlace, JobHasItsKind, AnswerInv, NotYetAnswered,
       RefusedIsOver
  <2>2. Asked[r] # NoDeal /\ r \notin Closed
    BY <2>1, EntryAssumption DEF Asked, Closed
  <2>3. Desk!Refuse(r)
    BY <1>1, <1>2, <1>4, <2>1, <2>2
       DEF Desk!Refuse, Desk!Open, Desk!Unanswered, Asked, ToldDeals, Closed
  <2> QED
    BY <2>1, <2>3 DEF Desk!Next
<1> QED
  BY <1>3, <1>4 DEF Lookup

LEMMA DeskStep ==
  ASSUME Inv, Inv', RefusedIsOver, NewHasNoDeal, [Next]_vars
  PROVE  Desk!Next \/ UNCHANGED Desk!vars
<1>1. ASSUME UNCHANGED <<waiting, held, settled, body, answers, raised>>,
             clock' = clock \/ clock' = clock + 1
      PROVE  Desk!Next \/ UNCHANGED Desk!vars
  <2>1. Asked' = Asked /\ ToldDeals' = ToldDeals /\ Closed' = Closed
    <3>1. \A e \in Entry : Out(e)' <=> Out(e)
      BY <1>1 DEF Out
    <3> QED
      BY <1>1, <3>1, ToldStays DEF Closed
  <2>2. CASE clock' = clock
    BY <1>1, <2>1, <2>2 DEF Desk!vars, Asked, ToldDeals, Closed
  <2>3. CASE clock' = clock + 1
    <3>1. Desk!Tick
      BY <1>1, <2>1, <2>3 DEF Desk!Tick, Asked, ToldDeals, Closed
    <3> QED
      BY <3>1 DEF Desk!Next
  <2> QED
    BY <1>1, <2>2, <2>3
<1>2. CASE Around
  <2>1. ASSUME NEW e \in Entry, NEW o \in Entry, SendAgain(e, o)
        PROVE  Desk!Next \/ UNCHANGED Desk!vars
    <3>1. body[o] \in Deal /\ Send(e, body[o])
      BY <2>1 DEF SendAgain, Inv, BusInv, AddedHasDeal
    <3> QED
      BY <3>1, SendDesk
  <2>2. ASSUME NEW e \in Entry, NEW d \in Deal, Send(e, d)
        PROVE  Desk!Next \/ UNCHANGED Desk!vars
    BY <2>2, SendDesk
  <2>3. CASE Tick
    BY <1>1, <2>3 DEF Tick, busVars, effects
  <2> QED
    BY <1>2, <2>1, <2>2, <2>3 DEF Around, Announce, Ask, Entry
<1>3. ASSUME NEW w \in Worker,
             Start(w) \/ CheckMark(w) \/ Record(w) \/ Admit(w) \/ Read(w) \/ Judge(w)
               \/ Recheck(w) \/ Commit(w) \/ Fail(w)
      PROVE  Desk!Next \/ UNCHANGED Desk!vars
  BY <1>1, <1>3 DEF Start, CheckMark, Record, Admit, Read, Judge, Recheck, OnTime,
     Commit, Fail, busVars, effects
<1>4. CASE UNCHANGED vars
  BY <1>1, <1>4 DEF vars, busVars, effects
<1> QED
  BY <1>2, <1>3, <1>4, TakeDesk, AnswerDesk, AckDesk, LookupDesk DEF Next, Work

\* Whatever copies, replicas, restarts and failures there are, whoever asks
\* sees a desk: one answer at most, about the deal that was asked for, judged
\* by the line of two per cent, fresh, and none once the request was
\* acknowledged or refused (main.py, revalidator.py).
THEOREM ServiceImplementsDesk == Spec => ImplementsDesk
<1>1. Init => Desk!Init
  BY DEF Init, Bus!Init, Desk!Init, Handled, Bus!IsNew, Entry
<1>2. Inv /\ Inv' /\ RefusedIsOver /\ NewHasNoDeal /\ [Next]_vars => [Desk!Next]_(Desk!vars)
  BY DeskStep
<1> QED
  BY <1>1, <1>2, RefusedHolds, PTL DEF Spec, ImplementsDesk, Desk!Spec

-----------------------------------------------------------------------------
(***************************************************************************)
(* What a process has not heard it never hears.  Once every announcement   *)
(* of a deal went somewhere else, or to this process before it ended, only *)
(* a new announcement can make the process know the deal: neither its      *)
(* restart, nor time, nor a request that was refused, nor the failure of   *)
(* the process that has it brings the reference price back.                *)
(***************************************************************************)
\* What w was given and is not done with.
Mine(w) == batch[w] \cup {job[w]}

Unheard(w, d) ==
  /\ d \notin ToSet(refs[w])
  /\ \A s \in Scored : body[s] = d => Out(s) /\ s \notin Mine(w)

AnnouncedAnew(d) == \E s \in Scored : body[s] # d /\ body'[s] = d

StaysUnheard ==
  \A w \in Worker, d \in Deal : Unheard(w, d) /\ ~ AnnouncedAnew(d) => Unheard(w, d)'

LEMMA UnheardStep == Inv /\ [Next]_vars => StaysUnheard
<1> SUFFICES ASSUME Inv, [Next]_vars, NEW w \in Worker, NEW d \in Deal,
                    Unheard(w, d), ~ AnnouncedAnew(d)
             PROVE  Unheard(w, d)'
  BY DEF StaysUnheard
<1>0. \A s \in Scored : body'[s] = d => Out(s) /\ s \notin Mine(w)
  BY DEF Unheard, AnnouncedAnew
<1>1. ASSUME \A e \in Entry : Out(e) => Out(e)',
             Mine(w)' \subseteq Mine(w) \cup {NoEntry} \cup waiting,
             ToSet(refs'[w]) \subseteq ToSet(refs[w])
      PROVE  Unheard(w, d)'
  <2>1. \A s \in Scored : s \in Entry /\ (Out(s) => s \notin waiting) /\ s # NoEntry
    BY EntryAssumption DEF Entry, Inv, BusInv, InOnePlace
  <2> QED
    BY <1>0, <1>1, <2>1 DEF Unheard
<1>2. CASE Around \/ UNCHANGED vars
  <2>1. UNCHANGED <<held, settled, refs, job, batch>>
    BY <1>2 DEF Around, Announce, Ask, SendAgain, Send, Bus!Add, Tick, vars, busVars, work
  <2> QED
    BY <1>1, <2>1 DEF Out, Mine
<1>3. ASSUME NEW v \in Worker, NEW S \in SUBSET Entry, Turn(v, S),
             S \subseteq waiting \cup batch[v]
      PROVE  Mine(w)' \subseteq Mine(w) \cup {NoEntry} \cup waiting
  <2>1. /\ pc'[v] \in {"idle", "check"}
        /\ pc'[v] = "idle" => job'[v] = NoEntry /\ batch'[v] = {}
        /\ pc'[v] = "check" => job'[v] \in S
        /\ batch'[v] \subseteq S
        /\ v # w => job'[w] = job[w] /\ batch'[w] = batch[w]
    BY <1>3, TurnFacts
  <2> QED
    BY <1>3, <2>1 DEF Mine
<1>4. ASSUME NEW v \in Worker, Take(v) \/ Ack(v)
      PROVE  Unheard(w, d)'
  <2>1. CASE Take(v)
    <3>1. /\ NewEntries \in SUBSET Entry /\ NewEntries \subseteq waiting
          /\ Turn(v, NewEntries) /\ UNCHANGED refs
          /\ \A e \in Entry : Out(e) => Out(e)'
      BY <2>1, TakeFacts
    <3> QED
      BY <1>1, <1>3, <3>1
  <2>2. CASE Ack(v)
    <3>1. /\ batch[v] \in SUBSET Entry /\ Turn(v, batch[v]) /\ UNCHANGED refs
          /\ \A e \in Entry : Out(e) => Out(e)'
      BY <2>2, AckFacts
    <3> QED
      BY <1>1, <1>3, <3>1
  <2> QED
    BY <1>4, <2>1, <2>2
<1>5. ASSUME NEW v \in Worker, Record(v)
      PROVE  Unheard(w, d)'
  <2>1. /\ pc[v] = "record"
        /\ refs' = [refs EXCEPT ![v] = Remember(@, body[job[v]])]
        /\ UNCHANGED <<held, settled, body, job, batch>>
    BY <1>5 DEF Record, Goto, busVars
  <2>2. job[v] \in Scored /\ body[job[v]] \in Deal
    BY <2>1, Job DEF Inv, BusInv, JobHasItsKind
  <2>3. CASE v # w
    <3>1. refs'[w] = refs[w]
      BY <2>1, <2>3 DEF Inv, TypeOK
    <3> QED
      BY <1>1, <2>1, <3>1 DEF Out, Mine
  <2>4. CASE v = w
    <3>1. body[job[w]] # d
      BY <2>2, <2>4 DEF Unheard, Mine
    <3>2. refs'[w] = Remember(refs[w], body[job[w]])
      BY <2>1, <2>4 DEF Inv, TypeOK
    <3>3. ToSet(refs'[w]) \subseteq ToSet(refs[w]) \cup {body[job[w]]}
      BY <2>2, <2>4, <3>2, RememberLemma DEF Inv, TypeOK
    <3> QED
      BY <2>1, <3>1, <3>3 DEF Unheard, Out, Mine
  <2> QED
    BY <2>3, <2>4
<1>6. ASSUME NEW v \in Worker, Start(v)
      PROVE  Unheard(w, d)'
  <2>1. /\ refs' = [refs EXCEPT ![v] = <<>>]
        /\ UNCHANGED <<held, settled, job, batch>>
    BY <1>6 DEF Start, busVars
  <2>2. ToSet(refs'[w]) \subseteq ToSet(refs[w])
    <3>1. refs'[w] = <<>> \/ refs'[w] = refs[w]
      BY <2>1 DEF Inv, TypeOK
    <3>2. ToSet(<<>>) = {}
      BY DEF ToSet
    <3> QED
      BY <3>1, <3>2
  <2> QED
    BY <1>1, <2>1, <2>2 DEF Out, Mine
<1>7. ASSUME NEW v \in Worker,
             \/ CheckMark(v) \/ Lookup(v) \/ Admit(v) \/ Read(v) \/ Judge(v)
             \/ Recheck(v) \/ Answer(v) \/ Commit(v) \/ Fail(v)
      PROVE  Unheard(w, d)'
  <2>1. /\ UNCHANGED <<held, settled, refs>>
        /\ \/ UNCHANGED <<job, batch>>
           \/ job' = [job EXCEPT ![v] = NoEntry] /\ batch' = [batch EXCEPT ![v] = {}]
    BY <1>7 DEF CheckMark, Lookup, Admit, Read, Judge, Recheck, OnTime, Answer, Commit,
       Fail, Goto, Stopped, Now, busVars
  <2>2. Mine(w)' \subseteq Mine(w) \cup {NoEntry}
    BY <2>1 DEF Inv, TypeOK, Mine
  <2> QED
    BY <1>1, <2>1, <2>2 DEF Out
<1> QED
  BY <1>2, <1>4, <1>5, <1>6, <1>7 DEF Next, Work

UnheardForGood == [][StaysUnheard]_vars

\* deal_reference.py calls the projection one that survives a restart; what a
\* process lost with its memory, or never had, it does not get back.
THEOREM ForgottenForGood == Spec => UnheardForGood
<1> QED
  BY UnheardStep, InvHolds, PTL DEF Spec, UnheardForGood

\* A restart is exactly that loss: the process that starts has not heard of
\* any deal whose announcements were all delivered before.
RestartUnhears ==
  \A w \in Worker, d \in Deal :
    Start(w) /\ (\A s \in Scored : body[s] = d => Out(s)) => Unheard(w, d)'

\* run() begins with an empty projection, and the group's cursor is past what
\* was delivered.
THEOREM RestartForgets == Spec => [][RestartUnhears]_vars
<1>1. Inv => RestartUnhears
  <2> SUFFICES ASSUME Inv, NEW w \in Worker, NEW d \in Deal, Start(w),
                      \A s \in Scored : body[s] = d => Out(s)
               PROVE  Unheard(w, d)'
    BY DEF RestartUnhears
  <2>1. /\ pc[w] = "down" /\ refs'[w] = <<>>
        /\ UNCHANGED <<held, settled, body, job, batch>>
    BY DEF Start, busVars, Inv, TypeOK
  <2>2. \A s \in Scored : s \notin Mine(w)
    BY <2>1, EntryAssumption DEF Inv, BusInv, JobIsHeld, Entry, Mine
  <2>3. ToSet(<<>>) = {}
    BY DEF ToSet
  <2> QED
    BY <2>1, <2>2, <2>3 DEF Unheard, Out, Mine
<1> QED
  BY <1>1, InvHolds, PTL DEF Spec

============================================================================
