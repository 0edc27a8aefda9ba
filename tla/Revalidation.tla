---------------------------- MODULE Revalidation ----------------------------
(***************************************************************************)
(* services/revalidation-service: replicas of one consumer group read      *)
(* DEAL_SCORED into an in-memory projection and answer                     *)
(* DEAL_REVALIDATION_REQUEST with DEAL_REVALIDATED, after a live read of   *)
(* the listing and inside a budget of seconds.                             *)
(*                                                                         *)
(* A deal has one listing and one detected_price, the one its DEAL_SCORED  *)
(* carries.  A live read of the listing fails (ListingReadError) or shows  *)
(* a price and whether it is in stock.                                     *)
(*                                                                         *)
(* Definitions named Bug... are mutated forms of the definition that       *)
(* follows them.                                                           *)
(***************************************************************************)
EXTENDS Naturals, SequencesExt

CONSTANTS
  Worker,     \* processes of the service
  Deal,
  Scored,     \* entries of the stream DEAL_SCORED
  Request,    \* entries of the stream DEAL_REVALIDATION_REQUEST
  Detected,   \* Detected[d]: the price deal d was scored at
  LivePrice,  \* prices that live reads show
  Budget,     \* timeout_budget_seconds, in ticks
  MaxDeals,   \* how many deals a projection remembers
  BatchSize,  \* COUNT of XREADGROUP
  NoEntry,
  NoDeal,
  MaxTime,    \* bound on the clock
  MaxFaults   \* bound on failures

Entry == Scored \cup Request

ASSUME WorkerAssumption == IsFiniteSet(Worker)
ASSUME EntryAssumption ==
  /\ Scored \cap Request = {}
  /\ \A s \in Scored, r \in Request : s[1] # r[1]
  /\ NoEntry \notin Entry
  /\ NoDeal \notin Deal
  /\ \A e \in Entry : e = <<e[1], e[2]>> /\ e[2] \in Nat
ASSUME BoundAssumption ==
  /\ Detected \in [Deal -> Nat \ {0}]
  /\ LivePrice \subseteq Nat \ {0}
  /\ LivePrice # {}
  /\ Budget \in Nat
  /\ MaxDeals \in Nat \ {0}
  /\ BatchSize \in Nat \ {0}
  /\ MaxTime \in Nat
  /\ MaxFaults \in Nat

VARIABLES
  waiting, held, settled,  \* the bus: see EventDelivery
  body,      \* body[e]: the deal an entry is about
  origin,    \* origin[e]: the entry that first carried e's event_id
  clock,
  refs,      \* refs[w]: the deals w's projection knows, oldest first
  pc, job,   \* where a worker is, and the entry it handles
  batch,     \* batch[w]: what w's read() returned and w has not begun
  started,   \* started[w]: when the budget of w's request started
  seen,      \* seen[w]: what w's live read showed, and when
  marks,     \* processed_events of this service
  answers,   \* DEAL_REVALIDATED events
  raised,    \* requests whose handler raised UnknownDealError
  faults

busVars == <<waiting, held, settled, body, origin>>
effects == <<marks, answers, raised>>
work == <<pc, job, batch>>
vars == <<busVars, clock, refs, work, started, seen, effects, faults>>

Bus == INSTANCE EventDelivery

Steps == {"down", "idle", "check", "record", "lookup", "admit", "read", "judge",
          "recheck", "send", "commit", "ack"}
Time == 0 .. MaxTime
Snapshot == [price : LivePrice, in_stock : BOOLEAN, at : Time]
NoRead == [price |-> CHOOSE p \in LivePrice : TRUE, in_stock |-> FALSE, at |-> 0]

Answers == [request : Request, deal : Deal, price : LivePrice, in_stock : BOOLEAN,
            changed : BOOLEAN, at : Time, started : Time]

\* A projection never outgrows its cap and never holds a deal twice.
TypeOK ==
  /\ waiting \subseteq Entry /\ settled \subseteq Entry
  /\ held \in [Worker -> SUBSET Entry]
  /\ body \in [Entry -> Deal \cup {NoDeal}]
  /\ origin \in [Entry -> Entry]
  /\ clock \in Time
  /\ refs \in [Worker -> Seq(Deal)]
  /\ \A w \in Worker : Len(refs[w]) <= MaxDeals /\ IsInjective(refs[w])
  /\ pc \in [Worker -> Steps]
  /\ job \in [Worker -> Entry \cup {NoEntry}]
  /\ batch \in [Worker -> SUBSET Entry]
  /\ started \in [Worker -> Time]
  /\ seen \in [Worker -> Snapshot]
  /\ marks \subseteq Entry
  /\ answers \subseteq Answers
  /\ raised \subseteq Request
  /\ faults \in 0 .. MaxFaults

Init ==
  /\ Bus!Init
  /\ body = [e \in Entry |-> NoDeal]
  /\ origin = [e \in Entry |-> e]
  /\ clock = 0
  /\ refs = [w \in Worker |-> << >>]
  /\ pc = [w \in Worker |-> "down"]
  /\ job = [w \in Worker |-> NoEntry]
  /\ batch = [w \in Worker |-> {}]
  /\ started = [w \in Worker |-> 0]
  /\ seen = [w \in Worker |-> NoRead]
  /\ marks = {}
  /\ answers = {}
  /\ raised = {}
  /\ faults = 0

-----------------------------------------------------------------------------
(***************************************************************************)
(* Around the service: the Deal Engine announces deals, the Bot asks about *)
(* a deal that was announced, time passes.                                 *)
(***************************************************************************)
InOrder(e) == \A f \in Entry : f[1] = e[1] /\ f[2] < e[2] => ~ Bus!IsNew(f)

Send(e, d) ==
  /\ Bus!Add(e)
  /\ InOrder(e)
  /\ body' = [body EXCEPT ![e] = d]
  /\ UNCHANGED <<clock, refs, work, started, seen, effects, faults>>

Announce(e, d) == Send(e, d) /\ UNCHANGED origin

Announced(d) == \E s \in Scored : body[s] = d /\ ~ Bus!IsNew(s)

Ask(e, d) ==
  /\ Announced(d)
  /\ Send(e, d)
  /\ UNCHANGED origin

\* The copy of an envelope whose XADD was sent twice.
SendAgain(e, o) ==
  /\ ~ Bus!IsNew(o)
  /\ o[1] = e[1]
  /\ origin[o] = o
  /\ Send(e, body[o])
  /\ origin' = [origin EXCEPT ![e] = o]

Tick ==
  /\ clock < MaxTime
  /\ clock' = clock + 1
  /\ UNCHANGED <<busVars, refs, work, started, seen, effects, faults>>

-----------------------------------------------------------------------------
\* run(): a new process starts with an empty projection.
Start(w) ==
  /\ pc[w] = "down"
  /\ pc' = [pc EXCEPT ![w] = "idle"]
  /\ refs' = [refs EXCEPT ![w] = << >>]
  /\ UNCHANGED <<busVars, clock, job, batch, started, seen, effects, faults>>

\* CONSUMED_EVENT_TYPES: the reply has the announcements before the requests,
\* each stream oldest first, and consume() goes through it in that order.
Before(e, f) ==
  \/ e \in Scored /\ f \in Request
  \/ e[1] = f[1] /\ e[2] < f[2]
InTurn(e, S) == e \in S /\ \A f \in S : ~ Before(f, e)

\* w comes to a step with an entry in hand and S left of its batch.
Now(w, step, e, S) ==
  /\ pc' = [pc EXCEPT ![w] = step]
  /\ job' = [job EXCEPT ![w] = e]
  /\ batch' = [batch EXCEPT ![w] = S]

BugTurn(w, S) ==                          \* no order between the streams
  \/ S = {} /\ Now(w, "idle", NoEntry, {})
  \/ \E e \in S : Now(w, "check", e, S \ {e})
\* The worker turns to the next entry of S, or reads again.
Turn(w, S) ==
  \/ S = {} /\ Now(w, "idle", NoEntry, {})
  \/ \E e \in S : InTurn(e, S) /\ Now(w, "check", e, S \ {e})

\* XREADGROUP: of each stream the oldest entries that nobody got, as far as
\* COUNT goes.
NewEntries ==
  {e \in waiting :
     Cardinality({f \in waiting : f[1] = e[1] /\ f[2] < e[2]}) < BatchSize}

Take(w) ==
  /\ pc[w] = "idle"
  /\ Bus!Deliver(w, NewEntries)
  /\ Turn(w, NewEntries)
  /\ UNCHANGED <<body, origin, clock, refs, started, seen, effects, faults>>

Goto(w, to) == pc' = [pc EXCEPT ![w] = to] /\ UNCHANGED <<job, batch>>

BugMarked(w) == job[w] \in marks          \* by the entry, not by its event_id
Marked(w) == origin[job[w]] \in marks

\* process_once: is_processed; the budget of a request starts after it, with
\* the call of the handler.
CheckMark(w) ==
  /\ pc[w] = "check"
  /\ \/ Marked(w) /\ Goto(w, "commit") /\ UNCHANGED started
     \/ /\ ~ Marked(w)
        /\ \/ job[w] \in Scored /\ Goto(w, "record") /\ UNCHANGED started
           \/ /\ job[w] \in Request
              /\ Goto(w, "lookup")
              /\ started' = [started EXCEPT ![w] = clock]
  /\ UNCHANGED <<busVars, clock, refs, seen, effects, faults>>

\* Remembering a deal makes it the newest; at the cap the oldest goes.
Without(q, d) ==
  IF \E i \in DOMAIN q : q[i] = d THEN RemoveAt(q, CHOOSE i \in DOMAIN q : q[i] = d)
  ELSE q
BugRemember(q, d) ==                      \* one deal too many
  LET r == Append(Without(q, d), d)
  IN  IF Len(r) > MaxDeals + 1 THEN Tail(r) ELSE r
Remember(q, d) ==
  LET r == Append(Without(q, d), d)
  IN  IF Len(r) > MaxDeals THEN Tail(r) ELSE r

\* handle_deal_scored.
Record(w) ==
  /\ pc[w] = "record"
  /\ refs' = [refs EXCEPT ![w] = Remember(@, body[job[w]])]
  /\ Goto(w, "commit")
  /\ UNCHANGED <<busVars, clock, started, seen, effects, faults>>

\* The exception leaves consume() and takes the rest of the batch with it:
\* those entries stay pending, and nobody reads them again.
Stopped(w) == Now(w, "down", NoEntry, {})

\* A deal the projection does not have is not guessed: UnknownDealError ends
\* the process, and the container starts it again.
Lookup(w) ==
  /\ pc[w] = "lookup"
  /\ \/ /\ body[job[w]] \in ToSet(refs[w])
        /\ Goto(w, "admit")
        /\ UNCHANGED raised
     \/ /\ body[job[w]] \notin ToSet(refs[w])
        /\ raised' = raised \cup {job[w]}
        /\ Stopped(w)
  /\ UNCHANGED <<busVars, clock, refs, started, seen, marks, answers, faults>>

Expired(w) == clock - started[w] >= Budget

BugOnTime(w, from, to) ==                 \* asked before the read only
  /\ pc[w] = from
  /\ Goto(w, IF Expired(w) /\ from = "admit" THEN "commit" ELSE to)
  /\ UNCHANGED <<busVars, clock, refs, started, seen, effects, faults>>
\* The worker goes on while the budget lasts.
OnTime(w, from, to) ==
  /\ pc[w] = from
  /\ Goto(w, IF Expired(w) THEN "commit" ELSE to)
  /\ UNCHANGED <<busVars, clock, refs, started, seen, effects, faults>>

\* revalidate(): nothing is read when the budget is already spent.
Admit(w) == OnTime(w, "admit", "read")

\* The live read takes its time: it shows the listing as it is at some moment
\* after the check.  An unreadable listing gets no answer.
Read(w) ==
  /\ pc[w] = "read"
  /\ \/ Goto(w, "commit") /\ UNCHANGED seen
     \/ /\ \E p \in LivePrice, b \in BOOLEAN :
             seen' = [seen EXCEPT ![w] = [price |-> p, in_stock |-> b, at |-> clock]]
        /\ Goto(w, "judge")
  /\ UNCHANGED <<busVars, clock, refs, started, effects, faults>>

\* A read that came back too late is thrown away; the handler asks once more
\* before it publishes.
Judge(w) == OnTime(w, "judge", "recheck")
Recheck(w) == OnTime(w, "recheck", "send")

\* price_within_tolerance: the delta, over the detected price and taken
\* exactly, is at most 0.02.
BugWithinTolerance(detected, current) == 50 * (current - detected) <= detected
WithinTolerance(detected, current) ==
  /\ 50 * (current - detected) <= detected
  /\ 50 * (detected - current) <= detected

\* revalidation_changed, with no stock to compare with.
Changed(detected, read) ==
  ~ read.in_stock \/ ~ WithinTolerance(detected, read.price)

Answer(w) ==
  /\ pc[w] = "send"
  /\ answers' = answers \cup
       {[request |-> job[w], deal |-> body[job[w]],
         price |-> seen[w].price, in_stock |-> seen[w].in_stock,
         changed |-> Changed(Detected[body[job[w]]], seen[w]),
         at |-> seen[w].at, started |-> started[w]]}
  /\ Goto(w, "commit")
  /\ UNCHANGED <<busVars, clock, refs, started, seen, marks, raised, faults>>

\* mark_processed and the commit of its transaction: after the publish.
Commit(w) ==
  /\ pc[w] = "commit"
  /\ marks' = marks \cup {origin[job[w]]}
  /\ Goto(w, "ack")
  /\ UNCHANGED <<busVars, clock, refs, started, seen, answers, raised, faults>>

Ack(w) ==
  /\ pc[w] = "ack"
  /\ Bus!Settle(w, job[w])
  /\ Turn(w, batch[w])
  /\ UNCHANGED <<body, origin, clock, refs, started, seen, effects, faults>>

BugFail(w) ==
  /\ pc[w] \notin {"down", "idle"}
  /\ faults < MaxFaults
  /\ faults' = faults + 1
  /\ Stopped(w)
  /\ waiting' = waiting \cup {job[w]}
  /\ held' = [held EXCEPT ![w] = @ \ {job[w]}]
  /\ UNCHANGED <<settled, body, origin, clock, refs, started, seen, effects>>
\* The handler raises for another reason, a call fails, or the process ends.
Fail(w) ==
  /\ pc[w] # "down"
  /\ faults < MaxFaults
  /\ faults' = faults + 1
  /\ Stopped(w)
  /\ UNCHANGED <<busVars, clock, refs, started, seen, effects>>

-----------------------------------------------------------------------------
Work(w) ==
  \/ Start(w)
  \/ Take(w) \/ CheckMark(w) \/ Record(w) \/ Lookup(w) \/ Admit(w) \/ Read(w)
  \/ Judge(w) \/ Recheck(w) \/ Answer(w) \/ Commit(w) \/ Ack(w)

Around ==
  \/ \E e \in Scored, d \in Deal : Announce(e, d)
  \/ \E e \in Request, d \in Deal : Ask(e, d)
  \/ \E e, o \in Entry : SendAgain(e, o)
  \/ Tick

Next == Around \/ \E w \in Worker : Work(w) \/ Fail(w)

Spec == Init /\ [][Next]_vars

\* A running process takes its next step and a container restarts.
FairSpec == Spec /\ \A w \in Worker : WF_vars(Work(w))

-----------------------------------------------------------------------------
(***************************************************************************)
(* Properties.                                                             *)
(***************************************************************************)
Handled(s) == s \notin waiting /\ ~ Bus!IsNew(s)

\* deal_reference.py: no reference price is guessed.  A deal that gets an
\* answer was announced, and the announcement was delivered first.
AnswersAreGrounded ==
  \A a \in answers :
    /\ a.deal = body[a.request]
    /\ \E s \in Scored : body[s] = a.deal /\ Handled(s)

\* revalidator.py: what an answer says was read for this very request and
\* inside its budget, although the read begins after the budget was asked and
\* may take any time.
AnswersAreFresh ==
  \A a \in answers : a.started <= a.at /\ a.at - a.started < Budget

\* STATE_TRANSITIONS.md, "price delta > 2% in either direction, OR any change
\* in in_stock": a user is let through only if the listing is in stock at a
\* price in whole paise from 98% to 102%, both ends included, of the one that
\* was announced; a user who is stopped although it is in stock is stopped by
\* a price outside (revalidation_changed).
InBand(price, detected) == 100 * price \in 98 * detected .. 102 * detected

TwoPercentIsTheLine ==
  \A a \in answers : \A s \in Scored :
    body[s] = body[a.request] =>
      (~ a.changed <=> a.in_stock /\ InBand(a.price, Detected[body[s]]))

Desk == INSTANCE RevalidationDesk WITH
  asked <- [r \in Request |-> body[r]],
  told <- {body[s] : s \in {t \in Scored : Handled(t)}},
  now <- clock,
  closed <- settled \cap Request,
  refused <- raised

\* The answers, with the bus, the copies, the replicas, the projections, the
\* marks and the failures hidden, are those of a desk as RevalidationDesk
\* describes it.
ImplementsDesk == Desk!Spec

\* main.py publishes before it marks.  A failure in between never makes the
\* service answer the same entry a second time.
AnsweredOnce ==
  \A a, b \in answers : a.request = b.request => a = b

\* main.py, process_once: the answer leaves before the mark commits, and the
\* lookup of the mark is a step of its own.  So the copies of one request may
\* all be answered, but only by workers that looked before the first mark
\* was in or by those that failed between the answer and the mark: whatever
\* the number of copies, there is no more than one answer for each worker
\* and each failure.
Answered(m) == {a \in answers : origin[a.request] = m}

CopiesGetFewAnswers ==
  \A m \in Request : Cardinality(Answered(m)) <= Cardinality(Worker) + faults

\* deal_reference.py: only the oldest deal is forgotten, and only when the
\* projection is full of newer ones; a deal that is announced again pushes no
\* other deal out.
Forgets(w, d) == d \in ToSet(refs[w]) /\ d \notin ToSet(refs'[w])

EvictsOnlyTheOldest ==
  [][\A w \in Worker, d \in Deal :
       Forgets(w, d) =>
         \/ pc[w] = "down"
         \/ d = refs[w][1] /\ Cardinality(ToSet(refs'[w])) = MaxDeals]_vars

\* e lies for ever with the worker that refused r: it was read with r, not
\* before it, and the exception ended the worker before it turned to e.
TakenAlong(e, r) ==
  /\ e[1] = r[1] /\ r[2] <= e[2] /\ e[2] < r[2] + BatchSize
  /\ \E w \in Worker : {e, r} \subseteq held[w] \ (batch[w] \cup {job[w]})

\* consumer.py, consume: UnknownDealError ends the process with its batch.
\* While nothing fails, whatever is on the streams is settled, with one
\* exception: a request that was refused, and the requests behind it that were
\* read with it.  An announcement is never taken along.
OnlyRefusalsLoseRequests ==
  \A e \in Entry : e \in waiting ~>
    e \in settled \/ faults > 0 \/ \E r \in raised : TakenAlong(e, r)

\* deal_reference.py: the projection "survives a restart": the service knows
\* a deal whose announcement it has acknowledged.
KnownDealIsAnswered ==
  \A w \in Worker, s \in settled \cap Scored :
    pc[w] = "lookup" /\ body[s] = body[job[w]] => body[s] \in ToSet(refs[w])

=============================================================================
