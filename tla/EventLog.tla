------------------------------ MODULE EventLog ------------------------------
(***************************************************************************)
(* What the event store promises of the table events, with no word about   *)
(* buses, copies, transactions or crashes: a log that only grows, in which *)
(* every event that was sent appears at most once, under a number of its   *)
(* own; what one writer adds comes in the order of its numbers; and an     *)
(* event is confirmed to the bus only when it is in the log.  Numbers are  *)
(* given out one by one and need not all be used.                          *)
(***************************************************************************)
EXTENDS Naturals

CONSTANTS
  Event,     \* event ids
  Writer     \* the replicas of the service

VARIABLES
  sent,      \* events that were published
  last,      \* the last number that was given out
  log,       \* [id, seq, by]: the event, its number, who added it
  confirmed  \* events whose entry was acknowledged

vars == <<sent, last, log, confirmed>>

Init ==
  /\ sent = {}
  /\ last = 0
  /\ log = {}
  /\ confirmed = {}

Logged(e) == \E r \in log : r.id = e

Send(e) ==
  /\ sent' = sent \cup {e}
  /\ UNCHANGED <<last, log, confirmed>>

GiveNumber ==
  /\ last' = last + 1
  /\ UNCHANGED <<sent, log, confirmed>>

Add(e, n, w) ==
  /\ e \in sent
  /\ ~ Logged(e)
  /\ \A r \in log : r.seq # n
  /\ \A r \in log : r.by = w => r.seq < n
  /\ log' = log \cup {[id |-> e, seq |-> n, by |-> w]}
  /\ UNCHANGED <<sent, last, confirmed>>

Confirm(e) ==
  /\ Logged(e)
  /\ confirmed' = confirmed \cup {e}
  /\ UNCHANGED <<sent, last, log>>

Next ==
  \/ \E e \in Event : Send(e)
  \/ GiveNumber
  \/ \E e \in Event, n \in 1 .. last, w \in Writer : Add(e, n, w)
  \/ \E e \in Event : Confirm(e)

Spec == Init /\ [][Next]_vars

=============================================================================
