--------------------------- MODULE EventDelivery ---------------------------
(***************************************************************************)
(* What one consumer group promises about the entries of its streams, with *)
(* no word about how: an entry that was added waits, is delivered to one   *)
(* worker, and is settled by that worker.  There is no way back: an entry  *)
(* whose worker died stays held for ever, because nothing in the bus       *)
(* client claims it again.  ConsumerGroup implements this specification    *)
(* and DealEngine consumes from it.                                        *)
(***************************************************************************)
EXTENDS Naturals

CONSTANTS
  Entry,    \* <<s, i>> is the i-th entry added to stream s
  Worker    \* the processes of the service

VARIABLES
  waiting,  \* added, not delivered yet
  held,     \* held[w]: delivered to w, not settled
  settled   \* acknowledged

vars == <<waiting, held, settled>>

Init ==
  /\ waiting = {}
  /\ held = [w \in Worker |-> {}]
  /\ settled = {}

IsNew(e) ==
  /\ e \notin waiting \cup settled
  /\ \A w \in Worker : e \notin held[w]

Add(e) ==
  /\ IsNew(e)
  /\ waiting' = waiting \cup {e}
  /\ UNCHANGED <<held, settled>>

\* S leaves no older entry of the same stream behind.
OldestFirst(S) ==
  \A e \in S : \A f \in waiting : f[1] = e[1] /\ f[2] < e[2] => f \in S

Deliver(w, S) ==
  /\ S # {}
  /\ OldestFirst(S)
  /\ waiting' = waiting \ S
  /\ held' = [held EXCEPT ![w] = @ \cup S]
  /\ UNCHANGED settled

Settle(w, e) ==
  /\ e \in held[w]
  /\ held' = [held EXCEPT ![w] = @ \ {e}]
  /\ settled' = settled \cup {e}
  /\ UNCHANGED waiting

Next ==
  \/ \E e \in Entry : Add(e)
  \/ \E w \in Worker : \E S \in SUBSET waiting : Deliver(w, S)
  \/ \E w \in Worker : \E e \in held[w] : Settle(w, e)

Spec == Init /\ [][Next]_vars

============================================================================
