----------------------------- MODULE EventQueue -----------------------------
(***************************************************************************)
(* What the scheduler promises to the code that uses it, without its heap. *)
(* Pending events form a bag.  An insertion adds one event, a fired event  *)
(* costs one event, time moves by what add_cycles was given.  The promises *)
(* about order hold while `ordered' does: the code loses the order of the  *)
(* queue when a deletion leaves two or more events behind, and when the    *)
(* smallest event is exchanged with the memory in front of the array.      *)
(***************************************************************************)
EXTENDS Naturals, FiniteSets, Bags

CONSTANTS
  Event,      \* records with a timestamp and a callback
  Callbacks,  \* the callbacks that are functions of the program
  Cycles,     \* what add_cycles is called with
  Wrap,       \* the clock counts modulo Wrap
  Capacity    \* how many events an assertion lets in

VARIABLES
  pending,    \* bag of the events in the queue
  size,       \* how many they are
  now,        \* the clock
  phase,      \* where the call in progress stands
  ordered     \* the promises about order still hold

vars == <<pending, size, now, phase, ordered>>

Events == BagToSet(pending)
Due(e) == e.timestamp <= now
Earliest(e) == \A f \in Events : e.timestamp <= f.timestamp
With(e) == pending (+) SetToBag({e})
Without(e) == pending (-) SetToBag({e})

Init ==
  /\ pending = EmptyBag
  /\ size = 0
  /\ now = 0
  /\ phase = "idle"
  /\ ordered = TRUE

Reset ==
  /\ phase = "idle"
  /\ pending' = EmptyBag
  /\ size' = 0
  /\ now' = 0
  /\ ordered' = TRUE
  /\ UNCHANGED phase

Insert ==
  /\ phase \in {"idle", "calling"}
  /\ size < Capacity
  /\ \E e \in Event : pending' = With(e)
  /\ size' = size + 1
  /\ ordered' \in {ordered, size = 0}
  /\ UNCHANGED <<now, phase>>

Advance ==
  /\ phase = "idle"
  /\ \E c \in Cycles : now' = (now + c) % Wrap
  /\ phase' = "dispatch"
  /\ UNCHANGED <<pending, size, ordered>>

(* A callback runs only on behalf of an event that is due, and of the      *)
(* earliest one while the queue is ordered.                                *)
Call ==
  /\ phase = "dispatch"
  /\ \E e \in Events : Due(e) /\ e.cb \in Callbacks /\ (ordered => Earliest(e))
  /\ phase' = "calling"
  /\ UNCHANGED <<pending, size, now, ordered>>

Remove ==
  /\ phase = "calling"
  /\ \E e \in Events : (ordered => Earliest(e)) /\ pending' = Without(e)
  /\ size' = size - 1
  /\ ordered' = (size <= 2)
  /\ phase' \in {"settling", "settled"}
  /\ UNCHANGED now

(* With two or more events left, a removal may replace one of them.        *)
Replace ==
  /\ phase = "settling"
  /\ size >= 2
  /\ \E x \in Events, y \in Event : pending' = Without(x) (+) SetToBag({y})
  /\ phase' = "settled"
  /\ UNCHANGED <<size, now, ordered>>

Continue ==
  /\ phase \in {"settling", "settled"}
  /\ phase' = "dispatch"
  /\ UNCHANGED <<pending, size, now, ordered>>

(* While the queue is ordered, no due event is left behind.                *)
Return ==
  /\ phase = "dispatch"
  /\ ordered => \A e \in Events : ~Due(e)
  /\ phase' = "idle"
  /\ UNCHANGED <<pending, size, now, ordered>>

(* The program stops in an insertion only when the queue is full, and in a *)
(* call only when a due event carries no function of the program.          *)
Stop ==
  /\ \/ phase \in {"idle", "calling"} /\ size = Capacity
     \/ phase = "dispatch" /\ \E e \in Events : Due(e) /\ e.cb \notin Callbacks
  /\ phase' = "stopped"
  /\ UNCHANGED <<pending, size, now, ordered>>

Next ==
  \/ Reset \/ Insert \/ Advance \/ Call \/ Remove
  \/ Replace \/ Continue \/ Return \/ Stop

Spec == Init /\ [][Next]_vars
=============================================================================
