----------------------------- MODULE Scheduler ------------------------------
(***************************************************************************)
(* scheduler.c: a binary heap of timed events in a fixed array, a clock,   *)
(* and the loop that calls the callbacks of the events that are due.       *)
(*                                                                         *)
(* The program is sequential, and a callback may insert events while the   *)
(* loop is running.  Each action is one call of a function of scheduler.c  *)
(* or one iteration of a recursive one; pc says where control is.  Who     *)
(* calls the scheduler is left open here: Timer.tla is the caller the      *)
(* library has.                                                            *)
(*                                                                         *)
(* insert_event copies sizeof(event) bytes from the address of its pointer *)
(* parameter, not from the object the pointer designates: the timestamp of *)
(* the stored event is the address of the caller's object, and its other   *)
(* fields are whatever words follow the parameter on the stack.            *)
(***************************************************************************)
EXTENDS Integers, FiniteSets

CONSTANTS
  MAX_EVENTS,  \* LIBYAGBE_SCHEDULER_MAX_EVENTS
  Wrap,        \* timestamps are uintmax_t: the clock counts modulo Wrap
  Cycles,      \* what add_cycles is called with
  Callbacks,   \* the callbacks that are functions of the program
  Words,       \* what a cb_func field may hold
  Types,       \* what a type field may hold
  Addresses,   \* where the objects given to insert_event may lie
  StaleWords,  \* what may follow the parameter of insert_event on the stack
  Foreign      \* what its owners leave in the memory around the array, read as events

VARIABLES
  events,         \* scheduler.events, and the memory around it in the same cells
  heap_size,      \* scheduler.heap_size
  timestamp_now,  \* scheduler.timestamp_now
  timestamp_next, \* the argument of step, kept between calls
  pc,             \* where control is
  at,             \* the argument of the heapify function that runs
  ret,            \* where the insertion under way returns to
  ordered         \* history: nothing has disturbed the order of the heap

NullFunction == "NULL"
FirstType == "TIMA_INCREMENT"
Time == 0 .. Wrap - 1
Slots == 0 .. MAX_EVENTS - 1
Event == [timestamp : Time, cb : Words, type : Types]
ZeroEvent == [timestamp |-> 0, cb |-> NullFunction, type |-> FirstType]

ASSUME SizeAssumption == MAX_EVENTS \in Nat /\ MAX_EVENTS >= 2
ASSUME ClockAssumption ==
  Wrap \in Nat \ {0} /\ Cycles \subseteq Nat /\ Addresses \subseteq Time
ASSUME WordAssumption ==
  /\ NullFunction \in Words \ Callbacks
  /\ FirstType \in Types
  /\ StaleWords \subseteq [cb : Words, type : Types]
  /\ Foreign \subseteq Event /\ Foreign # {}

queue == <<events, heap_size>>
clock == <<timestamp_now, timestamp_next>>
control == <<pc, at, ret>>
vars == <<queue, clock, control, ordered>>

-----------------------------------------------------------------------------
(* The index is a size_t and is scaled by the size of an event: (0 - 1) / 2 *)
(* designates the cell in front of the array, and so does the parent of    *)
(* that index.  Division rounds down here, so -1 is both.                  *)
Front == -1
get_parent_node(index) == (index - 1) \div 2
(* Slip: the left child of a heap whose first node is numbered 1.          *)
LeftChildFromOne(index) == (index + 1) * 2
get_left_child_of_node(index) == index * 2 + 1
get_right_child_of_node(index) == index * 2 + 2

(* The cells the code may reach: the one in front of the array, the array  *)
(* and the children of its slots.                                          *)
Cells == Front .. 2 * MAX_EVENTS

(* A cell outside the array belongs to another variable: what is read there*)
(* is what the scheduler wrote last, or what the owner has put there.      *)
ContentsOf(index) ==
  IF index \in Slots THEN {events[index]} ELSE {events[index]} \cup Foreign

(* SWAP of the cell index, whose content was read, with the cell node.     *)
SwapWith(index, node, content) ==
  [events EXCEPT ![index] = events[node], ![node] = content]

-----------------------------------------------------------------------------
Init ==
  /\ events = [i \in Cells |-> IF i \in Slots THEN ZeroEvent ELSE CHOOSE e \in Foreign : TRUE]
  /\ heap_size = 0
  /\ timestamp_now = 0
  /\ timestamp_next = 0
  /\ pc = "idle"
  /\ at = 0
  /\ ret = "idle"
  /\ ordered = TRUE

Reset ==
  /\ pc = "idle"
  /\ events' = [i \in Cells |-> IF i \in Slots THEN ZeroEvent ELSE events[i]]
  /\ heap_size' = 0
  /\ timestamp_now' = 0
  /\ timestamp_next' = 0
  /\ ordered' = TRUE
  /\ UNCHANGED control

AssertFails ==
  /\ pc' = "aborted"
  /\ UNCHANGED <<queue, clock, at, ret, ordered>>

CopyParameter(address, words) ==
  events' = [events EXCEPT ![heap_size] =
               [timestamp |-> address, cb |-> words.cb, type |-> words.type]]

(* The call of insert_event at `from', whose caller goes on at `to'.       *)
InsertEvent(event_address, from, to) ==
  /\ pc = from
  /\ \/ heap_size = MAX_EVENTS - 1 /\ AssertFails
     \/ /\ heap_size # MAX_EVENTS - 1
        /\ \E words \in StaleWords : CopyParameter(event_address, words)
        /\ pc' = "up"
        /\ at' = heap_size
        /\ ret' = to
        /\ UNCHANGED <<heap_size, clock, ordered>>

InsertReturns ==
  /\ heap_size' = heap_size + 1
  /\ pc' = ret

(* Slip: heapify_bottom_top swaps once and does not call itself again.     *)
SiftUpOnce ==
  LET parent == get_parent_node(at)
      smaller == events[parent].timestamp > events[at].timestamp
  IN /\ pc = "up"
     /\ at > 0
     /\ InsertReturns
     /\ events' = IF smaller THEN SwapWith(parent, at, events[parent]) ELSE events
     /\ UNCHANGED <<at, ordered, clock, ret>>

(* Slip: the comparison of heapify_bottom_top the other way around.        *)
SiftUpInverted ==
  LET parent == get_parent_node(at)
      larger == events[parent].timestamp < events[at].timestamp
  IN /\ pc = "up"
     /\ at > 0
     /\ \/ /\ larger
           /\ events' = SwapWith(parent, at, events[parent])
           /\ at' = parent
           /\ UNCHANGED <<heap_size, pc, ordered>>
        \/ /\ ~larger
           /\ InsertReturns
           /\ UNCHANGED <<events, at, ordered>>
     /\ UNCHANGED <<clock, ret>>

(* heapify_bottom_top below the root.                                      *)
SiftUp ==
  LET parent == get_parent_node(at)
      smaller == events[parent].timestamp > events[at].timestamp
  IN /\ pc = "up"
     /\ at > 0
     /\ \/ /\ smaller
           /\ events' = SwapWith(parent, at, events[parent])
           /\ at' = parent
           /\ UNCHANGED <<heap_size, pc, ordered>>
        \/ /\ ~smaller
           /\ InsertReturns
           /\ UNCHANGED <<events, at, ordered>>
     /\ UNCHANGED <<clock, ret>>

(* heapify_bottom_top at the root compares it with the cell in front of the*)
(* array, and swaps a larger timestamp there into the heap.                *)
SiftUpRoot ==
  /\ pc = "up"
  /\ at = 0
  /\ \E front \in ContentsOf(Front) :
       \/ /\ front.timestamp > events[0].timestamp
          /\ events' = SwapWith(Front, 0, front)
          /\ at' = Front
          /\ ordered' = (heap_size = 0)
          /\ UNCHANGED <<heap_size, pc>>
       \/ /\ front.timestamp <= events[0].timestamp
          /\ InsertReturns
          /\ UNCHANGED <<events, at, ordered>>
  /\ UNCHANGED <<clock, ret>>

(* heapify_bottom_top in front of the array: its parent is the same cell,  *)
(* and no cell is larger than itself.                                      *)
SiftUpFront ==
  /\ pc = "up"
  /\ at = Front
  /\ InsertReturns
  /\ UNCHANGED <<events, at, ordered, clock, ret>>

-----------------------------------------------------------------------------
(* Slip: the clock is kept in a wider type than the timestamps.            *)
AddCyclesUnwrapped ==
  /\ pc = "idle"
  /\ \E cycles \in Cycles : timestamp_next' = timestamp_now + cycles
  /\ pc' = "loop"
  /\ UNCHANGED <<queue, timestamp_now, at, ret, ordered>>

AddCycles ==
  /\ pc = "idle"
  /\ \E cycles \in Cycles : timestamp_next' = (timestamp_now + cycles) % Wrap
  /\ pc' = "loop"
  /\ UNCHANGED <<queue, timestamp_now, at, ret, ordered>>

(* Slip: an event that is due exactly now has to wait.                     *)
EventIsOverdue == events[0].timestamp < timestamp_next /\ heap_size > 0

(* Slip: an event that the clock steps over is missed.                     *)
EventIsDueExactly == events[0].timestamp = timestamp_next /\ heap_size > 0

EventIsDue == events[0].timestamp <= timestamp_next /\ heap_size > 0

(* Calling a word that is no function of the program ends the program.     *)
CallCallback ==
  /\ pc = "loop"
  /\ EventIsDue
  /\ pc' = IF events[0].cb \in Callbacks THEN "callback" ELSE "crashed"
  /\ UNCHANGED <<queue, clock, at, ret, ordered>>

(* Slip: heap_size-- instead of --heap_size: the slot past the last event. *)
DeleteMinPastLast(from) ==
  /\ pc = from
  /\ timestamp_now' = events[0].timestamp
  /\ heap_size' = heap_size - 1
  /\ events' = [events EXCEPT ![0] = events[heap_size]]
  /\ ordered' = (heap_size <= 2)
  /\ pc' = "down"
  /\ at' = 0
  /\ UNCHANGED <<timestamp_next, ret>>

(* Slip: the last event is moved to the root and still counted.            *)
DeleteMinKeepsCount(from) ==
  /\ pc = from
  /\ timestamp_now' = events[0].timestamp
  /\ events' = [events EXCEPT ![0] = events[heap_size - 1]]
  /\ ordered' = (heap_size <= 2)
  /\ pc' = "down"
  /\ at' = 0
  /\ UNCHANGED <<heap_size, timestamp_next, ret>>

(* The callback returns at `from'; the rest of the loop body up to the     *)
(* call of heapify_top_bottom.  The root is read again, after the callback.*)
(* That the queue is not empty is asserted: see CallsStayInBounds.         *)
DeleteMin(from) ==
  /\ pc = from
  /\ timestamp_now' = events[0].timestamp
  /\ heap_size' = heap_size - 1
  /\ events' = [events EXCEPT ![0] = events[heap_size - 1]]
  /\ ordered' = (heap_size <= 2)
  /\ pc' = "down"
  /\ at' = 0
  /\ UNCHANGED <<timestamp_next, ret>>

DeleteReturns == pc' = "loop" /\ UNCHANGED <<events, at>>

(* heapify_top_bottom(at).  The bound tested before the left child is read *)
(* is that of the parent, so the left child may lie past the live events,  *)
(* or past the array.                                                      *)
SiftDown ==
  LET left == get_left_child_of_node(at)
      right == get_right_child_of_node(at)
  IN /\ pc = "down"
     /\ \/ /\ at < heap_size
           /\ \E l \in ContentsOf(left) :
                LET takeLeft == l.timestamp < events[at].timestamp
                    best == IF takeLeft THEN l ELSE events[at]
                    takeRight == /\ right < heap_size
                                 /\ events[right].timestamp < best.timestamp
                IN \/ /\ takeRight
                      /\ events' = SwapWith(right, at, events[right])
                      /\ at' = right
                      /\ UNCHANGED pc
                   \/ /\ takeLeft /\ ~takeRight
                      /\ events' = SwapWith(left, at, l)
                      /\ at' = left
                      /\ UNCHANGED pc
                   \/ ~takeLeft /\ ~takeRight /\ DeleteReturns
        \/ at >= heap_size /\ DeleteReturns
     /\ UNCHANGED <<heap_size, clock, ret, ordered>>

(* Slip: the clock stays at the last event that ran.                       *)
StepReturnsWithoutClock ==
  /\ pc = "loop"
  /\ ~EventIsDue
  /\ pc' = "idle"
  /\ UNCHANGED <<queue, clock, at, ret, ordered>>

(* The loop ends and add_cycles sets the clock.                            *)
StepReturns ==
  /\ pc = "loop"
  /\ ~EventIsDue
  /\ timestamp_now' = timestamp_next
  /\ pc' = "idle"
  /\ UNCHANGED <<queue, timestamp_next, at, ret, ordered>>

-----------------------------------------------------------------------------
(* Any caller: events are inserted between two calls of add_cycles, or by  *)
(* a callback, which may insert as many as it likes before it returns.     *)
ClientInserts ==
  \E address \in Addresses, from \in {"idle", "callback"} :
    InsertEvent(address, from, from)

Machinery ==
  \/ SiftUp \/ SiftUpRoot \/ SiftUpFront
  \/ CallCallback \/ SiftDown \/ StepReturns

Next ==
  Reset \/ ClientInserts \/ AddCycles \/ DeleteMin("callback") \/ Machinery

Spec == Init /\ [][Next]_vars

-----------------------------------------------------------------------------
Nodes == IF pc = "up" THEN (0 .. heap_size) \ {at} ELSE 0 .. heap_size - 1
InCallback == pc = "callback" \/ (pc = "up" /\ ret = "callback")
Stopped == pc \in {"aborted", "crashed"}

TypeOK ==
  /\ events \in [Cells -> Event]
  /\ heap_size \in 0 .. MAX_EVENTS - 1
  /\ timestamp_now \in Time
  /\ timestamp_next \in Time
  /\ pc \in {"idle", "up", "loop", "callback", "down", "aborted", "crashed"}
  /\ at \in Nat \cup {Front}
  /\ ret \in {"idle", "callback"}
  /\ ordered \in BOOLEAN

(* The cells that a heapify function has just written or reads next: an    *)
(* insertion the new event and its parent, a deletion the event moved and, *)
(* while that is a live one, its left child and a live right child.        *)
Accessed ==
  LET children == {get_left_child_of_node(at)} \cup
                  ({get_right_child_of_node(at)} \cap 0 .. heap_size - 1)
  IN CASE pc = "up"   -> {at, get_parent_node(at)}
       [] pc = "down" -> {at} \cup (IF at < heap_size THEN children ELSE {})
       [] OTHER       -> {}

(* The assertion of delete_min (scheduler.c:106) never fails: whatever the *)
(* callback inserted, the event it was called for is still counted.  An    *)
(* insertion touches the cell in front of the array and the slots up to    *)
(* its own, which leaves room for the count that follows.  A deletion      *)
(* touches, besides the root, nothing in front of it and less than twice   *)
(* as many cells as there are live events: it stays inside the array only  *)
(* while half of the slots are free (scheduler.c:72-74).                   *)
CallsStayInBounds ==
  /\ InCallback => heap_size > 0
  /\ pc = "up" => heap_size < MAX_EVENTS - 1 /\ Accessed \subseteq Front .. heap_size
  /\ pc = "down" => Accessed \ {0} \subseteq 1 .. 2 * heap_size - 1

(* Between two calls the clock is where the cycles added put it, whatever  *)
(* the loop wrote into timestamp_now from the events it ran.               *)
ClockIsExact == pc \in {"idle", "up"} /\ ~InCallback => timestamp_now = timestamp_next

(* Whenever no sift is under way, every event is no earlier than its       *)
(* parent and than the root, as long as nothing disturbed the order.       *)
HeapOrdered ==
  ordered /\ pc \notin {"up", "down"} =>
    \A i \in 0 .. heap_size - 1 :
      /\ events[0].timestamp <= events[i].timestamp
      /\ i > 0 => events[get_parent_node(i)].timestamp <= events[i].timestamp

(* While an insertion moves its event up, that event is the only one that  *)
(* may be out of place, and its children fit under its parent.             *)
OnlyTheNewEventIsMisplaced ==
  ordered /\ pc = "up" =>
    \A i \in 0 .. heap_size :
      /\ i # at \/ at <= 0 => events[0].timestamp <= events[i].timestamp
      /\ i > 0 /\ i # at =>
           events[get_parent_node(i)].timestamp <= events[i].timestamp
      /\ i > 0 /\ at > 0 /\ get_parent_node(i) = at =>
           events[get_parent_node(at)].timestamp <= events[i].timestamp

(* A deletion under way has lost the order unless it left one event behind.*)
DeletionsDisturb == ordered /\ pc = "down" => heap_size <= 1

IndInv ==
  /\ TypeOK
  /\ CallsStayInBounds
  /\ ClockIsExact
  /\ HeapOrdered
  /\ OnlyTheNewEventIsMisplaced
  /\ DeletionsDisturb

(* add_cycles returns with no pending event due while order is undisturbed.*)
NoneLeftBehind ==
  [][pc = "loop" /\ pc' = "idle" /\ ordered =>
       \A i \in 0 .. heap_size - 1 : events[i].timestamp > timestamp_now']_vars

-----------------------------------------------------------------------------
(* The refinement: the pending events are the live ones except the event   *)
(* that an insertion is still moving into place.                           *)
PendingEvents ==
  [e \in {events[i] : i \in Nodes} |-> Cardinality({i \in Nodes : events[i] = e})]

Phase ==
  CASE Stopped -> "stopped"
    [] InCallback -> "calling"
    [] pc = "loop" -> "dispatch"
    [] pc = "down" -> IF at < heap_size THEN "settling" ELSE "settled"
    [] OTHER -> "idle"

Queue == INSTANCE EventQueue WITH
  pending <- PendingEvents, size <- Cardinality(Nodes), now <- timestamp_next, phase <- Phase,
  Capacity <- MAX_EVENTS - 1

(* The heap in the array is a queue of events, as EventQueue describes it. *)
ImplementsEventQueue == Queue!Spec

(* scheduler.h:45-48: once an event has expired its function is called, so *)
(* none that has expired is pending when add_cycles is back.               *)
ExpiredEventsAreCalled ==
  [][pc = "loop" /\ pc' = "idle" =>
       \A i \in 0 .. heap_size - 1 : events[i].timestamp > timestamp_now']_vars

(* scheduler.h:48: an expired event has its function called before it goes.*)
(* step deletes the root it finds after the callback (scheduler.c:115-117),*)
(* which is the event it called only if callbacks leave the root alone.    *)
TheCalledEventIsDeleted == [][InCallback /\ InCallback' => events'[0] = events[0]]_vars
=============================================================================
