-------------------------- MODULE SchedulerProofs ---------------------------
(***************************************************************************)
(* Proofs of the safety properties of Scheduler, for every size of the     *)
(* array, every width of the clock and every content of the memory around  *)
(* the array.  IndInv is the inductive invariant: no conjunct of it is     *)
(* inductive alone, since typing needs the bounds of an insertion, the     *)
(* order between calls needs the order during a sift, and the bounds need  *)
(* that a running callback has its event still counted.                    *)
(***************************************************************************)
EXTENDS Scheduler, TLAPS

(* The parent of a node of the heap other than the root lies before it.    *)
LEMMA ParentIsBefore ==
  \A i \in Nat : i > 0 => get_parent_node(i) \in Nat /\ get_parent_node(i) < i
  BY DEF get_parent_node

(* The clock stays within its width when cycles are added to it.           *)
LEMMA ClockWraps ==
  \A t \in Time, c \in Cycles : (t + c) % Wrap \in Time
  BY ClockAssumption DEF Time

(* The array lies in the cells the code reaches, with all that is read.    *)
LEMMA CellsAre ==
  /\ Front \in Cells /\ Front \notin Nat /\ 0 \in Slots
  /\ \A i \in Slots : i \in Cells /\ i \in Nat
  /\ \A i \in Nat : i < MAX_EVENTS =>
       i \in Slots /\ get_left_child_of_node(i) \in Cells
  BY SizeAssumption DEF Cells, Slots, Front, get_left_child_of_node

LEMMA ZeroIsAnEvent == ZeroEvent \in Event
  BY ClockAssumption, WordAssumption DEF ZeroEvent, Event, Time

LEMMA ContentsAreEvents ==
  ASSUME TypeOK, NEW i \in Cells
  PROVE  \A e \in ContentsOf(i) : e \in Event
  BY WordAssumption DEF TypeOK, ContentsOf

LEMMA SwapsStayTyped ==
  ASSUME events \in [Cells -> Event], NEW i \in Cells, NEW j \in Cells, i # j,
         NEW e \in Event
  PROVE  /\ SwapWith(i, j, e) \in [Cells -> Event]
         /\ SwapWith(i, j, e)[i] = events[j] /\ SwapWith(i, j, e)[j] = e
         /\ \A k \in Cells : k # i /\ k # j => SwapWith(i, j, e)[k] = events[k]
  BY DEF SwapWith

(* The parent of the cell in front of the array is that cell again, and    *)
(* children lie before twice the number of the live events.                *)
LEMMA ParentInBounds ==
  \A h \in Nat : \A i \in Front .. h : get_parent_node(i) \in Front .. h
  BY DEF get_parent_node, Front

LEMMA ChildrenInBounds ==
  \A h \in Nat, i \in Nat : i < h =>
    /\ get_left_child_of_node(i) \in 1 .. 2 * h - 1
    /\ {get_right_child_of_node(i)} \cap 0 .. h - 1 \subseteq 1 .. 2 * h - 1
  BY DEF get_left_child_of_node, get_right_child_of_node

LEMMA InitHolds == Init => IndInv
<1> SUFFICES ASSUME Init
             PROVE  IndInv
  OBVIOUS
<1>1. events \in [Cells -> Event]
  BY ZeroIsAnEvent, WordAssumption DEF Init
<1> QED
  BY <1>1, SizeAssumption, ClockAssumption
  DEF Init, IndInv, TypeOK, CallsStayInBounds, ClockIsExact, HeapOrdered,
      OnlyTheNewEventIsMisplaced, DeletionsDisturb, InCallback, Time

LEMMA ResetPreserves == IndInv /\ Reset => IndInv'
<1> SUFFICES ASSUME IndInv, Reset
             PROVE  IndInv'
  OBVIOUS
<1>1. events' \in [Cells -> Event]
  BY ZeroIsAnEvent DEF Reset, IndInv, TypeOK
<1> QED
  BY <1>1, SizeAssumption, ClockAssumption
  DEF Reset, IndInv, TypeOK, CallsStayInBounds, ClockIsExact, HeapOrdered,
      OnlyTheNewEventIsMisplaced, DeletionsDisturb, InCallback, Time, control

LEMMA InsertPreserves == IndInv /\ ClientInserts => IndInv'
<1> SUFFICES ASSUME IndInv,
                    NEW address \in Addresses, NEW from \in {"idle", "callback"},
                    InsertEvent(address, from, from)
             PROVE  IndInv'
  BY DEF ClientInserts
<1>1. CASE heap_size = MAX_EVENTS - 1 /\ AssertFails
  BY <1>1 DEF InsertEvent, AssertFails, IndInv, TypeOK, CallsStayInBounds,
     ClockIsExact, HeapOrdered, OnlyTheNewEventIsMisplaced, DeletionsDisturb, InCallback,
     queue, clock
<1>2. CASE heap_size # MAX_EVENTS - 1
  <2>1. PICK words \in StaleWords : CopyParameter(address, words)
    BY <1>2 DEF InsertEvent
  <2>2. /\ pc = from /\ pc' = "up" /\ at' = heap_size /\ ret' = from
        /\ UNCHANGED <<heap_size, timestamp_now, timestamp_next, ordered>>
    BY <1>2 DEF InsertEvent, clock
  <2>3. heap_size \in Nat /\ heap_size < MAX_EVENTS - 1 /\ heap_size \in Cells
    BY <1>2, SizeAssumption DEF IndInv, TypeOK, Cells, Front
  <2> DEFINE new == [timestamp |-> address, cb |-> words.cb, type |-> words.type]
  <2>4. new \in Event
    BY ClockAssumption, WordAssumption DEF Event
  <2>5. events' = [events EXCEPT ![heap_size] = new]
    BY <2>1 DEF CopyParameter
  <2> HIDE DEF new
  <2>6. TypeOK'
    BY <2>2, <2>3, <2>4, <2>5 DEF IndInv, TypeOK
  <2>7. CallsStayInBounds' /\ ClockIsExact' /\ HeapOrdered' /\ DeletionsDisturb'
    <3>1. Accessed' \subseteq Front .. heap_size
      <4>1. heap_size \in Front .. heap_size
        BY <2>3 DEF Front
      <4> QED
        BY <2>2, <2>3, <4>1, ParentInBounds DEF Accessed
    <3> QED
      BY <2>2, <2>3, <3>1 DEF IndInv, CallsStayInBounds, ClockIsExact, HeapOrdered,
         DeletionsDisturb, InCallback
  <2>8. OnlyTheNewEventIsMisplaced'
    <3> SUFFICES ASSUME ordered, NEW i \in 0 .. heap_size
                 PROVE  /\ i # heap_size \/ heap_size <= 0 =>
                             events'[0].timestamp <= events'[i].timestamp
                        /\ i > 0 /\ i # heap_size =>
                             events'[get_parent_node(i)].timestamp
                               <= events'[i].timestamp
                        /\ ~(i > 0 /\ get_parent_node(i) = heap_size)
      BY <2>2 DEF OnlyTheNewEventIsMisplaced
    <3>1. i > 0 => get_parent_node(i) \in Nat /\ get_parent_node(i) < i
      BY <2>3, ParentIsBefore
    <3>2. HeapOrdered /\ pc \notin {"up", "down"}
      BY <2>2 DEF IndInv
    <3>3. CASE i = heap_size
      <4>1. events'[i].timestamp \in Nat
        BY <2>3, <2>4, <2>5, <3>3, ClockAssumption
        DEF IndInv, TypeOK, Event, Time
      <4> QED
        BY <2>3, <3>1, <3>3, <4>1
    <3>4. CASE i < heap_size
      <4>1. i \in 0 .. heap_size - 1 /\ i \in Cells /\ 0 \in Cells /\ heap_size # 0
        BY <2>3, <3>4, CellsAre, SizeAssumption
      <4>2. events'[i] = events[i] /\ events'[0] = events[0]
        BY <2>3, <2>5, <3>4, <4>1 DEF IndInv, TypeOK
      <4>3. i > 0 => events'[get_parent_node(i)] = events[get_parent_node(i)]
        BY <2>3, <2>5, <3>1, <3>4, CellsAre DEF IndInv, TypeOK
      <4> QED
        BY <2>3, <3>1, <3>2, <3>4, <4>1, <4>2, <4>3 DEF HeapOrdered
    <3> QED
      BY <2>3, <3>3, <3>4
  <2> QED
    BY <2>6, <2>7, <2>8 DEF IndInv
<1> QED
  BY <1>1, <1>2 DEF InsertEvent

LEMMA InsertionIsAt ==
  IndInv /\ pc = "up" =>
    at \in Front .. heap_size /\ heap_size \in Nat /\ heap_size < MAX_EVENTS - 1
  BY DEF IndInv, TypeOK, CallsStayInBounds, Accessed

LEMMA DeletionIsAt ==
  IndInv /\ pc = "down" => at \in Nat /\ heap_size \in 0 .. MAX_EVENTS - 1
  BY DEF IndInv, TypeOK, CallsStayInBounds, Accessed

(* The insertion returns from the slot where its event belongs, or from the*)
(* cell in front of the array.                                             *)
LEMMA ReturnPreserves ==
  ASSUME IndInv, pc = "up", InsertReturns, at' = at,
         UNCHANGED <<events, clock, ret, ordered>>,
         ordered => \A i \in 0 .. heap_size :
           /\ events[0].timestamp <= events[i].timestamp
           /\ i > 0 => events[get_parent_node(i)].timestamp <= events[i].timestamp
  PROVE  IndInv'
<1>1. /\ heap_size \in Nat /\ heap_size < MAX_EVENTS - 1
      /\ heap_size' = heap_size + 1 /\ pc' = ret
      /\ timestamp_now' = timestamp_now /\ timestamp_next' = timestamp_next
  BY InsertionIsAt DEF InsertReturns, clock
<1>2. ret \in {"idle", "callback"}
  BY DEF IndInv, TypeOK
<1>3. TypeOK' /\ CallsStayInBounds' /\ ClockIsExact'
  BY <1>1, <1>2, SizeAssumption
  DEF IndInv, TypeOK, CallsStayInBounds, ClockIsExact, InCallback
<1>4. DeletionsDisturb' /\ OnlyTheNewEventIsMisplaced'
  BY <1>1, <1>2 DEF DeletionsDisturb, OnlyTheNewEventIsMisplaced
<1>5. HeapOrdered'
  <2>1. 0 .. heap_size' - 1 = 0 .. heap_size
    BY <1>1
  <2> QED
    BY <2>1 DEF HeapOrdered
<1> QED
  BY <1>3, <1>4, <1>5 DEF IndInv

LEMMA SiftUpPreserves == IndInv /\ SiftUp => IndInv'
<1> DEFINE parent == get_parent_node(at)
<1> DEFINE smaller == events[parent].timestamp > events[at].timestamp
<1> SUFFICES ASSUME IndInv, SiftUp
             PROVE  IndInv'
  OBVIOUS
<1>1. /\ pc = "up" /\ at > 0 /\ at \in Nat /\ at <= heap_size
      /\ heap_size \in Nat /\ heap_size < MAX_EVENTS - 1
      /\ timestamp_now' = timestamp_now /\ timestamp_next' = timestamp_next
      /\ ret' = ret
  BY SizeAssumption, InsertionIsAt DEF SiftUp, IndInv, clock, Front
<1>2. parent \in Nat /\ parent < at /\ parent \in Slots /\ at \in Slots /\ 0 \in Slots
  BY <1>1, ParentIsBefore, SizeAssumption DEF Slots
<1>3. \A s \in Slots : s \in Cells /\ events[s] \in Event /\ events[s].timestamp \in Nat
  BY ClockAssumption, CellsAre DEF IndInv, TypeOK, Event, Time
<1>4. CASE smaller
  <2>1. /\ events' = SwapWith(parent, at, events[parent])
        /\ at' = parent
        /\ heap_size' = heap_size /\ pc' = pc /\ ordered' = ordered
    BY <1>4 DEF SiftUp
  <2>2. /\ events' \in [Cells -> Event]
        /\ events'[parent] = events[at] /\ events'[at] = events[parent]
        /\ \A s \in Cells : s # parent /\ s # at => events'[s] = events[s]
    <3>1. parent \in Cells /\ at \in Cells /\ parent # at /\ events[parent] \in Event
      BY <1>1, <1>2, <1>3
    <3>2. events \in [Cells -> Event]
      BY DEF IndInv, TypeOK
    <3> HIDE DEF parent
    <3> QED
      BY <2>1, <3>1, <3>2, SwapsStayTyped
  <2>3. /\ events'[parent] = events[at] /\ events'[at] = events[parent]
        /\ \A s \in Slots : s # parent /\ s # at => events'[s] = events[s]
    BY <1>3, <2>2
  <2>4. TypeOK'
    BY <1>1, <1>2, <2>1, <2>2 DEF IndInv, TypeOK
  <2>5. CallsStayInBounds' /\ ClockIsExact' /\ HeapOrdered' /\ DeletionsDisturb'
    <3>1. parent \in Front .. heap_size
      BY <1>1, <1>2 DEF Front
    <3>2. Accessed' \subseteq Front .. heap_size
      BY <1>1, <2>1, <3>1, ParentInBounds DEF Accessed
    <3> QED
      BY <1>1, <1>2, <2>1, <3>2 DEF IndInv, CallsStayInBounds, ClockIsExact, HeapOrdered,
         DeletionsDisturb, InCallback
  <2>6. OnlyTheNewEventIsMisplaced'
    <3> SUFFICES ASSUME ordered, NEW i \in 0 .. heap_size
                 PROVE  /\ i # parent \/ parent <= 0 =>
                             events'[0].timestamp <= events'[i].timestamp
                        /\ i > 0 /\ i # parent =>
                             events'[get_parent_node(i)].timestamp
                               <= events'[i].timestamp
                        /\ i > 0 /\ parent > 0 /\ get_parent_node(i) = parent =>
                             events'[get_parent_node(parent)].timestamp
                               <= events'[i].timestamp
      BY <2>1 DEF OnlyTheNewEventIsMisplaced
    <3> DEFINE up == get_parent_node(i)
    <3> DEFINE grand == get_parent_node(parent)
    <3>1. i \in Slots /\ (i > 0 => up \in Slots /\ up < i)
      BY <1>1, ParentIsBefore, SizeAssumption DEF Slots
    <3>2. parent > 0 => grand \in Slots /\ grand < parent
      BY <1>2, ParentIsBefore, SizeAssumption DEF Slots
    <3>3. /\ i # at => events[0].timestamp <= events[i].timestamp
          /\ i > 0 /\ i # at => events[up].timestamp <= events[i].timestamp
          /\ i > 0 /\ up = at => events[parent].timestamp <= events[i].timestamp
          /\ i = at => up = parent
      BY <1>1, <1>2 DEF IndInv, OnlyTheNewEventIsMisplaced
    <3>4. /\ events[0].timestamp <= events[parent].timestamp
          /\ parent > 0 => events[grand].timestamp <= events[parent].timestamp
      BY <1>1, <1>2 DEF IndInv, OnlyTheNewEventIsMisplaced
    <3>5. events[at].timestamp < events[parent].timestamp
      BY <1>2, <1>3, <1>4
    <3> HIDE DEF parent, smaller, up, grand
    <3>6. /\ i \in Nat /\ events[i].timestamp \in Nat /\ events[0].timestamp \in Nat
          /\ events[parent].timestamp \in Nat /\ events[at].timestamp \in Nat
      BY <1>1, <1>2, <1>3, <3>1
    <3>7. i # parent \/ parent <= 0 => events'[0].timestamp <= events'[i].timestamp
      BY <1>1, <1>2, <2>3, <3>1, <3>3, <3>4, <3>5, <3>6
    <3>8. i > 0 /\ i # parent => events'[up].timestamp <= events'[i].timestamp
      <4> SUFFICES ASSUME i > 0, i # parent
                   PROVE  events'[up].timestamp <= events'[i].timestamp
        OBVIOUS
      <4>1. up \in Slots /\ up # i /\ events[up].timestamp \in Nat
        BY <1>3, <3>1, <3>6 DEF Slots
      <4>2. CASE i = at
        BY <1>1, <1>2, <2>3, <3>3, <3>5, <3>6, <4>1, <4>2
      <4>3. CASE i # at
        <5>1. events'[i] = events[i]
          BY <2>3, <3>1, <4>3
        <5>2. CASE up = parent
          BY <2>3, <3>3, <3>5, <3>6, <4>3, <5>1, <5>2
        <5>3. CASE up = at
          BY <2>3, <3>3, <5>1, <5>3
        <5>4. CASE up # parent /\ up # at
          BY <2>3, <3>3, <4>1, <4>3, <5>1, <5>4
        <5> QED
          BY <5>2, <5>3, <5>4
      <4> QED
        BY <4>2, <4>3
    <3>9. i > 0 /\ parent > 0 /\ up = parent =>
            events'[grand].timestamp <= events'[i].timestamp
      <4> SUFFICES ASSUME i > 0, parent > 0, up = parent
                   PROVE  events'[grand].timestamp <= events'[i].timestamp
        OBVIOUS
      <4>1. events'[grand] = events[grand] /\ events[grand].timestamp \in Nat
        BY <1>2, <1>3, <2>3, <3>2 DEF Slots
      <4>2. CASE i = at
        BY <2>3, <3>4, <4>1, <4>2
      <4>3. CASE i # at
        <5>1. events'[i] = events[i]
          BY <1>2, <2>3, <3>1, <4>3
        <5> QED
          BY <3>3, <3>4, <3>6, <4>1, <4>3, <5>1
      <4> QED
        BY <4>2, <4>3
    <3> QED
      BY <3>7, <3>8, <3>9 DEF parent, up, grand
  <2> QED
    BY <2>4, <2>5, <2>6 DEF IndInv
<1>5. CASE ~smaller
  <2>1. UNCHANGED <<events, at, ordered, clock, ret>> /\ InsertReturns
    BY <1>5 DEF SiftUp
  <2>2. ASSUME ordered, NEW i \in 0 .. heap_size
        PROVE  /\ events[0].timestamp <= events[i].timestamp
               /\ i > 0 => events[get_parent_node(i)].timestamp <= events[i].timestamp
    <3>1. /\ i # at => events[0].timestamp <= events[i].timestamp
          /\ i > 0 /\ i # at =>
               events[get_parent_node(i)].timestamp <= events[i].timestamp
          /\ events[0].timestamp <= events[parent].timestamp
      BY <1>1, <1>2, <2>2 DEF IndInv, OnlyTheNewEventIsMisplaced
    <3>2. events[parent].timestamp <= events[at].timestamp
      BY <1>2, <1>3, <1>5
    <3>3. events[0].timestamp <= events[at].timestamp
      BY <1>2, <1>3, <3>1, <3>2
    <3> QED
      BY <3>1, <3>2, <3>3
  <2> QED
    BY <1>1, <2>1, <2>2, ReturnPreserves
<1> QED
  BY <1>4, <1>5

(* At the root the insertion is over, unless memory in front of the array  *)
(* is swapped in: then the order is lost to any event that was there.      *)
LEMMA SiftUpRootPreserves == IndInv /\ SiftUpRoot => IndInv'
<1> SUFFICES ASSUME IndInv, SiftUpRoot
             PROVE  IndInv'
  OBVIOUS
<1>1. pc = "up" /\ at = 0 /\ UNCHANGED <<clock, ret>>
  BY DEF SiftUpRoot
<1>2. /\ heap_size \in Nat /\ heap_size < MAX_EVENTS - 1
      /\ Front \in Cells /\ 0 \in Cells /\ Front # 0
  BY <1>1, InsertionIsAt, CellsAre
<1>3. PICK front \in ContentsOf(Front) :
        \/ /\ front.timestamp > events[0].timestamp
           /\ events' = SwapWith(Front, 0, front)
           /\ at' = Front
           /\ ordered' = (heap_size = 0)
           /\ UNCHANGED <<heap_size, pc>>
        \/ InsertReturns /\ UNCHANGED <<events, at, ordered>>
  BY DEF SiftUpRoot
<1>4. CASE /\ events' = SwapWith(Front, 0, front)
           /\ at' = Front
           /\ ordered' = (heap_size = 0)
           /\ UNCHANGED <<heap_size, pc>>
  <2>1. TypeOK'
    <3>1. front \in Event
      BY <1>2, ContentsAreEvents DEF IndInv
    <3>2. events' \in [Cells -> Event]
      BY <1>2, <1>4, <3>1, SwapsStayTyped DEF IndInv, TypeOK
    <3> QED
      BY <1>1, <1>4, <3>2 DEF IndInv, TypeOK, clock
  <2>2. CallsStayInBounds' /\ ClockIsExact' /\ HeapOrdered' /\ DeletionsDisturb'
    <3>1. Accessed' \subseteq Front .. heap_size
      <4>1. Front \in Front .. heap_size
        BY <1>2 DEF Front
      <4> QED
        BY <1>1, <1>2, <1>4, <4>1, ParentInBounds DEF Accessed
    <3> QED
      BY <1>1, <1>2, <1>4, <3>1 DEF IndInv, CallsStayInBounds, ClockIsExact, HeapOrdered,
         DeletionsDisturb, InCallback, clock
  <2>3. OnlyTheNewEventIsMisplaced'
    <3> SUFFICES ASSUME heap_size = 0, NEW i \in 0 .. heap_size
                 PROVE  events'[0].timestamp <= events'[i].timestamp /\ ~(i > 0)
      BY <1>4 DEF OnlyTheNewEventIsMisplaced
    <3>1. events'[0].timestamp \in Nat
      BY <1>2, <2>1, ClockAssumption DEF TypeOK, Event, Time
    <3> QED
      BY <3>1
  <2> QED
    BY <2>1, <2>2, <2>3 DEF IndInv
<1>5. CASE InsertReturns /\ UNCHANGED <<events, at, ordered>>
  <2>1. ordered => \A i \in 0 .. heap_size :
          /\ events[0].timestamp <= events[i].timestamp
          /\ i > 0 => events[get_parent_node(i)].timestamp <= events[i].timestamp
    BY <1>1, <1>2 DEF IndInv, OnlyTheNewEventIsMisplaced
  <2> QED
    BY <1>1, <1>5, <2>1, ReturnPreserves
<1> QED
  BY <1>3, <1>4, <1>5

LEMMA SiftUpFrontPreserves == IndInv /\ SiftUpFront => IndInv'
<1> SUFFICES ASSUME IndInv, SiftUpFront
             PROVE  IndInv'
  OBVIOUS
<1>1. pc = "up" /\ at = -1 /\ InsertReturns /\ UNCHANGED <<events, at, ordered, clock, ret>>
  BY DEF SiftUpFront, Front
<1>2. ordered => \A i \in 0 .. heap_size :
        /\ events[0].timestamp <= events[i].timestamp
        /\ i > 0 => events[get_parent_node(i)].timestamp <= events[i].timestamp
  BY <1>1 DEF IndInv, OnlyTheNewEventIsMisplaced
<1> QED
  BY <1>1, <1>2, ReturnPreserves

LEMMA AddCyclesPreserves == IndInv /\ AddCycles => IndInv'
  BY ClockWraps
  DEF AddCycles, IndInv, TypeOK, CallsStayInBounds, ClockIsExact, HeapOrdered,
      OnlyTheNewEventIsMisplaced, DeletionsDisturb, InCallback, queue

LEMMA CallCallbackPreserves == IndInv /\ CallCallback => IndInv'
  BY DEF CallCallback, EventIsDue, IndInv, TypeOK, CallsStayInBounds,
         ClockIsExact, HeapOrdered, OnlyTheNewEventIsMisplaced,
         DeletionsDisturb, InCallback, queue, clock

LEMMA DeleteMinPreserves == IndInv /\ DeleteMin("callback") => IndInv'
<1> SUFFICES ASSUME IndInv, DeleteMin("callback")
             PROVE  IndInv'
  OBVIOUS
<1>1. heap_size \in 1 .. MAX_EVENTS - 1 /\ 0 \in Cells /\ heap_size - 1 \in Cells
  BY SizeAssumption
  DEF DeleteMin, IndInv, TypeOK, CallsStayInBounds, InCallback, Cells, Front
<1>2. TypeOK'
  BY <1>1, SizeAssumption DEF DeleteMin, IndInv, TypeOK, Event
<1>3. /\ pc' = "down" /\ at' = 0 /\ heap_size' = heap_size - 1
      /\ ordered' => heap_size <= 2
  BY DEF DeleteMin
<1>4. CallsStayInBounds' /\ ClockIsExact' /\ HeapOrdered'
      /\ OnlyTheNewEventIsMisplaced'
  <2>1. Accessed' \ {0} \subseteq 1 .. 2 * heap_size' - 1
    BY <1>1, <1>3, ChildrenInBounds DEF Accessed
  <2> QED
    BY <1>3, <2>1 DEF CallsStayInBounds, ClockIsExact, HeapOrdered, InCallback,
                      OnlyTheNewEventIsMisplaced
<1>5. DeletionsDisturb'
  BY <1>1, <1>3 DEF DeletionsDisturb
<1> QED
  BY <1>2, <1>4, <1>5 DEF IndInv

LEMMA SiftDownPreserves == IndInv /\ SiftDown => IndInv'
<1> SUFFICES ASSUME IndInv, SiftDown
             PROVE  IndInv'
  OBVIOUS
<1> DEFINE left == get_left_child_of_node(at)
<1> DEFINE right == get_right_child_of_node(at)
<1>1. \/ /\ right < heap_size
         /\ events' = SwapWith(right, at, events[right])
         /\ at' = right
         /\ UNCHANGED pc
      \/ /\ at < heap_size
         /\ \E l \in ContentsOf(left) : events' = SwapWith(left, at, l)
         /\ at' = left
         /\ UNCHANGED pc
      \/ DeleteReturns
  BY DEF SiftDown
<1>2. /\ pc = "down" /\ heap_size' = heap_size /\ ordered' = ordered /\ ret' = ret
      /\ timestamp_now' = timestamp_now /\ timestamp_next' = timestamp_next
  BY DEF SiftDown, clock
<1>3. /\ at \in Nat /\ heap_size \in 0 .. MAX_EVENTS - 1
      /\ left \in Nat /\ right \in Nat /\ at < right /\ at < left
  BY <1>2, DeletionIsAt DEF get_left_child_of_node, get_right_child_of_node
<1>4. at < heap_size => left \in 1 .. 2 * heap_size - 1 /\ left \in Cells /\ at \in Cells
  BY <1>3, ChildrenInBounds, CellsAre, SizeAssumption
<1> HIDE DEF left, right
<1>5. /\ \/ pc' = "loop"
         \/ pc' = "down"
      /\ at' \in Nat
      /\ pc' = "loop" => events' = events
  BY <1>1, <1>2, <1>3 DEF DeleteReturns
<1>6. events' \in [Cells -> Event]
  <2>1. CASE right < heap_size /\ events' = SwapWith(right, at, events[right])
    <3>1. right \in Cells /\ at \in Cells /\ events[right] \in Event
      BY <1>3, <2>1, CellsAre, SizeAssumption DEF IndInv, TypeOK
    <3> QED
      BY <1>3, <2>1, <3>1, SwapsStayTyped DEF IndInv, TypeOK
  <2>2. CASE at < heap_size /\ \E l \in ContentsOf(left) : events' = SwapWith(left, at, l)
    <3>1. PICK l \in Event : events' = SwapWith(left, at, l)
      BY <1>4, <2>2, ContentsAreEvents DEF IndInv
    <3> QED
      BY <1>3, <1>4, <2>2, <3>1, SwapsStayTyped DEF IndInv, TypeOK
  <2>3. CASE events' = events
    BY <2>3 DEF IndInv, TypeOK
  <2> QED
    BY <1>1, <2>1, <2>2, <2>3 DEF DeleteReturns
<1>7. TypeOK'
  BY <1>2, <1>5, <1>6 DEF IndInv, TypeOK
<1>8. CallsStayInBounds' /\ ClockIsExact' /\ DeletionsDisturb'
      /\ OnlyTheNewEventIsMisplaced'
  <2>1. pc' = "down" => Accessed' \ {0} \subseteq 1 .. 2 * heap_size - 1
    <3> SUFFICES ASSUME pc' = "down"
                 PROVE  Accessed' \ {0} \subseteq 1 .. 2 * heap_size - 1
      OBVIOUS
    <3>1. at' \in 1 .. 2 * heap_size - 1
      BY <1>1, <1>2, <1>3, <1>4 DEF DeleteReturns
    <3> QED
      BY <1>2, <1>3, <1>5, <3>1, ChildrenInBounds DEF Accessed
  <2> QED
    BY <1>2, <1>5, <2>1
    DEF IndInv, CallsStayInBounds, ClockIsExact, DeletionsDisturb, InCallback,
        OnlyTheNewEventIsMisplaced
<1>9. HeapOrdered'
  <2> SUFFICES ASSUME ordered, pc' = "loop", NEW i \in 0 .. heap_size - 1
               PROVE  /\ events[0].timestamp <= events[i].timestamp
                      /\ ~(i > 0)
    BY <1>2, <1>5 DEF HeapOrdered
  <2>1. heap_size <= 1
    BY <1>2 DEF IndInv, DeletionsDisturb
  <2>2. i = 0 /\ 0 \in Cells
    BY <1>3, <2>1, CellsAre
  <2>3. events[0].timestamp \in Nat
    BY <2>2, ClockAssumption DEF IndInv, TypeOK, Event, Time
  <2> QED
    BY <2>2, <2>3
<1> QED
  BY <1>7, <1>8, <1>9 DEF IndInv

LEMMA StepReturnsPreserves == IndInv /\ StepReturns => IndInv'
  BY DEF StepReturns, IndInv, TypeOK, CallsStayInBounds, ClockIsExact,
         HeapOrdered, OnlyTheNewEventIsMisplaced, DeletionsDisturb, InCallback,
         queue

LEMMA StutterPreserves == IndInv /\ UNCHANGED vars => IndInv'
  BY DEF vars, queue, clock, control, IndInv, TypeOK, CallsStayInBounds, Accessed,
         ClockIsExact, HeapOrdered, OnlyTheNewEventIsMisplaced,
         DeletionsDisturb, InCallback

(* Every state of the scheduler satisfies the inductive invariant.         *)
THEOREM Invariance == Spec => []IndInv
<1>1. IndInv /\ [Next]_vars => IndInv'
  BY ResetPreserves, InsertPreserves, SiftUpPreserves, SiftUpRootPreserves, SiftUpFrontPreserves,
     AddCyclesPreserves, CallCallbackPreserves, DeleteMinPreserves,
     SiftDownPreserves, StepReturnsPreserves, StutterPreserves
  DEF Next, Machinery
<1> QED
  BY InitHolds, <1>1, PTL DEF Spec

(* Every cell the code reaches always holds an event, and every counter    *)
(* stays in its range.                                                     *)
THEOREM TypeCorrect == Spec => []TypeOK
  BY Invariance, PTL DEF IndInv

(* scheduler.c:106 never fails; an insertion touches the cell in front of  *)
(* the array and the slots up to its own, the recursion there included;    *)
(* and a deletion nothing at or past twice the events it leaves.           *)
THEOREM BoundsHold == Spec => []CallsStayInBounds
  BY Invariance, PTL DEF IndInv

(* Between two calls of add_cycles the clock is the sum of the cycles.     *)
THEOREM ClockHolds == Spec => []ClockIsExact
  BY Invariance, PTL DEF IndInv

(* The heap is a heap, with its earliest event at the root, until a        *)
(* deletion leaves two events or memory in front of the array is swapped in.*)
THEOREM OrderHolds == Spec => []HeapOrdered
  BY Invariance, PTL DEF IndInv

(* add_cycles leaves no due event behind while order is undisturbed.       *)
THEOREM NothingDueIsLeftBehind == Spec => NoneLeftBehind
<1> DEFINE Left == pc = "loop" /\ pc' = "idle" /\ ordered =>
             \A i \in 0 .. heap_size - 1 : events[i].timestamp > timestamp_now'
<1>1. IndInv /\ [Next]_vars => [Left]_vars
  <2> SUFFICES ASSUME IndInv, [Next]_vars, pc = "loop", pc' = "idle", ordered,
                      NEW i \in 0 .. heap_size - 1
               PROVE  events[i].timestamp > timestamp_now'
    OBVIOUS
  <2>1. StepReturns
    BY DEF Next, Machinery, Reset, ClientInserts, InsertEvent, AddCycles,
           DeleteMin, SiftUp, SiftUpRoot, SiftUpFront, InsertReturns,
           CallCallback, SiftDown, DeleteReturns, vars, control
  <2>2. /\ timestamp_now' = timestamp_next /\ timestamp_next \in Nat
        /\ heap_size \in Nat /\ heap_size > 0 /\ 0 \in Cells /\ i \in Cells
    BY <2>1, SizeAssumption, ClockAssumption
    DEF StepReturns, IndInv, TypeOK, Time, Cells, Front
  <2>3. events[0].timestamp \in Nat /\ events[i].timestamp \in Nat
    BY <2>2, ClockAssumption DEF IndInv, TypeOK, Event, Time
  <2>4. events[0].timestamp > timestamp_next
    BY <2>1, <2>2, <2>3 DEF StepReturns, EventIsDue
  <2>5. events[0].timestamp <= events[i].timestamp
    BY DEF IndInv, HeapOrdered
  <2> QED
    BY <2>2, <2>3, <2>4, <2>5
<1> QED
  BY <1>1, Invariance, PTL DEF Spec, NoneLeftBehind
=============================================================================
