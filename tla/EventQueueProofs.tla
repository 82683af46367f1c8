--------------------------- MODULE EventQueueProofs ---------------------------
(***************************************************************************)
(* The heap in its array implements EventQueue: every step of Scheduler,   *)
(* with the live slots counted into a bag, is a step of EventQueue or      *)
(* changes nothing of it, for every size of the array and every content of *)
(* the memory around it.                                                   *)
(***************************************************************************)
EXTENDS SchedulerProofs, FiniteSetTheorems

Count(ev, N, e) == Cardinality({i \in N : ev[i] = e})
BagOf(ev, N) == [e \in {ev[i] : i \in N} |-> Count(ev, N, e)]

Plus(B, e) ==
  [x \in DOMAIN B \cup {e} |->
     (IF x \in DOMAIN B THEN B[x] ELSE 0) + (IF x = e THEN 1 ELSE 0)]
Minus(B, e) ==
  [x \in {d \in DOMAIN B : d = e => B[d] > 1} |-> IF x = e THEN B[x] - 1 ELSE B[x]]

-----------------------------------------------------------------------------
(* How often an event occurs in the slots of N.                            *)
LEMMA Counted ==
  ASSUME NEW N, IsFiniteSet(N), NEW ev, NEW e
  PROVE  /\ Count(ev, N, e) \in Nat
         /\ Count(ev, N, e) > 0 <=> e \in {ev[i] : i \in N}
<1> DEFINE S == {i \in N : ev[i] = e}
<1>1. IsFiniteSet(S)
  <2>1. S \in SUBSET N
    OBVIOUS
  <2> QED
    BY <2>1, FS_Subset
<1>2. Cardinality(S) \in Nat
  BY <1>1, FS_CardinalityType
<1>3. Cardinality(S) = 0 <=> S = {}
  BY <1>1, FS_EmptySet
<1>4. S = {} <=> e \notin {ev[i] : i \in N}
  OBVIOUS
<1> HIDE DEF S
<1>5. Cardinality(S) > 0 <=> Cardinality(S) # 0
  BY <1>2
<1>6. Cardinality(S) > 0 <=> e \in {ev[i] : i \in N}
  BY <1>3, <1>4, <1>5
<1> QED
  BY <1>2, <1>6 DEF Count, S

(* One slot more counts one occurrence more of what it holds.              *)
LEMMA CountedIn ==
  ASSUME NEW N, IsFiniteSet(N), NEW x, x \notin N, NEW ev, NEW e
  PROVE  Count(ev, N \cup {x}, e) = Count(ev, N, e) + (IF ev[x] = e THEN 1 ELSE 0)
<1> DEFINE S == {i \in N : ev[i] = e}
<1>1. IsFiniteSet(S) /\ x \notin S
  <2>1. S \in SUBSET N
    OBVIOUS
  <2> QED
    BY <2>1, FS_Subset
<1>2. Cardinality(S) \in Nat
  BY <1>1, FS_CardinalityType
<1>3. CASE ev[x] = e
  <2>1. {i \in N \cup {x} : ev[i] = e} = S \cup {x}
    BY <1>3
  <2>2. Cardinality(S \cup {x}) = Cardinality(S) + 1
    BY <1>1, FS_AddElement
  <2>3. Count(ev, N \cup {x}, e) = Count(ev, N, e) + 1
    BY <2>1, <2>2 DEF Count
  <2> QED
    BY <1>3, <2>3
<1>4. CASE ev[x] # e
  <2>1. {i \in N \cup {x} : ev[i] = e} = S
    BY <1>4
  <2>2. Count(ev, N \cup {x}, e) = Count(ev, N, e)
    BY <2>1 DEF Count
  <2>3. Count(ev, N, e) \in Nat
    BY <1>2 DEF Count
  <2> QED
    BY <1>4, <2>2, <2>3
<1> QED
  BY <1>3, <1>4

LEMMA CountedAlike ==
  ASSUME NEW N, NEW ev, NEW fv, \A i \in N : ev[i] = fv[i], NEW e
  PROVE  Count(ev, N, e) = Count(fv, N, e)
<1>1. {i \in N : ev[i] = e} = {i \in N : fv[i] = e}
  OBVIOUS
<1> QED
  BY <1>1 DEF Count

(* Bags that count alike are the same.                                     *)
LEMMA SameBag ==
  ASSUME NEW N, IsFiniteSet(N), NEW M, IsFiniteSet(M), NEW ev, NEW fv,
         \A e : Count(ev, N, e) = Count(fv, M, e)
  PROVE  BagOf(ev, N) = BagOf(fv, M)
<1>1. \A e : e \in {ev[i] : i \in N} <=> Count(ev, N, e) > 0
  BY Counted
<1>2. \A e : e \in {fv[i] : i \in M} <=> Count(fv, M, e) > 0
  BY Counted
<1> DEFINE S == {ev[i] : i \in N}
<1> DEFINE T == {fv[i] : i \in M}
<1>3. \A e : e \in S <=> e \in T
  BY <1>1, <1>2
<1> HIDE DEF S, T
<1>4. S = T
  BY <1>3
<1>5. {ev[i] : i \in N} = {fv[i] : i \in M}
  BY <1>4 DEF S, T
<1> QED
  BY <1>5 DEF BagOf

LEMMA BagAdds ==
  ASSUME NEW N, IsFiniteSet(N), NEW x, x \notin N, NEW ev
  PROVE  BagOf(ev, N \cup {x}) = Plus(BagOf(ev, N), ev[x])
<1> DEFINE B == BagOf(ev, N)
<1>1. DOMAIN B = {ev[i] : i \in N}
  BY DEF BagOf
<1>2. {ev[i] : i \in N \cup {x}} = DOMAIN B \cup {ev[x]}
  BY <1>1
<1>3. \A e : Count(ev, N, e) = IF e \in DOMAIN B THEN B[e] ELSE 0
  <2> SUFFICES ASSUME NEW e
               PROVE  Count(ev, N, e) = IF e \in DOMAIN B THEN B[e] ELSE 0
    OBVIOUS
  <2>1. CASE e \in DOMAIN B
    BY <1>1, <2>1 DEF BagOf
  <2>2. CASE e \notin DOMAIN B
    <3>1. Count(ev, N, e) \in Nat /\ ~(Count(ev, N, e) > 0)
      BY <1>1, <2>2, Counted
    <3> QED
      BY <2>2, <3>1
  <2> QED
    BY <2>1, <2>2
<1>4. ASSUME NEW e
      PROVE  Count(ev, N \cup {x}, e)
               = (IF e \in DOMAIN B THEN B[e] ELSE 0) + (IF e = ev[x] THEN 1 ELSE 0)
  <2>1. Count(ev, N \cup {x}, e) = Count(ev, N, e) + (IF ev[x] = e THEN 1 ELSE 0)
    BY CountedIn
  <2>2. Count(ev, N, e) = IF e \in DOMAIN B THEN B[e] ELSE 0
    BY <1>3
  <2> HIDE DEF B
  <2> QED
    BY <2>1, <2>2
<1> HIDE DEF B
<1>5. BagOf(ev, N \cup {x}) = Plus(B, ev[x])
  BY <1>2, <1>4 DEF BagOf, Plus
<1> QED
  BY <1>5 DEF B

LEMMA BagLoses ==
  ASSUME NEW N, IsFiniteSet(N), NEW x, x \notin N, NEW ev
  PROVE  BagOf(ev, N) = Minus(BagOf(ev, N \cup {x}), ev[x])
<1> DEFINE B == BagOf(ev, N \cup {x})
<1>1. DOMAIN B = {ev[i] : i \in N \cup {x}}
  BY DEF BagOf
<1>2. ASSUME NEW e \in DOMAIN B
      PROVE  B[e] = Count(ev, N, e) + (IF ev[x] = e THEN 1 ELSE 0)
  <2>1. B[e] = Count(ev, N \cup {x}, e)
    BY <1>1 DEF BagOf
  <2> HIDE DEF B
  <2> QED
    BY <2>1, CountedIn
<1>3. \A e : Count(ev, N, e) \in Nat /\ (Count(ev, N, e) > 0 <=> e \in {ev[i] : i \in N})
  BY Counted
<1>4. ASSUME NEW d
      PROVE  d \in {ev[i] : i \in N} <=> d \in DOMAIN B /\ (d = ev[x] => B[d] > 1)
  <2>1. d \in {ev[i] : i \in N} => d \in DOMAIN B
    BY <1>1
  <2>2. d \in DOMAIN B /\ d # ev[x] => d \in {ev[i] : i \in N}
    BY <1>1
  <2>3. ASSUME d \in DOMAIN B, d = ev[x]
        PROVE  d \in {ev[i] : i \in N} <=> B[d] > 1
    <3>1. B[d] = Count(ev, N, d) + 1
      BY <1>2, <2>3
    <3>2. Count(ev, N, d) \in Nat
      BY <1>3
    <3>3. Count(ev, N, d) > 0 <=> B[d] > 1
      BY <3>1, <3>2
    <3> QED
      BY <1>3, <3>3
  <2> QED
    BY <2>1, <2>2, <2>3
<1>5. {ev[i] : i \in N} = {d \in DOMAIN B : d = ev[x] => B[d] > 1}
  BY <1>4
<1>6. \A e \in DOMAIN B : Count(ev, N, e) = IF e = ev[x] THEN B[e] - 1 ELSE B[e]
  BY <1>2, <1>3
<1> HIDE DEF B
<1>7. BagOf(ev, N) = Minus(B, ev[x])
  BY <1>5, <1>6 DEF BagOf, Minus
<1> QED
  BY <1>7 DEF B

(* An event that moves to a free slot, or two that change places, leave    *)
(* the bag as it is.                                                       *)
LEMMA BagMoves ==
  ASSUME NEW N, IsFiniteSet(N), NEW x, x \notin N, NEW y, y \notin N,
         NEW ev, NEW fv, \A i \in N : ev[i] = fv[i], fv[y] = ev[x]
  PROVE  BagOf(fv, N \cup {y}) = BagOf(ev, N \cup {x})
<1>1. IsFiniteSet(N \cup {x}) /\ IsFiniteSet(N \cup {y})
  BY FS_AddElement
<1>2. ASSUME NEW e
      PROVE  Count(fv, N \cup {y}, e) = Count(ev, N \cup {x}, e)
  <2>1. Count(fv, N, e) = Count(ev, N, e)
    BY CountedAlike
  <2>2. Count(ev, N \cup {x}, e) = Count(ev, N, e) + (IF ev[x] = e THEN 1 ELSE 0)
    BY CountedIn
  <2>3. Count(fv, N \cup {y}, e) = Count(fv, N, e) + (IF fv[y] = e THEN 1 ELSE 0)
    BY CountedIn
  <2> QED
    BY <2>1, <2>2, <2>3
<1> QED
  BY <1>1, <1>2, SameBag

LEMMA BagSwaps ==
  ASSUME NEW N, IsFiniteSet(N), NEW x \in N, NEW y \in N, x # y,
         NEW ev, NEW fv, \A i \in N \ {x, y} : ev[i] = fv[i],
         fv[x] = ev[y], fv[y] = ev[x]
  PROVE  BagOf(fv, N) = BagOf(ev, N)
<1> DEFINE M == N \ {x, y}
<1>1. IsFiniteSet(M) /\ x \notin M /\ y \notin M \cup {x}
  <2>1. M \in SUBSET N
    OBVIOUS
  <2> QED
    BY <2>1, FS_Subset
<1>2. IsFiniteSet(M \cup {x}) /\ N = (M \cup {x}) \cup {y}
  BY <1>1, FS_AddElement
<1>3. \A i \in M : ev[i] = fv[i]
  OBVIOUS
<1> HIDE DEF M
<1>4. ASSUME NEW e
      PROVE  Count(fv, N, e) = Count(ev, N, e)
  <2>1. Count(fv, M, e) = Count(ev, M, e)
    BY <1>3, CountedAlike
  <2>2. Count(ev, M, e) \in Nat
    BY <1>1, Counted
  <2>3. Count(ev, M \cup {x}, e) = Count(ev, M, e) + (IF ev[x] = e THEN 1 ELSE 0)
    BY <1>1, CountedIn
  <2>4. Count(fv, M \cup {x}, e) = Count(fv, M, e) + (IF fv[x] = e THEN 1 ELSE 0)
    BY <1>1, CountedIn
  <2>5. Count(ev, N, e) = Count(ev, M \cup {x}, e) + (IF ev[y] = e THEN 1 ELSE 0)
    BY <1>1, <1>2, CountedIn
  <2>6. Count(fv, N, e) = Count(fv, M \cup {x}, e) + (IF fv[y] = e THEN 1 ELSE 0)
    BY <1>1, <1>2, CountedIn
  <2> QED
    BY <2>1, <2>2, <2>3, <2>4, <2>5, <2>6
<1> QED
  BY <1>4, SameBag

-----------------------------------------------------------------------------
(* The bag of the live slots, now and after a step.                        *)
LEMMA PendingIsBag ==
  /\ PendingEvents = BagOf(events, Nodes)
  /\ PendingEvents' = BagOf(events', Nodes')
BY DEF PendingEvents, BagOf, Count

LEMMA NodesAre ==
  /\ Nodes = IF pc = "up" THEN (0 .. heap_size) \ {at} ELSE 0 .. heap_size - 1
  /\ Nodes' = IF pc' = "up" THEN (0 .. heap_size') \ {at'} ELSE 0 .. heap_size' - 1
BY DEF Nodes

LEMMA IntervalCounts ==
  ASSUME NEW n \in Nat
  PROVE  /\ IsFiniteSet(0 .. n - 1)
         /\ Cardinality(0 .. n - 1) = n
         /\ \A a \in 0 .. n : /\ IsFiniteSet((0 .. n) \ {a})
                              /\ Cardinality((0 .. n) \ {a}) = n
<1>1. IsFiniteSet(0 .. n - 1) /\ Cardinality(0 .. n - 1) = IF 0 > n - 1 THEN 0 ELSE n - 1 - 0 + 1
  BY FS_Interval
<1>2. IsFiniteSet(0 .. n) /\ Cardinality(0 .. n) = IF 0 > n THEN 0 ELSE n - 0 + 1
  BY FS_Interval
<1>3. ASSUME NEW a \in 0 .. n
      PROVE  IsFiniteSet((0 .. n) \ {a}) /\ Cardinality((0 .. n) \ {a}) = n
  <2>1. /\ IsFiniteSet((0 .. n) \ {a})
        /\ Cardinality((0 .. n) \ {a}) = Cardinality(0 .. n) - 1
    BY <1>2, FS_RemoveElement
  <2>2. Cardinality(0 .. n) = n + 1
    BY <1>2
  <2> QED
    BY <2>1, <2>2
<1>4. Cardinality(0 .. n - 1) = n
  BY <1>1
<1> QED
  BY <1>1, <1>3, <1>4

(* The size of the abstract queue: heap_size, which does not count the new *)
(* event yet when that has taken the root and the sift is in front of it.  *)
Live == heap_size + (IF pc = "up" /\ at = Front THEN 1 ELSE 0)

LEMMA LiveCounts ==
  ASSUME NEW h \in Nat, NEW p, NEW a, p = "up" => a \in Front .. h,
         NEW N, N = IF p = "up" THEN (0 .. h) \ {a} ELSE 0 .. h - 1
  PROVE  /\ IsFiniteSet(N)
         /\ Cardinality(N) = h + (IF p = "up" /\ a = Front THEN 1 ELSE 0)
<1>1. CASE p = "up" /\ a = Front
  <2>1. N = 0 .. (h + 1) - 1 /\ h + 1 \in Nat
    BY <1>1 DEF Front
  <2> QED
    BY <1>1, <2>1, IntervalCounts
<1>2. CASE ~(p = "up" /\ a = Front)
  <2>1. p = "up" => a \in 0 .. h
    BY <1>2 DEF Front
  <2>2. IsFiniteSet(N) /\ Cardinality(N) = h
    BY <2>1, IntervalCounts
  <2> QED
    BY <1>2, <2>2
<1> QED
  BY <1>1, <1>2

LEMMA SizeIsLive ==
  ASSUME IndInv
  PROVE  IsFiniteSet(Nodes) /\ Cardinality(Nodes) = Live
<1>1. heap_size \in Nat /\ (pc = "up" => at \in Front .. heap_size)
  BY DEF IndInv, TypeOK, CallsStayInBounds, Accessed
<1> QED
  BY <1>1, NodesAre, LiveCounts DEF Live

LEMMA SizeIsLiveNext ==
  ASSUME IndInv'
  PROVE  IsFiniteSet(Nodes') /\ Cardinality(Nodes)' = Live'
<1>1. heap_size' \in Nat /\ (pc' = "up" => at' \in Front .. heap_size')
  BY DEF IndInv, TypeOK, CallsStayInBounds, Accessed
<1>2. IsFiniteSet(Nodes') /\ Cardinality(Nodes') = Live'
  BY <1>1, NodesAre, LiveCounts DEF Live
<1> QED
  BY <1>2

LEMMA PhaseIs ==
  /\ pc \in {"aborted", "crashed"} => Phase = "stopped"
  /\ pc = "callback" => Phase = "calling"
  /\ pc = "up" /\ ret = "callback" => Phase = "calling"
  /\ pc = "up" /\ ret = "idle" => Phase = "idle"
  /\ pc = "idle" => Phase = "idle"
  /\ pc = "loop" => Phase = "dispatch"
  /\ pc = "down" /\ at < heap_size => Phase = "settling"
  /\ pc = "down" /\ ~(at < heap_size) => Phase = "settled"
BY DEF Phase, Stopped, InCallback

LEMMA PhaseIsNext ==
  /\ pc' \in {"aborted", "crashed"} => Phase' = "stopped"
  /\ pc' = "callback" => Phase' = "calling"
  /\ pc' = "up" /\ ret' = "callback" => Phase' = "calling"
  /\ pc' = "up" /\ ret' = "idle" => Phase' = "idle"
  /\ pc' = "idle" => Phase' = "idle"
  /\ pc' = "loop" => Phase' = "dispatch"
  /\ pc' = "down" /\ at' < heap_size' => Phase' = "settling"
  /\ pc' = "down" /\ ~(at' < heap_size') => Phase' = "settled"
BY DEF Phase, Stopped, InCallback

(* The operators of Bags as they are used by EventQueue.                   *)
LEMMA WithAdds ==
  ASSUME NEW e
  PROVE  Queue!With(e) = Plus(PendingEvents, e)
BY DEF Queue!With, Plus, Queue!(+), Queue!SetToBag

LEMMA WithoutLoses ==
  ASSUME IndInv, NEW e
  PROVE  Queue!Without(e) = Minus(PendingEvents, e)
<1>1. \A d \in DOMAIN PendingEvents : PendingEvents[d] \in Nat /\ PendingEvents[d] > 0
  BY PendingIsBag, Counted, SizeIsLive DEF BagOf
<1> QED
  BY <1>1 DEF Queue!Without, Minus, Queue!(-), Queue!SetToBag

LEMMA ReplacedByPlus ==
  ASSUME NEW x, NEW y
  PROVE  Queue!(+)(Queue!Without(x), Queue!SetToBag({y})) = Plus(Queue!Without(x), y)
BY DEF Plus, Queue!(+), Queue!SetToBag

LEMMA QueueStutters ==
  ASSUME BagOf(events', Nodes') = BagOf(events, Nodes), IndInv, IndInv',
         Live' = Live, timestamp_next' = timestamp_next,
         Phase' = Phase, ordered' = ordered
  PROVE  UNCHANGED Queue!vars
BY PendingIsBag, SizeIsLive, SizeIsLiveNext DEF Queue!vars

-----------------------------------------------------------------------------
(* Each step of Scheduler is a step of EventQueue, or none.                *)
LEMMA InitMaps == Init => Queue!Init
<1> SUFFICES ASSUME Init
             PROVE  Queue!Init
  OBVIOUS
<1>1. Nodes = {}
  BY DEF Init, Nodes
<1>2. PendingEvents = Queue!EmptyBag
  BY <1>1 DEF PendingEvents, Queue!EmptyBag, Queue!SetToBag
<1>3. Cardinality(Nodes) = 0
  BY <1>1, FS_EmptySet
<1>4. Phase = "idle"
  BY PhaseIs DEF Init
<1> QED
  BY <1>2, <1>3, <1>4 DEF Init, Queue!Init

LEMMA ResetMaps ==
  ASSUME IndInv, Reset
  PROVE  Queue!Reset
<1>1. Nodes' = {}
  BY DEF Reset, control, Nodes
<1>2. PendingEvents' = Queue!EmptyBag
  BY <1>1 DEF PendingEvents, Queue!EmptyBag, Queue!SetToBag
<1>3. Cardinality(Nodes)' = 0
  BY <1>1, FS_EmptySet
<1>4. Phase = "idle" /\ Phase' = "idle"
  BY PhaseIs, PhaseIsNext DEF Reset, control
<1> QED
  BY <1>2, <1>3, <1>4 DEF Reset, Queue!Reset

(* insert_event up to its sift: the new event does not count yet.          *)
LEMMA InsertMaps ==
  ASSUME IndInv, IndInv', ClientInserts
  PROVE  Queue!Stop \/ UNCHANGED Queue!vars
<1>1. PICK address \in Addresses, from \in {"idle", "callback"} :
        InsertEvent(address, from, from)
  BY DEF ClientInserts
<1>2. Phase = IF from = "idle" THEN "idle" ELSE "calling"
  BY <1>1, PhaseIs DEF InsertEvent
<1>3. CASE heap_size = MAX_EVENTS - 1 /\ AssertFails
  <2>1. PendingEvents' = PendingEvents /\ Cardinality(Nodes)' = Cardinality(Nodes)
    <3>1. Nodes' = Nodes /\ events' = events
      BY <1>1, <1>3 DEF InsertEvent, AssertFails, queue, Nodes
    <3> QED
      BY <3>1 DEF PendingEvents
  <2>2. Phase' = "stopped"
    BY <1>3, PhaseIsNext DEF AssertFails
  <2>3. Cardinality(Nodes) = MAX_EVENTS - 1
    <3>1. Live = heap_size
      BY <1>1 DEF InsertEvent, Live, IndInv, TypeOK
    <3> QED
      BY <1>3, <3>1, SizeIsLive
  <2>4. UNCHANGED <<timestamp_next, ordered>>
    BY <1>3 DEF AssertFails, clock
  <2> QED
    BY <1>2, <2>1, <2>2, <2>3, <2>4 DEF Queue!Stop
<1>4. CASE heap_size # MAX_EVENTS - 1
  <2>1. /\ pc = from /\ pc' = "up" /\ at' = heap_size /\ ret' = from
        /\ UNCHANGED <<heap_size, timestamp_next, ordered>>
    BY <1>1, <1>4 DEF InsertEvent, clock
  <2>2. heap_size \in Nat
    BY DEF IndInv, TypeOK
  <2>3. Nodes = 0 .. heap_size - 1 /\ Nodes' = Nodes
    BY <2>1, <2>2, NodesAre
  <2>4. \A i \in Nodes : events'[i] = events[i]
    <3>1. PICK words \in StaleWords : CopyParameter(address, words)
      BY <1>1, <1>4 DEF InsertEvent
    <3>2. \A i \in Cells : i # heap_size => events'[i] = events[i]
      BY <3>1 DEF CopyParameter, IndInv, TypeOK
    <3>3. \A i \in Nodes : i \in Cells /\ i # heap_size
      BY <2>2, <2>3, CellsAre, SizeAssumption DEF IndInv, TypeOK
    <3> QED
      BY <3>2, <3>3
  <2>5. BagOf(events', Nodes') = BagOf(events, Nodes)
    <3>1. BagOf(events', Nodes) = BagOf(events, Nodes)
      BY <2>4, SizeIsLive, CountedAlike, SameBag
    <3> QED
      BY <2>3, <3>1
  <2>6. Phase' = Phase /\ Live' = Live
    <3>1. Live' = heap_size /\ Live = heap_size
      BY <2>1, <2>2 DEF Live, Front
    <3> QED
      BY <1>2, <2>1, <3>1, PhaseIsNext
  <2> QED
    BY <2>1, <2>5, <2>6, QueueStutters
<1> QED
  BY <1>1, <1>3, <1>4 DEF InsertEvent

(* The step of an insertion that puts the event into its place counts it.  *)
LEMMA InsertionCounts ==
  ASSUME IndInv, IndInv', pc = "up", at # Front,
         Nodes' = 0 .. heap_size, Live' = heap_size + 1, pc' \in {ret, "up"},
         NEW e \in Event, events'[at] = e, \A i \in Nodes : events'[i] = events[i],
         ordered' \in {ordered, heap_size = 0}, UNCHANGED <<timestamp_next, ret>>
  PROVE  Queue!Insert
<1>1. /\ heap_size \in Nat /\ at \in 0 .. heap_size /\ heap_size < MAX_EVENTS - 1
      /\ ret \in {"idle", "callback"}
  BY InsertionIsAt DEF Front, IndInv, TypeOK
<1>2. Nodes' = Nodes \cup {at} /\ at \notin Nodes
  BY <1>1, NodesAre
<1>3. BagOf(events', Nodes) = BagOf(events, Nodes)
  BY SizeIsLive, CountedAlike, SameBag
<1>4. BagOf(events', Nodes \cup {at}) = Plus(BagOf(events', Nodes), events'[at])
  BY <1>2, SizeIsLive, BagAdds
<1>5. PendingEvents' = Queue!With(e)
  BY <1>2, <1>3, <1>4, PendingIsBag, WithAdds
<1>6. Cardinality(Nodes) = heap_size /\ Cardinality(Nodes)' = heap_size + 1
  BY <1>1, SizeIsLive, SizeIsLiveNext DEF Live
<1>7. Phase \in {"idle", "calling"} /\ Phase' = Phase
  BY <1>1, PhaseIs, PhaseIsNext
<1> QED
  BY <1>1, <1>5, <1>6, <1>7 DEF Queue!Insert

LEMMA InsertionReturns ==
  ASSUME IndInv, pc = "up", InsertReturns
  PROVE  pc' = ret /\ Nodes' = 0 .. heap_size /\ Live' = heap_size + 1
<1>1. heap_size \in Nat /\ heap_size' = heap_size + 1 /\ pc' = ret /\ ret # "up"
  BY DEF InsertReturns, IndInv, TypeOK
<1> QED
  BY <1>1, NodesAre DEF Live

LEMMA SiftUpMaps ==
  ASSUME IndInv, IndInv', SiftUp
  PROVE  Queue!Insert \/ UNCHANGED Queue!vars
<1> DEFINE parent == get_parent_node(at)
<1>1. /\ pc = "up" /\ at > 0 /\ at \in Nat /\ at <= heap_size
      /\ heap_size \in Nat /\ heap_size < MAX_EVENTS - 1
      /\ UNCHANGED <<timestamp_next, ret>>
  BY InsertionIsAt DEF SiftUp, clock, Front
<1>2. parent \in Nat /\ parent < at /\ at \in Cells /\ parent \in Cells
  BY <1>1, ParentIsBefore, CellsAre, SizeAssumption
<1>5. events \in [Cells -> Event]
  BY DEF IndInv, TypeOK
<1> HIDE DEF parent
<1>3. CASE /\ events' = SwapWith(parent, at, events[parent])
           /\ at' = parent
           /\ UNCHANGED <<heap_size, pc, ordered>>
  <2> DEFINE rest == (0 .. heap_size) \ {at, parent}
  <2>1. IsFiniteSet(rest)
    <3>1. rest \in SUBSET ((0 .. heap_size) \ {at})
      OBVIOUS
    <3>2. IsFiniteSet((0 .. heap_size) \ {at})
      BY <1>1, IntervalCounts
    <3> QED
      BY <3>1, <3>2, FS_Subset
  <2>2. Nodes = rest \cup {parent} /\ Nodes' = rest \cup {at}
    BY <1>1, <1>2, <1>3, NodesAre
  <2>3. at \notin rest /\ parent \notin rest
    OBVIOUS
  <2>4. \A i \in rest : i \in Cells
    BY <1>1, CellsAre, SizeAssumption
  <2>5. \A i \in rest : events[i] = events'[i]
    BY <1>2, <1>3, <1>5, <2>3, <2>4 DEF SwapWith
  <2>6. events'[at] = events[parent]
    BY <1>2, <1>3, <1>5 DEF SwapWith
  <2> HIDE DEF rest
  <2>7. BagOf(events', rest \cup {at}) = BagOf(events, rest \cup {parent})
    BY <2>1, <2>3, <2>5, <2>6, BagMoves
  <2>8. BagOf(events', Nodes') = BagOf(events, Nodes)
    BY <2>2, <2>7
  <2>9. Phase' = Phase
    <3>1. ret \in {"idle", "callback"}
      BY DEF IndInv, TypeOK
    <3> QED
      BY <1>1, <1>3, <3>1, PhaseIs, PhaseIsNext
  <2>10. Live' = Live
    BY <1>1, <1>2, <1>3 DEF Live, Front
  <2> QED
    BY <1>1, <1>3, <2>8, <2>9, <2>10, QueueStutters
<1>4. CASE InsertReturns /\ UNCHANGED <<events, at, ordered>>
  <2>1. events[at] \in Event /\ at # Front
    BY <1>1, <1>2, <1>5 DEF Front
  <2> QED
    BY <1>1, <1>4, <2>1, InsertionReturns, InsertionCounts
<1> QED
  BY <1>3, <1>4 DEF SiftUp, parent

LEMMA SiftUpRootMaps ==
  ASSUME IndInv, IndInv', SiftUpRoot
  PROVE  Queue!Insert
<1>1. pc = "up" /\ at = 0 /\ at # Front /\ UNCHANGED <<timestamp_next, ret>>
  BY DEF SiftUpRoot, clock, Front
<1>2. /\ 0 \in Cells /\ Front \in Cells /\ Front # 0 /\ heap_size \in Nat
      /\ \A i \in Nodes : i \in Cells /\ i # 0 /\ i # Front
  BY <1>1, NodesAre, CellsAre, InsertionIsAt, SizeAssumption DEF Front
<1>3. events \in [Cells -> Event] /\ events[0] \in Event
  BY <1>2 DEF IndInv, TypeOK
<1>4. CASE InsertReturns /\ UNCHANGED <<events, at, ordered>>
  BY <1>1, <1>3, <1>4, InsertionReturns, InsertionCounts
<1>5. CASE /\ \E front \in ContentsOf(Front) : events' = SwapWith(Front, 0, front)
           /\ at' = Front
           /\ ordered' = (heap_size = 0)
           /\ UNCHANGED <<heap_size, pc>>
  <2>1. PICK front \in Event : events' = SwapWith(Front, 0, front)
    BY <1>2, <1>5, ContentsAreEvents DEF IndInv
  <2>2. events'[0] = front /\ \A i \in Nodes : events'[i] = events[i]
    BY <1>2, <1>3, <2>1 DEF SwapWith
  <2>3. Nodes' = 0 .. heap_size /\ Live' = heap_size + 1
    BY <1>1, <1>5, NodesAre DEF Live, Front
  <2> QED
    BY <1>1, <1>5, <2>2, <2>3, InsertionCounts
<1> QED
  BY <1>4, <1>5 DEF SiftUpRoot

(* The return from the cell in front of the array: the event of that cell  *)
(* took the root before, and counts already.                               *)
LEMMA SiftUpFrontMaps ==
  ASSUME IndInv, IndInv', SiftUpFront
  PROVE  UNCHANGED Queue!vars
<1>1. /\ pc = "up" /\ at = Front /\ InsertReturns
      /\ UNCHANGED <<events, ordered, timestamp_next, ret>>
  BY DEF SiftUpFront, clock
<1>2. Nodes = 0 .. heap_size /\ Live = heap_size + 1
  BY <1>1, NodesAre DEF Live, Front
<1>3. pc' = ret /\ Nodes' = Nodes /\ Live' = Live
  BY <1>1, <1>2, InsertionReturns
<1>4. Phase' = Phase
  <2>1. ret \in {"idle", "callback"}
    BY DEF IndInv, TypeOK
  <2> QED
    BY <1>1, <1>3, <2>1, PhaseIs, PhaseIsNext
<1> QED
  BY <1>1, <1>3, <1>4, QueueStutters

-----------------------------------------------------------------------------
LEMMA NodesBelow ==
  ASSUME IndInv, pc # "up"
  PROVE  /\ heap_size \in Nat
         /\ Nodes = 0 .. heap_size - 1
         /\ Live = heap_size
         /\ \A i \in Nodes : i \in Cells
<1>1. heap_size \in 0 .. MAX_EVENTS - 1 /\ Nodes = 0 .. heap_size - 1
  BY NodesAre DEF IndInv, TypeOK
<1> QED
  BY <1>1, CellsAre, SizeAssumption DEF Live

LEMMA QueueEvents ==
  ASSUME IndInv, pc # "up"
  PROVE  Queue!Events = {events[i] : i \in 0 .. heap_size - 1}
BY NodesBelow DEF Queue!Events, Queue!BagToSet, PendingEvents

(* The root is one of the events, and the earliest while they are ordered. *)
LEMMA RootIsEarliest ==
  ASSUME IndInv, pc \notin {"up", "down"}, heap_size > 0
  PROVE  /\ events[0] \in Queue!Events
         /\ ordered => Queue!Earliest(events[0])
<1>1. 0 \in 0 .. heap_size - 1
  BY NodesBelow
<1>2. events[0] \in Queue!Events
  BY <1>1, QueueEvents
<1>3. ordered => \A i \in 0 .. heap_size - 1 : events[0].timestamp <= events[i].timestamp
  BY DEF IndInv, HeapOrdered
<1>4. ordered => \A f \in Queue!Events : events[0].timestamp <= f.timestamp
  BY <1>3, QueueEvents
<1> QED
  BY <1>2, <1>4 DEF Queue!Earliest

(* The bag does not change when nothing of the heap does.                  *)
LEMMA SameQueue ==
  ASSUME UNCHANGED queue, pc # "up", pc' # "up"
  PROVE  PendingEvents' = PendingEvents /\ Cardinality(Nodes)' = Cardinality(Nodes)
<1>1. Nodes' = Nodes /\ events' = events
  BY DEF Nodes, queue
<1> QED
  BY <1>1 DEF PendingEvents

LEMMA AddCyclesMaps ==
  ASSUME IndInv, AddCycles
  PROVE  Queue!Advance
<1>1. pc = "idle" /\ pc' = "loop" /\ UNCHANGED <<queue, timestamp_now, ordered>>
  BY DEF AddCycles
<1>2. \E c \in Cycles : timestamp_next' = (timestamp_next + c) % Wrap
  BY <1>1 DEF AddCycles, IndInv, ClockIsExact, InCallback
<1>3. Phase = "idle" /\ Phase' = "dispatch"
  BY <1>1, PhaseIs, PhaseIsNext
<1>4. PendingEvents' = PendingEvents /\ Cardinality(Nodes)' = Cardinality(Nodes)
  BY <1>1, SameQueue
<1> QED
  BY <1>1, <1>2, <1>3, <1>4 DEF Queue!Advance

LEMMA CallCallbackMaps ==
  ASSUME IndInv, CallCallback
  PROVE  Queue!Call \/ Queue!Stop
<1>1. /\ pc = "loop" /\ EventIsDue
      /\ pc' = IF events[0].cb \in Callbacks THEN "callback" ELSE "crashed"
      /\ UNCHANGED <<queue, timestamp_next, ordered>>
  BY DEF CallCallback, clock
<1>2. PendingEvents' = PendingEvents /\ Cardinality(Nodes)' = Cardinality(Nodes)
  BY <1>1, SameQueue
<1>3. events[0] \in Queue!Events /\ (ordered => Queue!Earliest(events[0]))
  BY <1>1, RootIsEarliest DEF EventIsDue
<1>4. Queue!Due(events[0])
  BY <1>1 DEF EventIsDue, Queue!Due
<1>5. Phase = "dispatch"
  BY <1>1, PhaseIs
<1>6. CASE events[0].cb \in Callbacks
  <2>1. Phase' = "calling"
    BY <1>1, <1>6, PhaseIsNext
  <2> QED
    BY <1>1, <1>2, <1>3, <1>4, <1>5, <1>6, <2>1 DEF Queue!Call
<1>7. CASE events[0].cb \notin Callbacks
  <2>1. Phase' = "stopped"
    BY <1>1, <1>7, PhaseIsNext
  <2> QED
    BY <1>1, <1>2, <1>3, <1>4, <1>5, <1>7, <2>1 DEF Queue!Stop
<1> QED
  BY <1>6, <1>7

LEMMA StepReturnsMaps ==
  ASSUME IndInv, StepReturns
  PROVE  Queue!Return
<1>1. /\ pc = "loop" /\ ~EventIsDue /\ pc' = "idle"
      /\ UNCHANGED <<queue, timestamp_next, ordered>>
  BY DEF StepReturns
<1>2. PendingEvents' = PendingEvents /\ Cardinality(Nodes)' = Cardinality(Nodes)
  BY <1>1, SameQueue
<1>3. Phase = "dispatch" /\ Phase' = "idle"
  BY <1>1, PhaseIs, PhaseIsNext
<1>4. ASSUME ordered, NEW e \in Queue!Events
      PROVE  ~Queue!Due(e)
  <2>1. PICK i \in 0 .. heap_size - 1 : e = events[i]
    BY <1>1, QueueEvents
  <2>2. heap_size \in Nat /\ heap_size > 0 /\ 0 \in Cells /\ i \in Cells
    BY <1>1, <2>1, NodesBelow, CellsAre
  <2>3. events[0].timestamp \in Nat /\ events[i].timestamp \in Nat /\ timestamp_next \in Nat
    BY <2>2, ClockAssumption DEF IndInv, TypeOK, Event, Time
  <2>4. events[0].timestamp <= events[i].timestamp
    BY <1>1, <1>4, <2>1 DEF IndInv, HeapOrdered
  <2>5. events[0].timestamp > timestamp_next
    BY <1>1, <2>2, <2>3 DEF EventIsDue
  <2> QED
    BY <2>1, <2>3, <2>4, <2>5 DEF Queue!Due
<1> QED
  BY <1>1, <1>2, <1>3, <1>4 DEF Queue!Return

-----------------------------------------------------------------------------
(* The deletion takes the root, and the last event moves there.            *)
LEMMA DeleteMinMaps ==
  ASSUME IndInv, IndInv', DeleteMin("callback")
  PROVE  Queue!Remove
<1>1. /\ pc = "callback" /\ pc' = "down" /\ at' = 0
      /\ heap_size' = heap_size - 1
      /\ events' = [events EXCEPT ![0] = events[heap_size - 1]]
      /\ ordered' = (heap_size <= 2)
      /\ UNCHANGED timestamp_next
  BY DEF DeleteMin
<1>2. heap_size \in Nat /\ heap_size > 0 /\ 0 \in Cells /\ heap_size - 1 \in Cells
  BY <1>1, CellsAre, SizeAssumption DEF IndInv, TypeOK, CallsStayInBounds, InCallback
<1>3. events \in [Cells -> Event]
  BY DEF IndInv, TypeOK
<1> DEFINE others == 1 .. heap_size - 1
<1>4. IsFiniteSet(others) /\ 0 \notin others /\ Nodes = others \cup {0}
  <2>1. others = (0 .. heap_size - 1) \ {0}
    BY <1>2
  <2>2. Nodes = 0 .. heap_size - 1
    BY <1>1, NodesBelow
  <2>3. IsFiniteSet(others)
    BY <2>1, <2>2, SizeIsLive, FS_RemoveElement
  <2>4. Nodes = others \cup {0} /\ 0 \notin others
    BY <1>2, <2>2
  <2> QED
    BY <2>3, <2>4
<1>5. BagOf(events, others) = Minus(BagOf(events, Nodes), events[0])
  BY <1>4, BagLoses
<1>6. BagOf(events', Nodes') = BagOf(events, others)
  <2>1. CASE heap_size = 1
    <3>1. Nodes' = {} /\ others = {}
      BY <1>1, <2>1, NodesAre
    <3> QED
      BY <3>1 DEF BagOf
  <2>2. CASE heap_size > 1
    <3> DEFINE rest == 1 .. heap_size - 2
    <3> DEFINE last == heap_size - 1
    <3>1. others = rest \cup {last} /\ last \notin rest /\ 0 \notin rest
      BY <1>2, <2>2
    <3>2. Nodes' = rest \cup {0}
      BY <1>1, <1>2, <2>2, NodesAre
    <3>3. IsFiniteSet(rest)
      <4>1. rest \in SUBSET others
        BY <3>1
      <4> QED
        BY <1>4, <4>1, FS_Subset
    <3>4. \A i \in rest : i \in Cells /\ i # 0
      BY <1>1, <1>2, NodesBelow
    <3>5. \A i \in rest : events[i] = events'[i]
      BY <1>1, <1>3, <3>4
    <3>6. events'[0] = events[last]
      BY <1>1, <1>2, <1>3
    <3> HIDE DEF rest, last, others
    <3>7. BagOf(events', rest \cup {0}) = BagOf(events, rest \cup {last})
      BY <3>1, <3>3, <3>5, <3>6, BagMoves
    <3> QED
      BY <3>1, <3>2, <3>7
  <2> QED
    BY <1>2, <2>1, <2>2
<1> HIDE DEF others
<1>7. PendingEvents' = Queue!Without(events[0])
  BY <1>5, <1>6, PendingIsBag, WithoutLoses
<1>8. Cardinality(Nodes) = heap_size /\ Cardinality(Nodes)' = heap_size - 1
  BY <1>1, <1>2, SizeIsLive, SizeIsLiveNext DEF Live
<1>9. Phase = "calling" /\ Phase' \in {"settling", "settled"}
  BY <1>1, PhaseIs, PhaseIsNext
<1>10. events[0] \in Queue!Events /\ (ordered => Queue!Earliest(events[0]))
  BY <1>1, <1>2, RootIsEarliest
<1> QED
  BY <1>1, <1>7, <1>8, <1>9, <1>10 DEF Queue!Remove

(* When a deletion leaves one event behind, slot 1 still holds a copy of   *)
(* it, so the left child that is read past the live events is no earlier.  *)
LastLeavesACopy == pc = "down" /\ heap_size = 1 /\ at = 0 => events[1] = events[0]

LEMMA CopyStays ==
  ASSUME IndInv, LastLeavesACopy, [Next]_vars
  PROVE  LastLeavesACopy'
<1>1. CASE DeleteMin("callback")
  <2>1. /\ heap_size' = heap_size - 1
        /\ events' = [events EXCEPT ![0] = events[heap_size - 1]]
    BY <1>1 DEF DeleteMin
  <2>2. 0 \in Cells /\ 1 \in Cells /\ events \in [Cells -> Event] /\ heap_size \in Nat
    BY CellsAre, SizeAssumption DEF IndInv, TypeOK
  <2>3. heap_size' = 1 => events'[1] = events'[0]
    BY <2>1, <2>2
  <2> QED
    BY <2>3 DEF LastLeavesACopy
<1>2. CASE SiftDown
  <2>1. \/ at' = get_left_child_of_node(at)
        \/ at' = get_right_child_of_node(at)
        \/ pc' = "loop"
    BY <1>2 DEF SiftDown, DeleteReturns
  <2>2. at \in Nat
    BY <1>2, DeletionIsAt DEF SiftDown
  <2>3. at' # 0 \/ pc' = "loop"
    BY <2>1, <2>2 DEF get_left_child_of_node, get_right_child_of_node
  <2> QED
    BY <2>3 DEF LastLeavesACopy
<1>3. CASE UNCHANGED vars
  BY <1>3 DEF LastLeavesACopy, vars, queue, control
<1>4. CASE Reset
  BY <1>4 DEF LastLeavesACopy, Reset, control
<1>5. CASE ClientInserts
  <2>1. pc' \in {"up", "aborted"}
    BY <1>5 DEF ClientInserts, InsertEvent, AssertFails
  <2> QED
    BY <2>1 DEF LastLeavesACopy
<1>6. CASE SiftUp \/ SiftUpRoot \/ SiftUpFront
  <2>1. pc' \in {"up", "idle", "callback"}
    BY <1>6 DEF SiftUp, SiftUpRoot, SiftUpFront, InsertReturns, IndInv, TypeOK
  <2> QED
    BY <2>1 DEF LastLeavesACopy
<1>7. CASE AddCycles \/ CallCallback \/ StepReturns
  BY <1>7 DEF LastLeavesACopy, AddCycles, CallCallback, StepReturns
<1> QED
  BY <1>1, <1>2, <1>3, <1>4, <1>5, <1>6, <1>7 DEF Next, Machinery

(* A swap of two live slots changes nothing; one with a slot past the live *)
(* events puts what was there in the place of an event.                    *)
LEMMA SiftDownMaps ==
  ASSUME IndInv, IndInv', LastLeavesACopy, SiftDown
  PROVE  Queue!Replace \/ Queue!Continue \/ UNCHANGED Queue!vars
<1> DEFINE left == get_left_child_of_node(at)
<1> DEFINE right == get_right_child_of_node(at)
<1>1. \/ /\ right < heap_size
         /\ events' = SwapWith(right, at, events[right])
         /\ at' = right
         /\ UNCHANGED pc
      \/ /\ at < heap_size
         /\ \E l \in ContentsOf(left) :
              l.timestamp < events[at].timestamp /\ events' = SwapWith(left, at, l)
         /\ at' = left
         /\ UNCHANGED pc
      \/ DeleteReturns
  BY DEF SiftDown
<1>2. pc = "down" /\ UNCHANGED <<heap_size, timestamp_next, ordered>>
  BY DEF SiftDown, clock
<1>3. /\ at \in Nat /\ left \in Nat /\ right \in Nat /\ at < left /\ left < right
      /\ (at = 0 => left = 1) /\ (at > 0 => left > 1)
      /\ at < heap_size => left \in Cells
  <2>1. at \in Nat /\ heap_size \in 0 .. MAX_EVENTS - 1
    BY <1>2, DeletionIsAt
  <2>2. at < heap_size => left \in Cells
    BY <2>1, CellsAre, SizeAssumption
  <2> QED
    BY <2>1, <2>2 DEF get_left_child_of_node, get_right_child_of_node
<1>4. events \in [Cells -> Event]
  BY DEF IndInv, TypeOK
<1>5. heap_size \in Nat /\ Nodes = 0 .. heap_size - 1 /\ \A i \in Nodes : i \in Cells
  BY <1>2, NodesBelow
<1>6. IsFiniteSet(Nodes)
  BY SizeIsLive
<1> HIDE DEF left, right
<1>7. pc' # "up" => Nodes' = Nodes
  BY <1>2, <1>5, NodesAre
<1>8. ASSUME NEW child \in Nodes, at < child, pc' = pc, at' = child,
             events' = SwapWith(child, at, events[child])
      PROVE  UNCHANGED Queue!vars
  <2>1. at \in Nodes /\ at # child
    BY <1>3, <1>5, <1>8
  <2>2. /\ events'[at] = events[child] /\ events'[child] = events[at]
        /\ \A i \in Nodes \ {at, child} : events[i] = events'[i]
    BY <1>4, <1>5, <1>8, <2>1 DEF SwapWith
  <2>3. BagOf(events', Nodes) = BagOf(events, Nodes)
    BY <1>6, <1>8, <2>1, <2>2, BagSwaps
  <2>4. BagOf(events', Nodes') = BagOf(events, Nodes)
    BY <1>2, <1>7, <1>8, <2>3
  <2>5. Phase = "settling" /\ Phase' = "settling" /\ Live' = Live
    BY <1>2, <1>5, <1>8, <2>1, PhaseIs, PhaseIsNext DEF Live
  <2> QED
    BY <1>2, <2>4, <2>5, QueueStutters
<1>9. CASE right < heap_size /\ events' = SwapWith(right, at, events[right])
           /\ at' = right /\ UNCHANGED pc
  BY <1>3, <1>5, <1>8, <1>9
<1>10. ASSUME NEW l \in ContentsOf(left), at < heap_size, left < heap_size,
              events' = SwapWith(left, at, l), at' = left, UNCHANGED pc
       PROVE  UNCHANGED Queue!vars
  <2>1. left \in Nodes /\ left \in Slots
    BY <1>2, <1>3, <1>5, <1>10, CellsAre, DeletionIsAt, SizeAssumption
  <2>2. l = events[left]
    BY <1>10, <2>1 DEF ContentsOf
  <2> QED
    BY <1>3, <1>8, <1>10, <2>1, <2>2
<1>11. ASSUME NEW l \in ContentsOf(left), at < heap_size, left >= heap_size,
              l.timestamp < events[at].timestamp,
              events' = SwapWith(left, at, l), at' = left, UNCHANGED pc
       PROVE  Queue!Replace
  <2> DEFINE others == Nodes \ {at}
  <2>1. at \in Nodes /\ at \in Cells /\ left \in Cells /\ left \notin Nodes
    BY <1>3, <1>5, <1>11
  <2>2. Nodes = others \cup {at} /\ at \notin others /\ IsFiniteSet(others)
    BY <1>6, <2>1, FS_RemoveElement
  <2>3. events'[at] = l /\ \A i \in others : events'[i] = events[i]
    <3>1. \A i \in others : i \in Cells /\ i # at /\ i # left
      BY <1>5, <2>1
    <3> HIDE DEF others
    <3> QED
      BY <1>4, <1>11, <2>1, <3>1 DEF SwapWith
  <2> HIDE DEF others
  <2>4. BagOf(events, others) = Minus(BagOf(events, Nodes), events[at])
    BY <2>2, BagLoses
  <2>5. BagOf(events', others) = BagOf(events, others)
    BY <2>2, <2>3, CountedAlike, SameBag
  <2>6. BagOf(events', Nodes) = Plus(BagOf(events', others), l)
    BY <2>2, <2>3, BagAdds
  <2>7. BagOf(events', Nodes') = BagOf(events', Nodes)
    BY <1>2, <1>7, <1>11
  <2>8. PendingEvents' = Plus(Queue!Without(events[at]), l)
    BY <2>4, <2>5, <2>6, <2>7, PendingIsBag, WithoutLoses
  <2>9. events[at] \in Queue!Events
    BY <1>2, <1>5, <2>1, QueueEvents
  <2>10. heap_size >= 2
    <3> SUFFICES ASSUME heap_size < 2
                 PROVE  FALSE
      BY <1>5
    <3>1. heap_size = 1 /\ at = 0 /\ left = 1
      BY <1>3, <1>5, <1>11
    <3>2. l = events[1] /\ 0 \in Cells
      <4>1. 1 \in Slots /\ 0 \in Cells
        BY SizeAssumption, CellsAre DEF Slots
      <4> QED
        BY <1>11, <3>1, <4>1 DEF ContentsOf
    <3>3. l = events[0]
      BY <1>2, <3>1, <3>2 DEF LastLeavesACopy
    <3>4. events[0].timestamp \in Nat
      BY <3>2, ClockAssumption DEF IndInv, TypeOK, Event, Time
    <3> QED
      BY <1>11, <3>1, <3>3, <3>4
  <2>11. Cardinality(Nodes) = heap_size /\ Cardinality(Nodes)' = heap_size
    BY <1>2, <1>5, <1>11, SizeIsLive, SizeIsLiveNext DEF Live
  <2>12. Phase = "settling" /\ Phase' = "settled"
    BY <1>2, <1>3, <1>5, <1>11, PhaseIs, PhaseIsNext
  <2>13. l \in Event
    BY <1>11, <2>1, ContentsAreEvents DEF IndInv
  <2> QED
    BY <1>2, <2>8, <2>9, <2>10, <2>11, <2>12, <2>13, ReplacedByPlus DEF Queue!Replace
<1>12. CASE DeleteReturns
  <2>1. PendingEvents' = PendingEvents /\ Cardinality(Nodes)' = Cardinality(Nodes)
    BY <1>2, <1>12, SameQueue DEF queue, DeleteReturns
  <2>2. Phase \in {"settling", "settled"} /\ Phase' = "dispatch"
    BY <1>2, <1>12, PhaseIs, PhaseIsNext DEF DeleteReturns
  <2> QED
    BY <1>2, <2>1, <2>2 DEF Queue!Continue
<1> QED
  BY <1>1, <1>3, <1>5, <1>9, <1>10, <1>11, <1>12

(* scheduler.c keeps what EventQueue promises: an insertion adds one event *)
(* and nothing else, a callback runs for an event that is due, each costs  *)
(* one event of the queue, and only an insertion past the capacity or a    *)
(* word that is no function stops the program.                             *)
THEOREM SchedulerImplementsEventQueue == Spec => ImplementsEventQueue
<1>1. Init => Queue!Init /\ LastLeavesACopy
  BY InitMaps DEF Init, LastLeavesACopy
<1>2. IndInv /\ LastLeavesACopy /\ [Next]_vars => LastLeavesACopy'
  BY CopyStays
<1>3. IndInv /\ IndInv' /\ LastLeavesACopy /\ [Next]_vars => [Queue!Next]_Queue!vars
  <2> SUFFICES ASSUME IndInv, IndInv', LastLeavesACopy, [Next]_vars
               PROVE  [Queue!Next]_Queue!vars
    OBVIOUS
  <2>1. CASE UNCHANGED vars
    <3>1. /\ UNCHANGED <<events, heap_size, timestamp_next, ordered>>
          /\ UNCHANGED <<pc, at, ret>>
      BY <2>1 DEF vars, queue, clock, control
    <3>2. Nodes' = Nodes /\ Phase' = Phase
      BY <3>1 DEF Nodes, Phase, Stopped, InCallback
    <3>3. BagOf(events', Nodes') = BagOf(events, Nodes) /\ Live' = Live
      BY <3>1, <3>2 DEF Live
    <3> QED
      BY <3>1, <3>2, <3>3, QueueStutters
  <2>2. CASE Reset
    BY <2>2, ResetMaps DEF Queue!Next
  <2>3. CASE ClientInserts
    BY <2>3, InsertMaps DEF Queue!Next
  <2>4. CASE AddCycles
    BY <2>4, AddCyclesMaps DEF Queue!Next
  <2>5. CASE DeleteMin("callback")
    BY <2>5, DeleteMinMaps DEF Queue!Next
  <2>6. CASE SiftUp
    BY <2>6, SiftUpMaps DEF Queue!Next
  <2>7. CASE SiftUpRoot
    BY <2>7, SiftUpRootMaps DEF Queue!Next
  <2>11. CASE SiftUpFront
    BY <2>11, SiftUpFrontMaps
  <2>8. CASE CallCallback
    BY <2>8, CallCallbackMaps DEF Queue!Next
  <2>9. CASE SiftDown
    BY <2>9, SiftDownMaps DEF Queue!Next
  <2>10. CASE StepReturns
    BY <2>10, StepReturnsMaps DEF Queue!Next
  <2> QED
    BY <2>1, <2>2, <2>3, <2>4, <2>5, <2>6, <2>7, <2>8, <2>9, <2>10,
       <2>11 DEF Next, Machinery
<1>4. Spec => [][Queue!Next]_Queue!vars
  BY <1>1, <1>2, <1>3, Invariance, PTL DEF Spec
<1> QED
  BY <1>1, <1>4, PTL DEF Spec, ImplementsEventQueue, Queue!Spec
=============================================================================
