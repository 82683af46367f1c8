------------------------ MODULE RunnerProgramsProofs ------------------------
(***************************************************************************)
(* The programs of RunnerPrograms reach their ends only with the devices   *)
(* as they were to leave them, for every size of the queue, every width of *)
(* the clock, every content of the memory and every address of the events. *)
(*                                                                         *)
(* A program is followed instruction by instruction.  Until the first event*)
(* is due, what it has written is what the timer will hold when the calls  *)
(* of the instruction under way are over, and no handler runs; after that  *)
(* only what the handlers cannot change is known.  ProgramInv puts the     *)
(* points of all the programs together.                                    *)
(***************************************************************************)
EXTENDS RunnerPrograms, RunnerProofs

-----------------------------------------------------------------------------
(* What the timer will be.                                                 *)
Off == [enabled |-> FALSE, clock |-> 0]
TacWritten(t, d) == IF TacOf(d).enabled = t.enabled THEN t ELSE TacOf(d)
Added(t, d) == IF TacOf(d).enabled /\ ~t.enabled THEN 2 ELSE 0

(* The timer with n events, and as a call leaves it.                       *)
Seen(t, m, v, n) == [tac |-> t, tma |-> m, tima |-> v, events |-> n]
AfterCall(d, c) ==
  Seen(IF c.to = "handle_tac_write" THEN TacWritten(d.tac, c.argument) ELSE d.tac,
       IF c.to = "handle_tma_write" THEN c.argument ELSE d.tma,
       IF c.to = "handle_tima_write" THEN c.argument ELSE d.tima,
       d.events + (IF c.to = "handle_tac_write" THEN Added(d.tac, c.argument) ELSE 0))

(* The timer as it will be when the write of TAC under way is over, and    *)
(* when all the calls of the instruction are.                              *)
ToInsert ==
  IF pc = "up" /\ ret = "tac_overflow" THEN 2
  ELSE IF pc = "tac_overflow" \/ (pc = "up" /\ ret = "tac_set") THEN 1 ELSE 0
Now == Seen(new_tac, tma, tima, heap_size + ToInsert)
Outcome ==
  IF Len(calls) = 0 THEN Now
  ELSE IF Len(calls) = 1 THEN AfterCall(Now, calls[1])
  ELSE IF Len(calls) = 2 THEN AfterCall(AfterCall(Now, calls[1]), calls[2])
  ELSE AfterCall(AfterCall(AfterCall(Now, calls[1]), calls[2]), calls[3])

(* No handler has run yet: every event is past the cycles that a program   *)
(* reports before it waits.                                                *)
AllFar == \A i \in 0 .. heap_size : i < heap_size \/ pc = "up" => events[i].timestamp > 84

NoneIsDue ==
  /\ pc \notin {"callback", "returned", "down"}
  /\ pc = "up" => ret # "returned" /\ at \in T!Front .. heap_size
  /\ pc = "loop" => calls = <<>>
  /\ AllFar

Before(t, d) ==
  /\ elapsed = t
  /\ Len(calls) <= 3
  /\ Outcome = d
  /\ ~TimerBit(interrupt_flag)
  /\ NoneIsDue

(* A program reports at most 84 cycles before it waits, and the objects    *)
(* that are passed to insert_event lie past that.                          *)
Reported == 0 .. 84
FarAddresses == Wrap > 84 /\ \A address \in Addresses : address > 84

Gone == pc \in {"aborted", "crashed"}

(* What is known of every state of the program, whatever runs.             *)
Sound ==
  /\ Address = Word /\ FarAddresses
  /\ TypedAndFetched /\ ClockInv /\ TP!ClockAtRest /\ TP!TimerTypeOK /\ TP!TimerInv

LEMMA OutcomeOfNext ==
  ASSUME NEW name, Calls(name), calls \in Seq(CallRecords), Len(calls) <= 3,
         Now' = AfterCall(Now, calls[1])
  PROVE  Outcome' = Outcome /\ Len(calls') <= 3
<1>1. calls # <<>> /\ calls' = Tail(calls)
  BY DEF Calls
<1>2. /\ Len(calls) \in Nat \ {0}
      /\ Len(Tail(calls)) = Len(calls) - 1
      /\ \A i \in 1 .. Len(Tail(calls)) : Tail(calls)[i] = calls[i + 1]
  BY <1>1, EmptySeq, HeadTailProperties
<1>a. Len(calls) \in {1, 2, 3}
  BY <1>2
<1>b. Len(calls') = Len(calls) - 1 /\ \A i \in 1 .. Len(calls') : calls'[i] = calls[i + 1]
  BY <1>1, <1>2
<1>3. CASE Len(calls) = 1
  <2>1. Len(calls') = 0
    BY <1>b, <1>3
  <2> QED
    BY <1>3, <2>1 DEF Outcome
<1>4. CASE Len(calls) = 2
  <2>1. Len(calls') = 1 /\ calls'[1] = calls[1 + 1]
    BY <1>b, <1>4
  <2> QED
    BY <1>4, <2>1 DEF Outcome
<1>5. CASE Len(calls) = 3
  <2>1. Len(calls') = 2
    BY <1>b, <1>5
  <2>2. 1 \in 1 .. Len(calls') /\ 2 \in 1 .. Len(calls')
    BY <2>1
  <2>3. calls'[1] = calls[1 + 1] /\ calls'[2] = calls[2 + 1]
    BY <1>b, <2>2
  <2> QED
    BY <1>5, <2>1, <2>2, <2>3 DEF Outcome
<1> QED
  BY <1>a, <1>3, <1>4, <1>5

LEMMA SameOutcome ==
  ASSUME Now' = Now, calls' = calls
  PROVE  Outcome' = Outcome
BY DEF Outcome

LEMMA SoundFacts ==
  ASSUME Sound
  PROVE  /\ calls \in Seq(CallRecords)
         /\ events \in [T!Front .. 2 * MAX_EVENTS -> TP!Event]
         /\ heap_size \in 0 .. MAX_EVENTS - 1 /\ MAX_EVENTS \in Nat
         /\ T!Front \in Int /\ T!Front < 0
         /\ pc = "idle" => new_tac = tac
         /\ pc \in {"tac_overflow", "tac_set"} => ~tac.enabled /\ new_tac.enabled
         /\ pc = "up" => ret \in {"tac_overflow", "tac_set", "returned"}
         /\ \A e \in TP!Event : e.timestamp \in Nat
         /\ \A e \in Foreign : e.timestamp \in Nat
         /\ \A a \in Addresses : a > 84
         /\ Wrap \in Nat /\ Wrap > 84
<1>1. \A e \in TP!Event : e.timestamp \in Nat
  BY WrapAssumption DEF TP!Event, TP!Time
<1> QED
  BY <1>1, ConstantsFit, QueueAssumption, WrapAssumption
  DEF Sound, ClockInv, CallsInv, TP!TimerTypeOK, TP!Cells, TP!Front, T!Front, TP!TimerInv, TP!PlacesAgree,
      TP!Enabling, TP!Stopped, FarAddresses

(* A call that ended the program is not gone on with.                      *)
LEMMA GoneIsOver == InstructionGoesOn => ~Gone
BY CpuStandsStill DEF InstructionGoesOn, Gone, WriteElsewhere, WriteTima, WriteTma,
   WriteTacEnabling, WriteTacDisabling, WriteTacIgnored, ReportCycles, Calls,
   TacInsertsOverflow, TacIsSet, TimaIncrements, TimaOverflows, SchedulerGoesOn,
   T!TacInsertOverflow, T!insert_timer_event, T!InsertEvent, T!TacSet,
   T!HandleTimaIncrement, T!ReloadTima, T!DeleteMin, T!Machinery, T!SiftUp,
   T!SiftUpRoot, T!SiftUpFront, T!CallCallback, T!SiftDown, T!StepReturns

-----------------------------------------------------------------------------
(* The insertions of a write of TAC, whose events are far.                 *)
LEMMA InsertsFar ==
  ASSUME Sound, AllFar, pc # "up", NEW from, NEW to, T!insert_timer_event(from, to)
  PROVE  /\ pc = from /\ heap_size' = heap_size
         /\ Gone' \/ (pc' = "up" /\ ret' = to /\ at' = heap_size /\ AllFar'
                        /\ heap_size # MAX_EVENTS - 1)
<1> USE SoundFacts
<1>1. PICK address \in Addresses : T!InsertEvent(address, from, to)
  BY DEF T!insert_timer_event
<1>2. CASE T!AssertFails
  BY <1>1, <1>2 DEF T!InsertEvent, T!AssertFails, T!queue, Gone
<1>3. CASE ~T!AssertFails
  <2>1. PICK words \in StaleWords : T!CopyParameter(address, words)
    BY <1>1, <1>3 DEF T!InsertEvent
  <2>2. /\ pc = from /\ heap_size' = heap_size /\ heap_size # MAX_EVENTS - 1
        /\ pc' = "up" /\ ret' = to /\ at' = heap_size
    BY <1>1, <1>3 DEF T!InsertEvent
  <2>3. ASSUME NEW i \in 0 .. heap_size
        PROVE  events'[i].timestamp > 84
    <3>1. CASE i = heap_size
      BY <2>1, <3>1 DEF T!CopyParameter
    <3>2. CASE i # heap_size
      <4>1. i < heap_size
        BY <3>2
      <4>2. events'[i] = events[i]
        BY <2>1, <3>2 DEF T!CopyParameter
      <4> QED
        BY <4>1, <4>2 DEF AllFar
    <3> QED
      BY <3>1, <3>2
  <2> QED
    BY <2>2, <2>3 DEF AllFar
<1> QED
  BY <1>2, <1>3

LEMMA SiftsFar ==
  ASSUME Sound, AllFar, pc = "up", at \in T!Front .. heap_size,
         T!SiftUp \/ T!SiftUpRoot \/ T!SiftUpFront
  PROVE  /\ AllFar' /\ ret' = ret
         /\ \/ pc' = "up" /\ heap_size' = heap_size /\ at' \in T!Front .. heap_size
            \/ pc' = ret /\ heap_size' = heap_size + 1
<1> USE SoundFacts
<1>1. \A i \in 0 .. heap_size : events[i].timestamp > 84
  BY DEF AllFar
<1>2. ret # "up" /\ 0 .. heap_size \subseteq DOMAIN events
  BY DEF T!Front
<1>3. CASE T!SiftUpRoot
  <2>1. PICK front \in T!ContentsOf(T!Front) :
          \/ /\ front.timestamp > events[0].timestamp
             /\ events' = T!SwapWith(T!Front, 0, front)
             /\ at' = T!Front /\ UNCHANGED <<heap_size, pc>>
          \/ T!InsertReturns /\ events' = events
    BY <1>3 DEF T!SiftUpRoot
  <2>2. front.timestamp \in Nat
    <3>1. T!ContentsOf(T!Front) = {events[T!Front]} \cup Foreign
      BY DEF T!ContentsOf, T!Front, T!Slots
    <3>2. T!Front \in T!Front .. 2 * MAX_EVENTS
      BY DEF T!Front
    <3> QED
      BY <3>1, <3>2
  <2>3. ret' = ret
    BY <1>3 DEF T!SiftUpRoot
  <2>4. CASE /\ front.timestamp > events[0].timestamp
             /\ events' = T!SwapWith(T!Front, 0, front)
             /\ at' = T!Front /\ UNCHANGED <<heap_size, pc>>
    <3>1. front.timestamp > 84
      <4>1. 0 \in 0 .. heap_size /\ 0 \in T!Front .. 2 * MAX_EVENTS
        BY DEF T!Front
      <4>2. events[0].timestamp > 84 /\ events[0].timestamp \in Nat
        BY <1>1, <4>1
      <4> QED
        BY <2>2, <2>4, <4>2
    <3>2. \A i \in 0 .. heap_size : events'[i] = IF i = 0 THEN front ELSE events[i]
      BY <1>2, <2>4 DEF T!SwapWith, T!Front
    <3>3. AllFar'
      BY <1>1, <2>4, <3>1, <3>2 DEF AllFar
    <3> QED
      BY <2>3, <2>4, <3>3 DEF T!Front
  <2>5. CASE T!InsertReturns /\ events' = events
    BY <1>1, <1>2, <2>3, <2>5 DEF AllFar, T!InsertReturns
  <2> QED
    BY <2>1, <2>4, <2>5
<1>4. CASE T!SiftUpFront
  <2>1. T!InsertReturns /\ events' = events /\ ret' = ret
    BY <1>4 DEF T!SiftUpFront
  <2> QED
    BY <1>1, <1>2, <2>1 DEF AllFar, T!InsertReturns
<1>5. CASE T!SiftUp
  <2> DEFINE parent == T!get_parent_node(at)
  <2>1. at > 0 /\ ret' = ret
    BY <1>5 DEF T!SiftUp
  <2>2. parent \in 0 .. heap_size
    <3>1. at \in Nat /\ at >= 1 /\ at <= heap_size /\ heap_size \in Nat
      BY <2>1 DEF T!Front
    <3>2. (at - 1) \div 2 \in Nat /\ (at - 1) \div 2 <= at
      BY <3>1
    <3> QED
      BY <3>1, <3>2 DEF T!get_parent_node
  <2>3. CASE /\ events' = T!SwapWith(parent, at, events[parent]) /\ at' = parent
             /\ heap_size' = heap_size /\ pc' = pc
    <3> HIDE DEF parent
    <3>1. at \in 0 .. heap_size
      BY <2>1 DEF T!Front
    <3>2. \A i \in 0 .. heap_size :
            events'[i] = events[parent] \/ events'[i] = events[at] \/ events'[i] = events[i]
      BY <1>2, <2>2, <2>3, <3>1 DEF T!SwapWith
    <3>3. AllFar'
      BY <1>1, <2>2, <2>3, <3>1, <3>2 DEF AllFar
    <3>4. at' \in T!Front .. heap_size
      BY <2>2, <2>3 DEF T!Front
    <3> QED
      BY <2>1, <2>3, <3>3, <3>4
  <2>4. CASE T!InsertReturns /\ events' = events
    BY <1>1, <1>2, <2>1, <2>4 DEF AllFar, T!InsertReturns
  <2>5. \/ /\ events' = T!SwapWith(parent, at, events[parent]) /\ at' = parent
           /\ heap_size' = heap_size /\ pc' = pc
        \/ T!InsertReturns /\ events' = events
    BY <1>5 DEF T!SiftUp
  <2> QED
    BY <2>3, <2>4, <2>5
<1> QED
  BY <1>3, <1>4, <1>5

-----------------------------------------------------------------------------
(* Until the first event is due nothing is called but what was foreseen.   *)
(* A call of a device has the effect on the timer that Outcome foresaw.    *)
LEMMA CallsAreForeseen ==
  ASSUME Sound, NoneIsDue, Len(calls) <= 3,
         WriteElsewhere \/ WriteTima \/ WriteTma \/ WriteTacEnabling
           \/ WriteTacDisabling \/ WriteTacIgnored \/ ReportCycles
  PROVE  Gone' \/ (Outcome' = Outcome /\ Len(calls') <= 3 /\ NoneIsDue')
<1> USE SoundFacts
<1> DEFINE c == calls[1]
<1>1. pc = "idle" /\ Head(calls) = c /\ calls # <<>> /\ new_tac = tac
  <2>1. pc = "idle" /\ calls # <<>>
    BY DEF WriteElsewhere, WriteTima, WriteTma, WriteTacEnabling,
       WriteTacDisabling, WriteTacIgnored, ReportCycles, Calls
  <2> QED
    BY <2>1
<1>2. Now = Seen(tac, tma, tima, heap_size)
  BY <1>1 DEF Now, ToInsert
<1>3. /\ Seen(tac, tma, tima, heap_size).tac = tac
      /\ Seen(tac, tma, tima, heap_size).tma = tma
      /\ Seen(tac, tma, tima, heap_size).tima = tima
      /\ Seen(tac, tma, tima, heap_size).events = heap_size
  BY DEF Seen
<1> HIDE DEF c
<1>4. CASE WriteElsewhere
  <2>1. PICK name \in {"putchar", "none"} : Calls(name)
    BY <1>4 DEF WriteElsewhere
  <2>2. c.to = name /\ UNCHANGED timerVars
    BY <1>1, <1>4, <2>1 DEF WriteElsewhere, Calls
  <2>3. Now' = Now /\ AfterCall(Now, c) = Now
    BY <1>2, <1>3, <2>1, <2>2
    DEF Now, ToInsert, timerVars, control, registers, queue, AfterCall
  <2>4. NoneIsDue'
    BY <1>1, <2>2 DEF NoneIsDue, AllFar, timerVars, control, queue
  <2> QED
    BY <2>1, <2>3, <2>4, OutcomeOfNext DEF c
<1>5. CASE WriteTima
  <2>1. Calls("handle_tima_write") /\ c.to = "handle_tima_write" /\ tima' = c.argument
    BY <1>1, <1>5 DEF WriteTima, Calls, Argument
  <2>2. UNCHANGED <<events, heap_size, pc, at, ret, tma, tac, new_tac>>
    BY <1>5 DEF WriteTima, T!TimaWrite, T!vars, T!queue, T!control
  <2>3. Now' = AfterCall(Now, c)
    BY <1>1, <1>2, <1>3, <2>1, <2>2 DEF Now, ToInsert, AfterCall
  <2>4. NoneIsDue'
    BY <1>1, <2>2 DEF NoneIsDue, AllFar
  <2> QED
    BY <2>1, <2>3, <2>4, OutcomeOfNext DEF c
<1>6. CASE WriteTma
  <2>1. Calls("handle_tma_write") /\ c.to = "handle_tma_write" /\ tma' = c.argument
    BY <1>1, <1>6 DEF WriteTma, Calls, Argument
  <2>2. UNCHANGED <<events, heap_size, pc, at, ret, tima, tac, new_tac>>
    BY <1>6 DEF WriteTma, T!TmaWrite, T!vars, T!queue, T!control
  <2>3. Now' = AfterCall(Now, c)
    BY <1>1, <1>2, <1>3, <2>1, <2>2 DEF Now, ToInsert, AfterCall
  <2>4. NoneIsDue'
    BY <1>1, <2>2 DEF NoneIsDue, AllFar
  <2> QED
    BY <2>1, <2>3, <2>4, OutcomeOfNext DEF c
<1>7. CASE WriteTacDisabling
  <2>1. /\ Calls("handle_tac_write") /\ c.to = "handle_tac_write"
        /\ tac' = TacOf(c.argument) /\ new_tac' = tac' /\ tac.enabled
        /\ ~TacOf(c.argument).enabled
    BY <1>1, <1>7 DEF WriteTacDisabling, Calls, Argument, T!TacDisable
  <2>2. UNCHANGED <<events, heap_size, pc, at, ret, tima, tma>>
    BY <1>7 DEF WriteTacDisabling, T!TacDisable, T!vars, T!queue, T!control
  <2>3. Now' = AfterCall(Now, c)
    BY <1>1, <1>2, <1>3, <2>1, <2>2 DEF Now, ToInsert, AfterCall, TacWritten, Added
  <2>4. NoneIsDue'
    BY <1>1, <2>2 DEF NoneIsDue, AllFar
  <2> QED
    BY <2>1, <2>3, <2>4, OutcomeOfNext DEF c
<1>8. CASE WriteTacIgnored
  <2>1. /\ Calls("handle_tac_write") /\ c.to = "handle_tac_write"
        /\ TacOf(c.argument).enabled = tac.enabled /\ UNCHANGED timerVars
    BY <1>1, <1>8 DEF WriteTacIgnored, Calls, Argument
  <2>3. Now' = AfterCall(Now, c)
    BY <1>1, <1>2, <1>3, <2>1
    DEF Now, ToInsert, AfterCall, TacWritten, Added, timerVars, control, registers, queue
  <2>4. NoneIsDue'
    BY <1>1, <2>1 DEF NoneIsDue, AllFar, timerVars, control, queue
  <2> QED
    BY <2>1, <2>3, <2>4, OutcomeOfNext DEF c
<1>9. CASE WriteTacEnabling
  <2>1. /\ Calls("handle_tac_write") /\ c.to = "handle_tac_write"
        /\ new_tac' = TacOf(c.argument) /\ TacOf(c.argument).enabled
    BY <1>1, <1>9 DEF WriteTacEnabling, Calls, Argument
  <2>2. /\ ~tac.enabled /\ UNCHANGED <<tima, tma>>
        /\ T!insert_timer_event("idle", "tac_overflow")
    BY <1>9 DEF WriteTacEnabling, T!TacEnable
  <2>3. /\ heap_size' = heap_size
        /\ Gone' \/ (pc' = "up" /\ ret' = "tac_overflow" /\ at' = heap_size /\ AllFar')
    BY <1>1, <2>2, InsertsFar DEF NoneIsDue
  <2>4. ~Gone' => Now' = AfterCall(Now, c)
    BY <1>1, <1>2, <1>3, <2>1, <2>2, <2>3 DEF Now, ToInsert, AfterCall, TacWritten, Added
  <2>5. ~Gone' => NoneIsDue'
    BY <2>3 DEF NoneIsDue
  <2> QED
    BY <2>1, <2>4, <2>5, OutcomeOfNext DEF c
<1>10. CASE ReportCycles
  <2>1. Calls("add_cycles") /\ c.to = "add_cycles"
    BY <1>1, <1>10 DEF ReportCycles, Calls
  <2>2. calls' = <<>>
    BY <2>1, NextCall DEF Sound, ClockInv
  <2>3. pc' = "loop" /\ UNCHANGED <<events, heap_size, tima, tma, tac, new_tac>>
    BY <1>10 DEF ReportCycles, T!AddCycles, T!queue, registers
  <2>a. Now' = Now
    BY <1>1, <2>3 DEF Now, ToInsert
  <2>b. AfterCall(Now, c) = Now
    BY <1>2, <1>3, <2>1 DEF AfterCall
  <2>4. Now' = AfterCall(Now, c)
    BY <2>a, <2>b
  <2>5. NoneIsDue'
    BY <1>1, <2>2, <2>3 DEF NoneIsDue, AllFar
  <2> QED
    BY <2>1, <2>4, <2>5, OutcomeOfNext DEF c
<1> QED
  BY <1>4, <1>5, <1>6, <1>7, <1>8, <1>9, <1>10

(* Nothing but the insertions, and the loop that finds no event due, goes  *)
(* on in between.                                                          *)
LEMMA NothingIsCalled ==
  ASSUME Sound, NoneIsDue, elapsed <= 84,
         TacInsertsOverflow \/ TacIsSet \/ TimaIncrements \/ TimaOverflows \/ SchedulerGoesOn
  PROVE  /\ ~TimaOverflows
         /\ Gone' \/ (Outcome' = Outcome /\ calls' = calls /\ NoneIsDue')
<1> USE SoundFacts
<1>1. ~TimaIncrements /\ ~TimaOverflows /\ ~T!DeleteMin("returned") /\ ~T!SiftDown
  BY DEF NoneIsDue, TimaIncrements, TimaOverflows, T!HandleTimaIncrement, T!ReloadTima,
     T!DeleteMin, T!SiftDown
<1>2. ~T!CallCallback
  <2> SUFFICES ASSUME pc = "loop", events[0].timestamp <= timestamp_next, heap_size > 0
               PROVE  FALSE
    BY DEF T!CallCallback, T!EventIsDue
  <2>1. calls = <<>>
    BY DEF NoneIsDue
  <2>2. elapsed = timestamp_next /\ elapsed \in Nat
    BY <2>1, NoCalls DEF Sound, ClockInv
  <2>3. events[0].timestamp > 84 /\ events[0].timestamp \in Nat
    BY DEF NoneIsDue, AllFar
  <2> QED
    BY <2>2, <2>3
<1>3. CASE TacInsertsOverflow
  <2>1. /\ T!insert_timer_event("tac_overflow", "tac_set")
        /\ UNCHANGED <<tima, tma, tac, new_tac, calls>>
    BY <1>3 DEF TacInsertsOverflow, T!TacInsertOverflow, T!registers, CpuWaits
  <2>2. pc = "tac_overflow"
    BY <2>1, InsertsFar DEF T!insert_timer_event, T!InsertEvent
  <2>3. /\ heap_size' = heap_size
        /\ Gone' \/ (pc' = "up" /\ ret' = "tac_set" /\ at' = heap_size /\ AllFar')
    BY <2>1, <2>2, InsertsFar DEF NoneIsDue
  <2>4. ~Gone' => Now' = Now
    BY <2>1, <2>2, <2>3 DEF Now, ToInsert
  <2>5. ~Gone' => NoneIsDue'
    BY <2>3 DEF NoneIsDue
  <2> QED
    BY <1>1, <2>1, <2>4, <2>5, SameOutcome
<1>4. CASE TacIsSet
  <2>1. /\ pc = "tac_set" /\ pc' = "idle"
        /\ UNCHANGED <<events, heap_size, tima, tma, new_tac, calls>>
    BY <1>4 DEF TacIsSet, T!TacSet, T!queue, CpuWaits
  <2>2. Now' = Now
    BY <2>1 DEF Now, ToInsert
  <2>3. NoneIsDue'
    BY <2>1 DEF NoneIsDue, AllFar
  <2> QED
    BY <1>1, <2>1, <2>2, <2>3, SameOutcome
<1>5. CASE SchedulerGoesOn
  <2>1. UNCHANGED <<tima, tma, tac, new_tac, calls>>
    BY <1>5 DEF SchedulerGoesOn, CpuWaits, registers
  <2>2. T!SiftUp \/ T!SiftUpRoot \/ T!SiftUpFront \/ T!StepReturns
    BY <1>1, <1>2, <1>5 DEF SchedulerGoesOn, T!Machinery
  <2>3. CASE T!SiftUp \/ T!SiftUpRoot \/ T!SiftUpFront
    <3>1. pc = "up"
      BY <2>3 DEF T!SiftUp, T!SiftUpRoot, T!SiftUpFront
    <3>2. at \in T!Front .. heap_size /\ AllFar /\ ret # "returned"
      BY <3>1 DEF NoneIsDue
    <3>3. /\ AllFar' /\ ret' = ret
          /\ \/ pc' = "up" /\ heap_size' = heap_size /\ at' \in T!Front .. heap_size
             \/ pc' = ret /\ heap_size' = heap_size + 1
      BY <2>3, <3>1, <3>2, SiftsFar
    <3>4. Now' = Now
      BY <2>1, <3>1, <3>2, <3>3 DEF Now, ToInsert
    <3>5. NoneIsDue'
      BY <3>1, <3>2, <3>3 DEF NoneIsDue
    <3> QED
      BY <1>1, <2>1, <3>4, <3>5, SameOutcome
  <2>4. CASE T!StepReturns
    <3>1. pc = "loop" /\ pc' = "idle" /\ UNCHANGED <<events, heap_size>>
      BY <2>4 DEF T!StepReturns, T!queue
    <3>2. Now' = Now
      BY <2>1, <3>1 DEF Now, ToInsert
    <3>3. NoneIsDue'
      BY <3>1 DEF NoneIsDue, AllFar
    <3> QED
      BY <1>1, <2>1, <3>2, <3>3, SameOutcome
  <2> QED
    BY <2>2, <2>3, <2>4
<1> QED
  BY <1>1, <1>3, <1>4, <1>5

LEMMA BeforeStays ==
  ASSUME Sound, NEW t \in Reported, NEW d, Before(t, d), InstructionGoesOn
  PROVE  Gone' \/ Before(t, d)'
<1>1. CASE WriteElsewhere \/ WriteTima \/ WriteTma \/ WriteTacEnabling
             \/ WriteTacDisabling \/ WriteTacIgnored \/ ReportCycles
  <2>1. elapsed' = elapsed /\ interrupt_flag' = interrupt_flag
    BY <1>1 DEF WriteElsewhere, WriteTima, WriteTma, WriteTacEnabling,
       WriteTacDisabling, WriteTacIgnored, ReportCycles, Calls, vars, busVars
  <2> QED
    BY <1>1, <2>1, CallsAreForeseen DEF Before, TimerBit
<1>2. CASE TacInsertsOverflow \/ TacIsSet \/ TimaIncrements \/ TimaOverflows
             \/ SchedulerGoesOn
  <2>1. /\ ~TimaOverflows
        /\ Gone' \/ (Outcome' = Outcome /\ calls' = calls /\ NoneIsDue')
    <3>1. elapsed <= 84
      BY DEF Before, Reported
    <3> QED
      BY <1>2, <3>1, NothingIsCalled DEF Before
  <2>2. elapsed' = elapsed /\ interrupt_flag' = interrupt_flag
    BY <1>2, <2>1 DEF TacInsertsOverflow, TacIsSet, TimaIncrements, SchedulerGoesOn,
       CpuWaits, vars, busVars
  <2> QED
    BY <2>1, <2>2 DEF Before, TimerBit
<1> QED
  BY <1>1, <1>2 DEF InstructionGoesOn

-----------------------------------------------------------------------------
(* The calls of an instruction with no, one and two writes.                *)
Passed(a, d) == [to |-> Port(a), argument |-> d]
Report(t) == [to |-> "add_cycles", argument |-> t]

LEMMA CallsAre ==
  ASSUME NEW ws \in Seq(Writes), NEW t \in 0 .. 24, calls' = CallsOf(ws, t)
  PROVE  /\ Len(calls') = Len(ws) + (IF t = 0 THEN 0 ELSE 1) /\ Len(ws) \in Nat
         /\ \A i \in 1 .. Len(ws) : calls'[i] = Passed(ws[i].address, ws[i].data)
         /\ t # 0 => calls'[Len(ws) + 1] = Report(t)
<1> DEFINE cs == [i \in 1 .. Len(ws) |->
                    [to |-> Port(ws[i].address), argument |-> ws[i].data]]
           report == Report(t)
<1>1. cs \in Seq(CallRecords) /\ Len(cs) \in Nat /\ Len(cs) = Len(ws) /\ Len(ws) \in Nat
  BY DeviceCalls
<1>2. calls' = cs \o (IF t = 0 THEN <<>> ELSE <<report>>)
  BY DEF CallsOf, Report
<1>3. \A i \in 1 .. Len(ws) : cs[i] = Passed(ws[i].address, ws[i].data)
  BY DEF Passed
<1> HIDE DEF cs
<1>4. CASE t = 0
  <2>1. calls' = cs
    BY <1>1, <1>2, <1>4, ConcatEmptySeq
  <2> QED
    BY <1>1, <1>3, <1>4, <2>1
<1>5. CASE t # 0
  <2>1. report \in CallRecords
    BY DEF Report, CallRecords
  <2>2. calls' = cs \o <<report>>
    BY <1>2, <1>5
  <2> HIDE DEF report
  <2>3. <<report>> \in Seq(CallRecords) /\ Len(<<report>>) = 1 /\ <<report>>[1] = report
    BY <2>1
  <2>4. /\ Len(calls') = Len(cs) + 1
        /\ \A i \in 1 .. Len(cs) + 1 :
             calls'[i] = IF i <= Len(cs) THEN cs[i] ELSE <<report>>[i - Len(cs)]
    BY <1>1, <2>2, <2>3, ConcatProperties
  <2>5. \A i \in 1 .. Len(cs) : calls'[i] = cs[i]
    BY <1>1, <2>4
  <2>6. calls'[Len(cs) + 1] = report
    BY <1>1, <2>3, <2>4
  <2> QED
    BY <1>1, <1>3, <1>5, <2>4, <2>5, <2>6 DEF report
<1> QED
  BY <1>4, <1>5

LEMMA AtRestBefore ==
  ASSUME Sound, AtRest
  PROVE  /\ Len(calls) = 0 /\ Outcome = Now /\ new_tac = tac
         /\ Now = Seen(tac, tma, tima, heap_size)
<1>1. Len(calls) = 0
  BY EmptySeq DEF AtRest
<1> QED
  BY <1>1, SoundFacts DEF AtRest, Outcome, Now, ToInsert

LEMMA ReportChangesNothing ==
  ASSUME Sound, AtRest, NEW t
  PROVE  /\ AfterCall(Now, Report(t)) = Now
         /\ \A c : AfterCall(AfterCall(Now, c), Report(t)) = AfterCall(Now, c)
         /\ \A c, e : AfterCall(AfterCall(AfterCall(Now, c), e), Report(t))
                        = AfterCall(AfterCall(Now, c), e)
<1> DEFINE IsTimer(d) == \E a, m, v : \E n \in Nat : d = Seen(a, m, v, n)
<1>1. ASSUME NEW a, NEW m, NEW v, NEW n \in Nat, NEW c
      PROVE  /\ IsTimer(AfterCall(Seen(a, m, v, n), c))
             /\ AfterCall(Seen(a, m, v, n), Report(t)) = Seen(a, m, v, n)
  <2>1. /\ Seen(a, m, v, n).tac = a /\ Seen(a, m, v, n).tma = m
        /\ Seen(a, m, v, n).tima = v /\ Seen(a, m, v, n).events = n
    BY DEF Seen
  <2>2. Report(t).to = "add_cycles"
    BY DEF Report
  <2>3. AfterCall(Seen(a, m, v, n), Report(t)) = Seen(a, m, v, n)
    BY <2>1, <2>2 DEF AfterCall
  <2>4. n + (IF c.to = "handle_tac_write" THEN Added(a, c.argument) ELSE 0) \in Nat
    BY DEF Added
  <2>5. IsTimer(AfterCall(Seen(a, m, v, n), c))
    BY <2>1, <2>4 DEF AfterCall
  <2> QED
    BY <2>3, <2>5
<1>2. IsTimer(Now)
  BY AtRestBefore, SoundFacts
<1>3. \A d : IsTimer(d) =>
        AfterCall(d, Report(t)) = d /\ \A c : IsTimer(AfterCall(d, c))
  BY <1>1
<1> HIDE DEF IsTimer
<1> QED
  BY <1>2, <1>3

LEMMA StepsFacts ==
  ASSUME Sound, Step
  PROVE  /\ AtRest /\ pc = "idle" /\ CpuStep /\ Ready
         /\ writes' \in Seq(Writes) /\ cycles' \in 0 .. 24
         /\ calls' = CallsOf(writes', cycles')
         /\ Now' = Now /\ (NoneIsDue => NoneIsDue')
         /\ UNCHANGED <<pc, ret, heap_size, new_tac, tac, tma, tima>>
         /\ \A t \in Reported, u \in Reported :
              elapsed = t /\ u = t + cycles' => elapsed' = u
<1>1. AtRest /\ pc = "idle" /\ CpuStep /\ calls' = CallsOf(writes', cycles')
  BY DEF Step, AtRest
<1>2. Ready
  BY DEF Sound, Ready, TypedAndFetched
<1>3. CpuInv'
  BY <1>1, <1>2, StepOK
<1>4. writes' \in Seq(Writes) /\ cycles' \in 0 .. 24
  BY <1>3 DEF CpuInv, MemoryOK
<1>5. UNCHANGED <<events, heap_size, pc, at, ret, tima, tma, tac, new_tac>>
  BY DEF Step, timerVars, queue, control, registers
<1>6. Now' = Now
  BY <1>5 DEF Now, ToInsert
<1>7. NoneIsDue => NoneIsDue'
  BY <1>1, <1>5 DEF NoneIsDue, AllFar
<1>8. ASSUME NEW t \in Reported, NEW u \in Reported, elapsed = t, u = t + cycles'
      PROVE  elapsed' = u
  <2>1. elapsed' = u % Wrap
    BY <1>8 DEF Step
  <2>2. \A n \in Reported : n % Wrap = n
    <3>1. Wrap \in Nat /\ Wrap > 84
      BY SoundFacts
    <3> QED
      BY <3>1 DEF Reported
  <2> QED
    BY <2>1, <2>2
<1> QED
  BY <1>1, <1>2, <1>4, <1>5, <1>6, <1>7, <1>8

(* What is known after an instruction that writes nothing, that writes one *)
(* byte and that pushes two.                                               *)
LEMMA BeforeQuietStep ==
  ASSUME Sound, Step, NEW t \in Reported, NEW u \in Reported, NEW d, Before(t, d),
         OnlyReports(u - t)
  PROVE  Before(u, d)'
<1>1. writes' = <<>> /\ cycles' = u - t /\ interrupt_flag' = interrupt_flag
  BY DEF OnlyReports, NoWrite, busVars
<1>2. /\ Len(calls') = Len(writes') + (IF cycles' = 0 THEN 0 ELSE 1)
      /\ cycles' # 0 => calls'[Len(writes') + 1] = Report(cycles')
  BY StepsFacts, CallsAre
<1>3. Len(writes') = 0
  BY <1>1, EmptySeq
<1>a. u = t + cycles'
  BY <1>1 DEF Reported
<1>4. elapsed' = u
  BY <1>a, StepsFacts DEF Before
<1>b. ~TimerBit(interrupt_flag') /\ NoneIsDue'
  BY <1>1, StepsFacts DEF Before
<1>5. Now = d /\ Now' = Now
  BY StepsFacts, AtRestBefore DEF Before
<1>6. CASE cycles' = 0
  <2>1. Len(calls') = 0
    BY <1>2, <1>3, <1>6
  <2>2. Outcome' = d
    BY <1>5, <2>1 DEF Outcome
  <2> QED
    BY <1>4, <1>b, <2>1, <2>2 DEF Before, TimerBit
<1>7. CASE cycles' # 0
  <2>1. Len(calls') = 1 /\ calls'[1] = Report(cycles')
    BY <1>2, <1>3, <1>7
  <2>2. Outcome' = AfterCall(Now', Report(cycles'))
    BY <2>1 DEF Outcome
  <2>3. Outcome' = d
    BY <1>5, <2>2, StepsFacts, ReportChangesNothing
  <2> QED
    BY <1>4, <1>b, <2>1, <2>3 DEF Before, TimerBit
<1> QED
  BY <1>6, <1>7

LEMMA SameBit ==
  ASSUME interrupt_flag' = interrupt_flag
  PROVE  TimerBit(interrupt_flag)' <=> TimerBit(interrupt_flag)
BY Zenon DEF TimerBit

LEMMA BeforeAfterwards ==
  ASSUME NEW t, NEW d, elapsed' = t, Len(calls') <= 3, Outcome' = d,
         ~TimerBit(interrupt_flag)', NoneIsDue'
  PROVE  Before(t, d)'
BY DEF Before

LEMMA BeforeStore ==
  ASSUME Sound, Step, NEW t \in Reported, NEW u \in Reported, NEW d, Before(t, d), t < u,
         NEW a, NEW x, Store(a, x), ~IsInterruptFlag(a), cycles' = u - t
  PROVE  Before(u, AfterCall(d, Passed(a, x)))'
<1> DEFINE c == Passed(a, x)
<1>a. u = t + cycles' /\ cycles' # 0
  BY DEF Reported
<1>1. writes' = <<Call(a, x)>> /\ interrupt_flag' = interrupt_flag
  BY DEF Store, WriteMemory, FlagAfter
<1>2. /\ Len(calls') = Len(writes') + 1
      /\ \A i \in 1 .. Len(writes') : calls'[i] = Passed(writes'[i].address, writes'[i].data)
      /\ calls'[Len(writes') + 1] = Report(cycles')
  BY <1>a, StepsFacts, CallsAre
<1>3. Len(writes') = 1 /\ Passed(writes'[1].address, writes'[1].data) = c
  BY <1>1 DEF Call
<1>4. elapsed' = u
  BY <1>a, StepsFacts DEF Before
<1>5. Now = d /\ Now' = Now
  BY StepsFacts, AtRestBefore DEF Before
<1> HIDE DEF c
<1>6. Len(calls') = 2 /\ calls'[1] = c /\ calls'[2] = Report(cycles')
  BY <1>2, <1>3
<1>7. Outcome' = AfterCall(AfterCall(Now', c), Report(cycles'))
  BY <1>6 DEF Outcome
<1>8. Outcome' = AfterCall(d, c)
  <2>1. AfterCall(AfterCall(Now, c), Report(cycles')) = AfterCall(Now, c)
    BY StepsFacts, ReportChangesNothing
  <2> QED
    BY <1>5, <1>7, <2>1
<1>b. ~TimerBit(interrupt_flag)'
  BY <1>1, SameBit DEF Before
<1>d. NoneIsDue'
  BY StepsFacts DEF Before
<1>e. Len(calls') <= 3
  BY <1>6
<1>9. Before(u, AfterCall(d, c))'
  BY <1>4, <1>8, <1>b, <1>d, <1>e, BeforeAfterwards
<1> QED
  BY <1>9 DEF c

LEMMA BeforePush ==
  ASSUME Sound, Step, NEW t \in Reported, NEW u \in Reported, NEW d, Before(t, d), t < u,
         NEW a, NEW x, NEW b, NEW y, writes' = <<Call(a, x), Call(b, y)>>,
         interrupt_flag' = interrupt_flag, cycles' = u - t
  PROVE  Before(u, AfterCall(AfterCall(d, Passed(a, x)), Passed(b, y)))'
<1> DEFINE c == Passed(a, x)
           e == Passed(b, y)
<1>a. u = t + cycles' /\ cycles' # 0
  BY DEF Reported
<1>2. /\ Len(calls') = Len(writes') + 1
      /\ \A i \in 1 .. Len(writes') : calls'[i] = Passed(writes'[i].address, writes'[i].data)
      /\ calls'[Len(writes') + 1] = Report(cycles')
  BY <1>a, StepsFacts, CallsAre
<1>3. /\ Len(writes') = 2 /\ Passed(writes'[1].address, writes'[1].data) = c
      /\ Passed(writes'[2].address, writes'[2].data) = e
  BY DEF Call
<1>4. elapsed' = u
  BY <1>a, StepsFacts DEF Before
<1>5. Now = d /\ Now' = Now
  BY StepsFacts, AtRestBefore DEF Before
<1> HIDE DEF c, e
<1>6. /\ Len(calls') = 3 /\ calls'[1] = c /\ calls'[2] = e /\ calls'[3] = Report(cycles')
  BY <1>2, <1>3
<1>7. Outcome' = AfterCall(AfterCall(AfterCall(Now', c), e), Report(cycles'))
  BY <1>6 DEF Outcome
<1>8. Outcome' = AfterCall(AfterCall(d, c), e)
  <2>1. AfterCall(AfterCall(AfterCall(Now, c), e), Report(cycles'))
          = AfterCall(AfterCall(Now, c), e)
    BY StepsFacts, ReportChangesNothing
  <2> QED
    BY <1>5, <1>7, <2>1
<1>b. ~TimerBit(interrupt_flag)'
  BY SameBit DEF Before
<1>d. NoneIsDue'
  BY StepsFacts DEF Before
<1>f. Len(calls') <= 3
  BY <1>6
<1>9. Before(u, AfterCall(AfterCall(d, c), e))'
  BY <1>4, <1>8, <1>b, <1>d, <1>f, BeforeAfterwards
<1> QED
  BY <1>9 DEF c, e

-----------------------------------------------------------------------------
(* Once the events run: the wait for the interrupt, the events that are    *)
(* left over when the timer is disabled, and the queue with four of them.  *)
Zero == IsSet(reg["F"], FLAG_Z)
Waiting(p) ==
  \/ reg["PC"] = p
  \/ reg["PC"] = p + 2 /\ (TimerBit(reg["A"]) => TimerBit(interrupt_flag))
  \/ reg["PC"] = p + 4 /\ (~Zero => TimerBit(interrupt_flag))
  \/ reg["PC"] = p + 6 /\ TimerBit(interrupt_flag)

(* No write to the timer is left to do.                                    *)
WritesAreOver == \A i \in 1 .. Len(calls) : calls[i].to \in {"none", "add_cycles"}

Left == heap_size - (IF pc = "returned" THEN 1 ELSE 0)
Draining ==
  /\ WritesAreOver /\ ~new_tac.enabled
  /\ Left <= 2 /\ (TimerBit(interrupt_flag) => Left <= 1)
DrainingAgain ==
  /\ WritesAreOver /\ ~new_tac.enabled
  /\ interrupt_flag % 2 = 1
  /\ Left <= 1 /\ (TimerBit(interrupt_flag) => Left = 0 /\ tima = tma)
Four ==
  /\ WritesAreOver /\ new_tac = TacOf(7) /\ ~TP!Enabling
  /\ heap_size = 4 + (IF pc = "returned" THEN 1 ELSE 0)
  /\ TimerBit(interrupt_flag) => MAX_EVENTS > 5

LEMMA InterruptAdds ==
  ASSUME NEW flag \in Byte
  PROVE  /\ TimerBit(WithTimerInterrupt(flag))
         /\ WithTimerInterrupt(flag) % 2 = flag % 2
BY InterruptSets DEF WithTimerInterrupt, Byte

(* The CPU waits, and the interrupt may be raised.                         *)
LEMMA GoingOnRaises ==
  ASSUME Sound, InstructionGoesOn
  PROVE  /\ UNCHANGED <<reg, critical, cart_data>>
         /\ TimerBit(interrupt_flag) => TimerBit(interrupt_flag')
         /\ interrupt_flag' % 2 = interrupt_flag % 2
         /\ TimaOverflows \/ interrupt_flag' = interrupt_flag
<1>1. UNCHANGED <<reg, critical>>
  BY CpuStandsStill DEF cpuVars
<1>2. CASE TimaOverflows
  <2>1. interrupt_flag \in Byte
    BY DEF Sound, TypedAndFetched, CpuInv, MemoryOK, BusTypeOK
  <2>2. interrupt_flag' = WithTimerInterrupt(interrupt_flag) /\ cart_data' = cart_data
    BY <1>2 DEF TimaOverflows, SetInterrupt
  <2> QED
    BY <1>1, <1>2, <2>1, <2>2, InterruptAdds
<1>3. CASE ~TimaOverflows
  <2>1. UNCHANGED vars
    BY <1>3 DEF InstructionGoesOn, WriteElsewhere, WriteTima, WriteTma, WriteTacEnabling,
       WriteTacDisabling, WriteTacIgnored, ReportCycles, Calls, TacInsertsOverflow,
       TacIsSet, TimaIncrements, SchedulerGoesOn, CpuWaits
  <2> QED
    BY <1>1, <2>1 DEF vars, busVars
<1> QED
  BY <1>2, <1>3

LEMMA WaitingStays ==
  ASSUME Sound, InstructionGoesOn, NEW p, Waiting(p)
  PROVE  Waiting(p)'
<1>1. TimerBit(interrupt_flag) => TimerBit(interrupt_flag)'
  BY GoingOnRaises DEF TimerBit
<1>2. reg' = reg
  BY GoingOnRaises
<1> QED
  BY <1>1, <1>2 DEF Waiting, Zero, TimerBit

LEMMA WritesStayOver ==
  ASSUME Sound, InstructionGoesOn, WritesAreOver
  PROVE  /\ WritesAreOver' /\ tma' = tma /\ new_tac' = new_tac
         /\ ~(WriteTima \/ WriteTma \/ WriteTacEnabling \/ WriteTacDisabling
                \/ WriteTacIgnored)
<1>1. calls # <<>> => Len(calls) \in Nat \ {0} /\ Head(calls) = calls[1]
  BY SoundFacts, EmptySeq, HeadTailProperties
<1>2. calls # <<>> => Head(calls).to \in {"none", "add_cycles"}
  <2>1. calls # <<>> => 1 \in 1 .. Len(calls)
    BY <1>1
  <2> QED
    BY <1>1, <2>1 DEF WritesAreOver
<1>3. ~(WriteTima \/ WriteTma \/ WriteTacEnabling \/ WriteTacDisabling \/ WriteTacIgnored)
  BY <1>2 DEF WriteTima, WriteTma, WriteTacEnabling, WriteTacDisabling, WriteTacIgnored,
     Calls
<1>4. tma' = tma /\ new_tac' = new_tac
  <2>1. CASE WriteElsewhere \/ ReportCycles \/ SchedulerGoesOn
    BY <2>1 DEF WriteElsewhere, ReportCycles, SchedulerGoesOn, timerVars, registers
  <2>2. CASE TacInsertsOverflow \/ TacIsSet \/ TimaIncrements \/ TimaOverflows
    BY <2>2 DEF TacInsertsOverflow, TacIsSet, TimaIncrements, TimaOverflows,
       T!TacInsertOverflow, T!TacSet, T!HandleTimaIncrement, T!ReloadTima, T!registers
  <2> QED
    BY <1>3, <2>1, <2>2 DEF InstructionGoesOn
<1>5. calls' = calls \/ (calls # <<>> /\ calls' = Tail(calls))
  BY DEF InstructionGoesOn, WriteElsewhere, WriteTima, WriteTma, WriteTacEnabling,
     WriteTacDisabling, WriteTacIgnored, ReportCycles, Calls, TacInsertsOverflow,
     TacIsSet, TimaIncrements, TimaOverflows, SchedulerGoesOn, CpuWaits
<1>6. WritesAreOver'
  <2>1. CASE calls' = calls
    BY <2>1 DEF WritesAreOver
  <2>2. CASE calls # <<>> /\ calls' = Tail(calls)
    <3>1. /\ Len(calls) \in Nat \ {0}
          /\ Len(Tail(calls)) = Len(calls) - 1
          /\ \A i \in 1 .. Len(Tail(calls)) : Tail(calls)[i] = calls[i + 1]
      BY <2>2, SoundFacts, EmptySeq, HeadTailProperties
    <3>2. /\ Len(calls') = Len(calls) - 1
          /\ \A i \in 1 .. Len(calls') : calls'[i] = calls[i + 1]
      BY <2>2, <3>1
    <3>3. \A i \in 1 .. Len(calls') : i + 1 \in 1 .. Len(calls)
      BY <3>1, <3>2
    <3> QED
      BY <3>2, <3>3 DEF WritesAreOver
  <2> QED
    BY <1>5, <2>1, <2>2
<1> QED
  BY <1>3, <1>4, <1>6

LEMMA SchedulerFires ==
  ASSUME SchedulerGoesOn, pc # "up"
  PROVE  /\ UNCHANGED <<tima, ret>> /\ UNCHANGED <<interrupt_flag>>
         /\ pc' \notin {"up", "tac_overflow", "tac_set"}
         /\ \/ pc = "returned" /\ pc' = "down" /\ heap_size' = heap_size - 1
            \/ pc # "returned" /\ pc' # "returned" /\ heap_size' = heap_size
<1>1. UNCHANGED <<tima, interrupt_flag>>
  BY DEF SchedulerGoesOn, registers, CpuWaits, vars, busVars
<1>2. CASE T!DeleteMin("returned")
  BY <1>1, <1>2 DEF T!DeleteMin
<1>3. CASE T!CallCallback
  BY <1>1, <1>3 DEF T!CallCallback, T!queue
<1>4. CASE T!SiftDown
  BY <1>1, <1>4 DEF T!SiftDown, T!DeleteReturns
<1>5. CASE T!StepReturns
  BY <1>1, <1>5 DEF T!StepReturns, T!queue
<1> QED
  BY <1>2, <1>3, <1>4, <1>5
  DEF SchedulerGoesOn, T!Machinery, T!SiftUp, T!SiftUpRoot, T!SiftUpFront

LEMMA ReportOnly ==
  ASSUME WriteElsewhere \/ ReportCycles
  PROVE  /\ UNCHANGED <<tima, ret, heap_size, interrupt_flag>>
         /\ pc = "idle" /\ pc' \in {"idle", "loop"}
<1>1. CASE WriteElsewhere
  BY <1>1 DEF WriteElsewhere, Calls, timerVars, registers, queue, control, vars, busVars
<1>2. CASE ReportCycles
  BY <1>2 DEF ReportCycles, Calls, T!AddCycles, T!queue, registers, vars, busVars
<1> QED
  BY <1>1, <1>2

(* With the timer disabled an event that runs is not put back.             *)
Settles == UNCHANGED <<tima, interrupt_flag>> /\ Left' = Left
Fires ==
  /\ Left >= 1 /\ Left' = Left - 1
  /\ interrupt_flag' = interrupt_flag \/ (TimerBit(interrupt_flag') /\ tima' = tma)

LEMMA DisabledFires ==
  ASSUME Sound, InstructionGoesOn, WritesAreOver, ~new_tac.enabled
  PROVE  Settles \/ Fires
<1> USE SoundFacts
<1>1. ~Gone
  BY CpuStandsStill DEF InstructionGoesOn, Gone, WriteElsewhere, WriteTima, WriteTma,
     WriteTacEnabling, WriteTacDisabling, WriteTacIgnored, ReportCycles, Calls,
     TacInsertsOverflow, TacIsSet, TimaIncrements, TimaOverflows, SchedulerGoesOn,
     T!TacInsertOverflow, T!insert_timer_event, T!InsertEvent, T!TacSet,
     T!HandleTimaIncrement, T!ReloadTima, T!DeleteMin, T!Machinery, T!SiftUp,
     T!SiftUpRoot, T!SiftUpFront, T!CallCallback, T!SiftDown, T!StepReturns
<1>2. /\ pc \notin {"up", "tac_overflow", "tac_set"} /\ ~tac.enabled
      /\ pc \in {"callback", "returned"} => heap_size >= 1
  BY <1>1 DEF Sound, TP!TimerInv, TP!PlacesAgree, TP!Enabling, TP!Stopped, TP!Firing, Gone
<1>3. CASE WriteElsewhere \/ ReportCycles
  BY <1>3, ReportOnly DEF Settles, Left
<1>4. CASE SchedulerGoesOn
  <2>1. Left' = Left
    BY <1>2, <1>4, SchedulerFires DEF Left
  <2> QED
    BY <1>2, <1>4, <2>1, SchedulerFires DEF Settles
<1>5. CASE TimaIncrements \/ TimaOverflows
  <2>1. pc = "callback" /\ T!InsertAgainIfEnabled
    BY <1>5 DEF TimaIncrements, TimaOverflows, T!HandleTimaIncrement, T!ReloadTima
  <2>2. pc' = "returned" /\ heap_size' = heap_size
    BY <1>2, <2>1 DEF T!InsertAgainIfEnabled, T!queue
  <2>3. Left >= 1 /\ Left' = Left - 1
    BY <1>2, <2>1, <2>2 DEF Left
  <2>4. CASE TimaIncrements
    BY <2>3, <2>4 DEF Fires, TimaIncrements, CpuWaits, vars, busVars
  <2>5. CASE TimaOverflows
    BY <2>3, <2>5, InterruptTyped DEF Fires, TimaOverflows, T!ReloadTima, Sound
  <2> QED
    BY <1>5, <2>4, <2>5
<1>6. ~TacInsertsOverflow /\ ~TacIsSet
  BY <1>2 DEF TacInsertsOverflow, TacIsSet, T!TacInsertOverflow, T!insert_timer_event,
     T!InsertEvent, T!TacSet
<1> QED
  BY <1>3, <1>4, <1>5, <1>6, WritesStayOver DEF InstructionGoesOn

LEMMA DrainingStays ==
  ASSUME Sound, InstructionGoesOn
  PROVE  (Draining => Draining') /\ (DrainingAgain => DrainingAgain')
<1>1. ASSUME WritesAreOver, ~new_tac.enabled
      PROVE  /\ WritesAreOver' /\ tma' = tma /\ ~new_tac'.enabled
             /\ TimerBit(interrupt_flag) => TimerBit(interrupt_flag')
             /\ interrupt_flag' % 2 = interrupt_flag % 2
             /\ Settles \/ Fires
             /\ Left \in Int
  BY <1>1, WritesStayOver, GoingOnRaises, DisabledFires, SoundFacts DEF Left
<1>2. TimerBit(interrupt_flag)' <=> TimerBit(interrupt_flag')
  BY DEF TimerBit
<1>3. Draining => Draining'
  <2> SUFFICES ASSUME Draining
               PROVE  Draining'
    OBVIOUS
  <2> HIDE DEF Left
  <2>1. CASE Settles
    <3>1. interrupt_flag' = interrupt_flag
      BY <2>1 DEF Settles
    <3> QED
      BY <1>1, <1>2, <2>1, <3>1 DEF Draining, Settles
  <2>2. CASE Fires
    BY <1>1, <1>2, <2>2 DEF Draining, Fires
  <2> QED
    BY <1>1, <2>1, <2>2 DEF Draining
<1>4. DrainingAgain => DrainingAgain'
  <2> SUFFICES ASSUME DrainingAgain
               PROVE  DrainingAgain'
    OBVIOUS
  <2>1. CASE Settles
    <3>1. interrupt_flag' = interrupt_flag
      BY <2>1 DEF Settles
    <3> QED
      BY <1>1, <1>2, <2>1, <3>1 DEF DrainingAgain, Settles
  <2>2. CASE Fires
    <3>1. ~TimerBit(interrupt_flag) /\ Left = 1
      BY <1>1, <2>2 DEF DrainingAgain, Fires
    <3>2. Left' = 0
      BY <2>2, <3>1 DEF Fires
    <3> QED
      BY <1>1, <1>2, <2>2, <3>1, <3>2 DEF DrainingAgain, Fires
  <2> QED
    BY <1>1, <2>1, <2>2 DEF DrainingAgain
<1> QED
  BY <1>3, <1>4

LEMMA Inserts ==
  ASSUME NEW from, NEW to, T!insert_timer_event(from, to)
  PROVE  /\ pc = from /\ heap_size' = heap_size
         /\ Gone' \/ (pc' = "up" /\ ret' = to /\ heap_size # MAX_EVENTS - 1)
BY DEF T!insert_timer_event, T!InsertEvent, T!AssertFails, T!queue, Gone

LEMMA FourAgain ==
  ASSUME WritesAreOver', new_tac' = TacOf(7), ~TP!Enabling',
         heap_size' = 4 + (IF pc' = "returned" THEN 1 ELSE 0),
         TimerBit(interrupt_flag') => MAX_EVENTS > 5
  PROVE  Four'
<1>1. TimerBit(interrupt_flag)' <=> TimerBit(interrupt_flag')
  BY DEF TimerBit
<1> QED
  BY <1>1 DEF Four

(* Four events pending, each put back before its own is deleted.           *)
LEMMA FourStays ==
  ASSUME Sound, InstructionGoesOn, Four
  PROVE  Gone' \/ Four'
<1> DEFINE StillFour ==
             /\ ~TP!Enabling'
             /\ heap_size' = 4 + (IF pc' = "returned" THEN 1 ELSE 0)
             /\ TimerBit(interrupt_flag') => MAX_EVENTS > 5
<1>1. WritesAreOver' /\ new_tac' = TacOf(7)
  BY WritesStayOver DEF Four
<1>2. StillFour => Four'
  BY <1>1, FourAgain
<1> USE SoundFacts
<1>3. ~TP!Enabling
  BY DEF Four
<1>4. pc \notin {"tac_overflow", "tac_set"} /\ (pc = "up" => ret = "returned")
  BY <1>3 DEF TP!Enabling
<1>5. TacOf(7).enabled
  <2>1. (7 \div 4) % 2 = 1
    OBVIOUS
  <2> QED
    BY <2>1 DEF TacOf
<1>6. pc = "callback" => tac.enabled
  BY <1>3, <1>5 DEF Four, Sound, TP!TimerInv, TP!PlacesAgree, TP!Stopped
<1>7. CASE WriteElsewhere \/ ReportCycles
  BY <1>2, <1>7, ReportOnly DEF Four, TP!Enabling
<1>8. CASE SchedulerGoesOn /\ pc # "up"
  BY <1>2, <1>8, SchedulerFires DEF Four, TP!Enabling
<1>9. CASE SchedulerGoesOn /\ pc = "up"
  <2>1. T!SiftUp \/ T!SiftUpRoot \/ T!SiftUpFront
    BY <1>9 DEF SchedulerGoesOn, T!Machinery, T!DeleteMin, T!CallCallback, T!SiftDown,
       T!StepReturns
  <2>2. /\ ret' = ret
        /\ \/ pc' = "up" /\ heap_size' = heap_size
           \/ pc' = "returned" /\ heap_size' = heap_size + 1
    BY <1>4, <1>9, <2>1 DEF T!SiftUp, T!SiftUpRoot, T!SiftUpFront, T!InsertReturns
  <2>3. interrupt_flag' = interrupt_flag /\ heap_size = 4
    BY <1>9 DEF SchedulerGoesOn, CpuWaits, vars, busVars, Four
  <2> QED
    BY <1>2, <1>4, <1>9, <2>2, <2>3 DEF Four, TP!Enabling
<1>10. CASE TimaIncrements \/ TimaOverflows
  <2>1. pc = "callback" /\ T!InsertAgainIfEnabled
    BY <1>10 DEF TimaIncrements, TimaOverflows, T!HandleTimaIncrement, T!ReloadTima
  <2>2. T!insert_timer_event("callback", "returned")
    BY <1>6, <2>1 DEF T!InsertAgainIfEnabled
  <2>3. /\ heap_size' = heap_size
        /\ Gone' \/ (pc' = "up" /\ ret' = "returned" /\ heap_size # MAX_EVENTS - 1)
    BY <2>2, Inserts
  <2>4. heap_size = 4
    BY <2>1 DEF Four
  <2>5. Gone' \/ MAX_EVENTS > 5
    BY <2>3, <2>4
  <2> QED
    BY <1>2, <2>3, <2>4, <2>5 DEF TP!Enabling
<1>11. ~TacInsertsOverflow /\ ~TacIsSet
  BY <1>4 DEF TacInsertsOverflow, TacIsSet, T!TacInsertOverflow, T!insert_timer_event,
     T!InsertEvent, T!TacSet
<1> QED
  BY <1>7, <1>8, <1>9, <1>10, <1>11, WritesStayOver DEF InstructionGoesOn, Four

-----------------------------------------------------------------------------
(* The instructions of the programs, one by one.                           *)
(* Where a program is, and what it has done to the timer by then.          *)
PcIs(p, t, d) == reg["PC"] = p /\ Before(t, d)
PcAndA(p, a, t, d) == PcIs(p, t, d) /\ reg["A"] = a

(* The step is no last one.                                                *)
Onward == critical' = FALSE /\ cart_data' = cart_data
Begins == Sound /\ Step

(* In time for an instruction of 12 cycles, which most stores are.         *)
InTime == 0 .. 72

LEMMA Rows ==
  /\ <<62, "A">> \in LD_R_IMM8
  /\ <<1, "B", "C">> \in LD_RR_IMM16 /\ <<33, "H", "L">> \in LD_RR_IMM16
  /\ <<230, "AND", "imm8", 0>> \in ALU_A
  /\ <<40, "Z", 12, 8>> \in JR
BY DEF LD_R_IMM8, LD_RR_IMM16, ALU_A, JR

LEMMA StepRuns ==
  ASSUME Begins
  PROVE  Runs(reg["PC"]) /\ AtRest
BY StepsFacts DEF Begins, Runs

(* The registers behind $FF00.                                             *)
LEMMA HighAddresses ==
  /\ Port(65281) = "putchar" /\ Port(65285) = "handle_tima_write"
  /\ Port(65286) = "handle_tma_write" /\ Port(65287) = "handle_tac_write"
  /\ Port(65295) = "none" /\ IsInterruptFlag(65295)
  /\ \A a \in {65281, 65285, 65286, 65287} : ~IsInterruptFlag(a)
  /\ ReadMemory(65285) = {255} /\ ReadMemory(65295) = {interrupt_flag}
<1>1. \A c \in 0 .. 15 : /\ page(65280 + c) = 15 /\ subpage(65280 + c) = 15
                         /\ row(65280 + c) = 0 /\ column(65280 + c) = c
  BY DEF page, subpage, row, column
<1>2. \A c, e \in 0 .. 15 : Register(65280 + c, e) <=> c = e
  BY <1>1 DEF Register, InRow
<1>3. \A c \in 0 .. 15 : ~InRow(65280 + c, 8) /\ ~InRow(65280 + c, 15)
  BY <1>1 DEF InRow
<1>4. \A c \in 0 .. 15 : ~IsCart(65280 + c) /\ ~IsRam(65280 + c)
                         /\ ~IsInterruptEnable(65280 + c)
  BY <1>1, <1>3 DEF IsCart, IsRam, IsWram0, IsWram1, IsHram, IsInterruptEnable
<1>5. /\ \A e \in 0 .. 15 : Register(65281, e) <=> e = 1
      /\ \A e \in 0 .. 15 : Register(65285, e) <=> e = 5
      /\ \A e \in 0 .. 15 : Register(65286, e) <=> e = 6
      /\ \A e \in 0 .. 15 : Register(65287, e) <=> e = 7
      /\ \A e \in 0 .. 15 : Register(65295, e) <=> e = 15
  <2>1. 65281 = 65280 + 1 /\ 65285 = 65280 + 5 /\ 65286 = 65280 + 6 /\ 65287 = 65280 + 7
        /\ 65295 = 65280 + 15
    OBVIOUS
  <2> QED
    BY <1>2, <2>1
<1>6. /\ ~IsCart(65285) /\ ~IsRam(65285) /\ ~IsInterruptEnable(65285)
      /\ ~IsCart(65295) /\ ~IsRam(65295)
  <2>1. 65285 = 65280 + 5 /\ 65295 = 65280 + 15
    OBVIOUS
  <2> QED
    BY <1>4, <2>1
<1>7. /\ Port(65281) = "putchar" /\ Port(65285) = "handle_tima_write"
      /\ Port(65286) = "handle_tma_write" /\ Port(65287) = "handle_tac_write"
      /\ Port(65295) = "none"
  BY <1>5 DEF Port
<1> QED
  BY <1>5, <1>6, <1>7 DEF IsInterruptFlag, ReadMemory

LEMMA Load ==
  ASSUME Begins, NEW p \in Code, NEW x, At2(p, 62, x),
         NEW t \in 0 .. 76, NEW d, PcIs(p, t, d)
  PROVE  PcAndA(p + 2, x, t + 8, d)' /\ Onward
<1>1. Leaves(p + 2, {"A"}) /\ reg'["A"] = x /\ OnlyReports(8)
  BY StepRuns, LdRImm8, Rows DEF PcIs
<1>2. t + 8 \in Reported /\ t \in Reported /\ (t + 8) - t = 8
  BY DEF Reported
<1>3. Before(t + 8, d)'
  BY <1>1, <1>2, BeforeQuietStep DEF Begins, PcIs
<1> QED
  BY <1>1, <1>3 DEF Leaves, PcAndA, PcIs, Onward

(* LDH (n),A.                                                              *)
LEMMA StoreHigh ==
  ASSUME Begins, NEW p \in Code, NEW x, At2(p, 224, x), reg["PC"] = p
  PROVE  Leaves(p + 2, {}) /\ Store(65280 + x, reg["A"]) /\ cycles' = 12
<1>1. StoreAAt(224) /\ Imm8 = {x} /\ Runs(p)
  BY StepRuns, Executes, Decoded, Immediates DEF At2, Runs
<1>2. Finish(Fetched(2), 12) /\ Store(65280 + x, reg["A"])
  BY <1>1 DEF StoreAAt, HighOrImm16
<1>3. cart_data' = cart_data /\ cycles' = 12
  BY <1>2 DEF Store, WriteMemory, Finish
<1> QED
  BY <1>1, <1>2, <1>3, LeavesFetched

LEMMA StoreToDevice ==
  ASSUME Begins, NEW p \in Code, NEW x \in {1, 5, 6, 7}, At2(p, 224, x),
         NEW a, NEW t \in InTime, NEW d, PcAndA(p, a, t, d),
         NEW y, y = 65280 + x
  PROVE  PcIs(p + 2, t + 12, AfterCall(d, Passed(y, a)))' /\ Onward
<1>1. Leaves(p + 2, {}) /\ Store(y, a) /\ cycles' = 12
  BY StoreHigh DEF PcAndA, PcIs
<1>2. t + 12 \in Reported /\ t \in Reported /\ (t + 12) - t = 12 /\ t < t + 12
  BY DEF Reported, InTime
<1>3. ~IsInterruptFlag(y)
  <2>1. y \in {65281, 65285, 65286, 65287}
    OBVIOUS
  <2> QED
    BY <2>1, HighAddresses
<1>4. Before(t + 12, AfterCall(d, Passed(y, a)))'
  BY <1>1, <1>2, <1>3, BeforeStore DEF Begins, PcAndA, PcIs
<1> QED
  BY <1>1, <1>4 DEF Leaves, PcIs, Onward

(* What the writes of the programs do.                                     *)
LEMMA Effects ==
  ASSUME NEW t, NEW m, NEW v, NEW n \in Nat, NEW a
  PROVE  /\ AfterCall(Seen(t, m, v, n), Passed(65281, a)) = Seen(t, m, v, n)
         /\ AfterCall(Seen(t, m, v, n), Passed(65285, a)) = Seen(t, m, a, n)
         /\ AfterCall(Seen(t, m, v, n), Passed(65286, a)) = Seen(t, a, v, n)
         /\ AfterCall(Seen(t, m, v, n), Passed(65287, a))
              = Seen(TacWritten(t, a), m, v, n + Added(t, a))
<1>1. /\ Seen(t, m, v, n).tac = t /\ Seen(t, m, v, n).tma = m
      /\ Seen(t, m, v, n).tima = v /\ Seen(t, m, v, n).events = n
  BY DEF Seen
<1>2. \A y : Passed(y, a).to = Port(y) /\ Passed(y, a).argument = a
  BY DEF Passed
<1> QED
  BY <1>1, <1>2, HighAddresses DEF AfterCall

LEMMA TacValues ==
  /\ TacWritten(Off, 5) = TacOf(5) /\ Added(Off, 5) = 2
  /\ TacWritten(Off, 4) = TacOf(4) /\ Added(Off, 4) = 2
  /\ TacWritten(TacOf(5), 0) = Off /\ Added(TacOf(5), 0) = 0
  /\ TacWritten(TacOf(5), 6) = TacOf(5) /\ Added(TacOf(5), 6) = 0
  /\ TacWritten(TacOf(5), 2) = TacOf(2) /\ Added(TacOf(5), 2) = 0
  /\ TacWritten(TacOf(2), 7) = TacOf(7) /\ Added(TacOf(2), 7) = 2
  /\ ~Off.enabled /\ TacOf(5).enabled
<1>1. /\ (0 \div 4) % 2 = 0 /\ 0 % 4 = 0 /\ (2 \div 4) % 2 = 0 /\ 2 % 4 = 2
      /\ (4 \div 4) % 2 = 1 /\ 4 % 4 = 0 /\ (5 \div 4) % 2 = 1 /\ 5 % 4 = 1
      /\ (6 \div 4) % 2 = 1 /\ 6 % 4 = 2 /\ (7 \div 4) % 2 = 1 /\ 7 % 4 = 3
  OBVIOUS
<1>a. ASSUME NEW d, NEW c, (d \div 4) % 2 = 1, d % 4 = c
      PROVE  TacOf(d) = [enabled |-> TRUE, clock |-> c]
  <2>1. ((d \div 4) % 2 = 1) = TRUE
    BY <1>a
  <2> QED
    BY <2>1, <1>a, Zenon DEF TacOf
<1>b. ASSUME NEW d, NEW c, ~((d \div 4) % 2 = 1), d % 4 = c
      PROVE  TacOf(d) = [enabled |-> FALSE, clock |-> c]
  <2>1. ((d \div 4) % 2 = 1) = FALSE
    BY <1>b
  <2> QED
    BY <2>1, <1>b, Zenon DEF TacOf
<1>2. TacOf(0) = Off
  BY <1>1, <1>b DEF Off
<1>4. /\ TacOf(2).enabled = FALSE /\ TacOf(4).enabled = TRUE /\ TacOf(5).enabled = TRUE
      /\ TacOf(6).enabled = TRUE /\ TacOf(7).enabled = TRUE /\ Off.enabled = FALSE
  <2>1. TacOf(2) = [enabled |-> FALSE, clock |-> 2] /\ TacOf(4) = [enabled |-> TRUE, clock |-> 0]
    BY <1>1, <1>a, <1>b
  <2>2. TacOf(5) = [enabled |-> TRUE, clock |-> 1] /\ TacOf(6) = [enabled |-> TRUE, clock |-> 2]
        /\ TacOf(7) = [enabled |-> TRUE, clock |-> 3]
    BY <1>1, <1>a
  <2> QED
    BY <2>1, <2>2 DEF Off
<1> QED
  BY <1>2, <1>4 DEF TacWritten, Added

(* AND 4 sets Z if and only if bit 2 of A is clear.                        *)
LEMMA AndFour ==
  ASSUME NEW a \in Byte
  PROVE  IsSet(And(a, 4).flags, FLAG_Z) <=> ~TimerBit(a)
<1>1. /\ Bit(4, 1) = 0 /\ Bit(4, 2) = 0 /\ Bit(4, 4) = 1 /\ Bit(4, 8) = 0
      /\ Bit(4, 16) = 0 /\ Bit(4, 32) = 0 /\ Bit(4, 64) = 0 /\ Bit(4, 128) = 0
  BY DEF Bit
<1>2. \A w \in {1, 2, 4, 8, 16, 32, 64, 128} : Bit(a, w) \in {0, 1}
  BY BitIsBit DEF AluByte, Byte
<1>3. \A x, y \in {0, 1} : BitAnd(x, y) = IF y = 0 THEN 0 ELSE x
  BY DEF BitAnd
<1>4. Bytewise(a, 4, BitAnd) = 4 * Bit(a, 4)
  <2>1. /\ BitAnd(Bit(a, 1), Bit(4, 1)) = 0 /\ BitAnd(Bit(a, 2), Bit(4, 2)) = 0
        /\ BitAnd(Bit(a, 4), Bit(4, 4)) = Bit(a, 4)
        /\ BitAnd(Bit(a, 8), Bit(4, 8)) = 0 /\ BitAnd(Bit(a, 16), Bit(4, 16)) = 0
        /\ BitAnd(Bit(a, 32), Bit(4, 32)) = 0 /\ BitAnd(Bit(a, 64), Bit(4, 64)) = 0
        /\ BitAnd(Bit(a, 128), Bit(4, 128)) = 0
    BY <1>1, <1>2, <1>3
  <2> HIDE DEF Bit, BitAnd
  <2> QED
    BY <2>1, <1>2 DEF Bytewise
<1>5. IsSet(160, FLAG_Z) /\ ~IsSet(32, FLAG_Z)
  BY DEF IsSet, FLAG_Z
<1>6. And(a, 4).flags = IF 4 * Bit(a, 4) = 0 THEN 160 ELSE 32
  BY <1>4 DEF And, Logic, Result, FLAG_Z
<1>7. Bit(a, 4) = 0 \/ Bit(a, 4) = 1
  BY <1>2
<1>8. TimerBit(a) <=> Bit(a, 4) = 1
  BY DEF TimerBit, Bit
<1> QED
  BY <1>5, <1>6, <1>7, <1>8

(* The three instructions of a wait.                                       *)
LEMMA LoadFlag ==
  ASSUME Begins, NEW p \in Code, At2(p, 240, 15), reg["PC"] = p
  PROVE  Leaves(p + 2, {"A"}) /\ reg'["A"] = interrupt_flag /\ OnlyReports(0)
<1>1. LoadAFrom(240) /\ Imm8 = {15} /\ Runs(p)
  BY StepRuns, Executes, Decoded, Immediates DEF At2, Runs
<1>2. HighOrImm16(TRUE) = {65295} /\ ReadMemory(65295) = {interrupt_flag}
  <2>1. {65280 + x : x \in {15}} = {65295}
    OBVIOUS
  <2> QED
    BY <1>1, <2>1, HighAddresses DEF HighOrImm16
<1>3. (240 = 240) = TRUE
  OBVIOUS
<1>4. Finish(With(2, "A", interrupt_flag), 0) /\ NoWrite
  <2>1. \E a \in HighOrImm16(TRUE) : \E x \in ReadMemory(a) :
          Finish([Fetched(IF TRUE THEN 2 ELSE 3) EXCEPT !["A"] = x], 0)
    BY <1>1, <1>3, Zenon DEF LoadAFrom
  <2>2. PICK a \in HighOrImm16(TRUE) : \E x \in ReadMemory(a) :
          Finish([Fetched(2) EXCEPT !["A"] = x], 0)
    BY <2>1
  <2>3. a = 65295
    BY <1>2, <2>2 DEF HighOrImm16
  <2>4. \E x \in {interrupt_flag} : Finish([Fetched(2) EXCEPT !["A"] = x], 0)
    BY <1>2, <2>2, <2>3
  <2>5. NoWrite
    BY <1>1 DEF LoadAFrom
  <2> QED
    BY <2>4, <2>5 DEF With
<1>5. OnlyReports(0)
  BY <1>4 DEF Finish, OnlyReports
<1>6. "A" \in R8 \cup {"SP"}
  BY DEF R8
<1> QED
  BY <1>1, <1>4, <1>5, <1>6, LeavesOne, QuietNoWrite

LEMMA TestFlag ==
  ASSUME Begins, NEW p \in Code, At2(p, 230, 4), reg["PC"] = p
  PROVE  /\ Leaves(p + 2, {"A", "F"}) /\ OnlyReports(0)
         /\ Zero' <=> ~TimerBit(reg["A"])
<1>1. /\ Leaves(p + 2, {"A", "F"}) /\ OnlyReports(0)
      /\ reg'["F"] = Operation("AND", reg["A"], 4, reg["F"]).flags
  BY StepRuns, AluImm8, Rows
<1>2. Operation("AND", reg["A"], 4, reg["F"]) = And(reg["A"], 4)
  BY DEF Operation
<1>3. reg["A"] \in Byte
  BY StepRuns, FromReady DEF Runs, RegOK, R8
<1>4. Zero' <=> IsSet(reg'["F"], FLAG_Z)
  BY DEF Zero
<1> QED
  BY <1>1, <1>2, <1>3, <1>4, AndFour

LEMMA JumpBack ==
  ASSUME Begins, NEW p \in Code, At2(p, 40, 250), reg["PC"] = p
  PROVE  /\ OnlyReports(12) \/ OnlyReports(8)
         /\ Zero => Leaves(p - 4, {})
         /\ ~Zero => Leaves(p + 2, {})
<1>1. Taken("Z") <=> Zero
  BY DEF Taken, Zero
<1>2. /\ OnlyReports(IF Taken("Z") THEN 12 ELSE 8)
      /\ Taken("Z") => Leaves(IF 250 < 128 THEN p + 2 + 250 ELSE p + 250 - 254, {})
      /\ ~Taken("Z") => Leaves(p + 2, {})
  BY StepRuns, JrIf, Rows DEF Byte
<1>3. p + 250 - 254 = p - 4
  BY DEF Code
<1> QED
  BY <1>1, <1>2, <1>3

(* A step of the wait, at p, that writes nothing.                          *)
OnlyWaits ==
  /\ WritesAreOver' /\ Onward
  /\ interrupt_flag' = interrupt_flag
  /\ UNCHANGED <<pc, ret, heap_size, new_tac, tac, tma, tima>>

LEMMA QuietStepWaits ==
  ASSUME Begins, NEW t, OnlyReports(t), critical' = FALSE
  PROVE  OnlyWaits
<1>1. writes' = <<>> /\ cycles' = t /\ interrupt_flag' = interrupt_flag
      /\ cart_data' = cart_data
  BY DEF OnlyReports, NoWrite, busVars
<1>2. /\ Len(calls') = Len(writes') + (IF cycles' = 0 THEN 0 ELSE 1)
      /\ cycles' # 0 => calls'[Len(writes') + 1] = Report(cycles')
  BY StepsFacts, CallsAre DEF Begins
<1>3. Len(writes') = 0
  BY <1>1, EmptySeq
<1>4. WritesAreOver'
  <2>1. Len(calls') = 0 \/ (Len(calls') = 1 /\ calls'[1].to = "add_cycles")
    BY <1>2, <1>3 DEF Report
  <2> QED
    BY <2>1 DEF WritesAreOver
<1> QED
  BY <1>1, <1>4, StepsFacts DEF Begins, OnlyWaits, Onward

LEMMA WaitStep ==
  ASSUME Begins, NEW p \in Code, p + 2 \in Code, p + 4 \in Code,
         At2(p, 240, 15), At2(p + 2, 230, 4), At2(p + 4, 40, 250),
         Waiting(p), reg["PC"] # p + 6
  PROVE  Waiting(p)' /\ OnlyWaits
<1>1. p + 2 + 2 = p + 4 /\ p + 4 + 2 = p + 6 /\ p + 4 - 4 = p
  BY DEF Code
<1>2. TimerBit(interrupt_flag)' <=> TimerBit(interrupt_flag')
  BY DEF TimerBit
<1>a. "A" \in R8 /\ "F" \in R8
  BY DEF R8
<1>3. CASE reg["PC"] = p
  <2>1. Leaves(p + 2, {"A"}) /\ reg'["A"] = interrupt_flag /\ OnlyReports(0)
    BY <1>3, LoadFlag
  <2>2. OnlyWaits
    BY <2>1, QuietStepWaits DEF Leaves
  <2>3. TimerBit(reg["A"])' => TimerBit(interrupt_flag')
    BY <2>1, <2>2 DEF TimerBit, OnlyWaits
  <2> QED
    BY <1>2, <2>1, <2>2, <2>3 DEF Waiting, Leaves
<1>4. CASE reg["PC"] = p + 2 /\ (TimerBit(reg["A"]) => TimerBit(interrupt_flag))
  <2>1. /\ Leaves(p + 4, {"A", "F"}) /\ OnlyReports(0)
        /\ Zero' <=> ~TimerBit(reg["A"])
    BY <1>1, <1>4, TestFlag
  <2>2. OnlyWaits
    BY <2>1, QuietStepWaits DEF Leaves
  <2>3. ~Zero' => TimerBit(interrupt_flag)'
    BY <1>2, <1>4, <2>1, <2>2 DEF OnlyWaits
  <2> QED
    BY <2>1, <2>2, <2>3 DEF Waiting, Leaves
<1>5. CASE reg["PC"] = p + 4 /\ (~Zero => TimerBit(interrupt_flag))
  <2>a. PICK q \in Code : q = p + 4
    OBVIOUS
  <2>b. /\ OnlyReports(12) \/ OnlyReports(8)
        /\ Zero => Leaves(q - 4, {})
        /\ ~Zero => Leaves(q + 2, {})
    BY <1>5, <2>a, JumpBack
  <2>1. /\ OnlyReports(12) \/ OnlyReports(8)
        /\ Zero => Leaves(p, {})
        /\ ~Zero => Leaves(p + 6, {})
    BY <1>1, <2>a, <2>b
  <2>2. OnlyWaits
    BY <2>1, QuietStepWaits DEF Leaves
  <2>3. ~Zero => TimerBit(interrupt_flag)'
    BY <1>2, <1>5, <2>2 DEF OnlyWaits
  <2> QED
    BY <2>1, <2>2, <2>3 DEF Waiting, Leaves
<1> QED
  BY <1>3, <1>4, <1>5 DEF Waiting

(* The other instructions.                                                 *)
LEMMA QuietStep ==
  ASSUME Begins, NEW p, NEW t \in Reported, NEW u \in Reported, NEW d, PcIs(p, t, d),
         NEW q, NEW changed, Leaves(q, changed), NEW s, s = u - t, OnlyReports(s)
  PROVE  PcIs(q, u, d)' /\ Onward
<1>1. Before(u, d)'
  BY BeforeQuietStep DEF Begins, PcIs
<1> QED
  BY <1>1 DEF Leaves, PcIs, Onward

LEMMA SilentStep ==
  ASSUME Begins, NEW p, NEW t \in Reported, NEW d, PcIs(p, t, d),
         NEW q, NEW changed, Leaves(q, changed), OnlyReports(0)
  PROVE  PcIs(q, t, d)' /\ Onward
<1>1. 0 = t - t
  BY DEF Reported
<1> QED
  BY <1>1, QuietStep

LEMMA LoadSP ==
  ASSUME Begins, NEW p \in Code, NEW lo, NEW hi, At3(p, 49, lo, hi),
         NEW t \in InTime, NEW d, PcIs(p, t, d)
  PROVE  PcIs(p + 3, t + 12, d)' /\ reg'["SP"] = WordOf(hi, lo) /\ Onward
<1>1. Leaves(p + 3, {"SP"}) /\ reg'["SP"] = WordOf(hi, lo) /\ OnlyReports(12)
  BY StepRuns, LdSpImm16 DEF PcIs
<1>2. t + 12 \in Reported /\ t \in Reported /\ (t + 12) - t = 12
  BY DEF Reported, InTime
<1> QED
  BY <1>1, <1>2, QuietStep

LEMMA LoadPair ==
  ASSUME Begins, NEW p \in Code, NEW op, NEW r, NEW s, <<op, r, s>> \in LD_RR_IMM16,
         NEW lo \in Byte, NEW hi \in Byte, At3(p, op, lo, hi),
         NEW t \in InTime, NEW d, PcIs(p, t, d)
  PROVE  /\ PcIs(p + 3, t + 12, d)' /\ Onward
         /\ reg'[r] = hi /\ reg'[s] = lo /\ reg'["SP"] = reg["SP"]
<1>1. Leaves(p + 3, {r, s}) /\ reg'[r] = hi /\ reg'[s] = lo /\ OnlyReports(12)
  BY StepRuns, LdRRImm16 DEF PcIs
<1>2. t + 12 \in Reported /\ t \in Reported /\ (t + 12) - t = 12
  BY DEF Reported, InTime
<1>3. r # "SP" /\ s # "SP"
  BY DEF LD_RR_IMM16
<1> QED
  BY <1>1, <1>2, <1>3, QuietStep DEF Leaves

LEMMA JumpAway ==
  ASSUME Begins, NEW p \in Code, NEW lo, NEW hi, At3(p, 195, lo, hi), reg["PC"] = p
  PROVE  reg'["PC"] = WordOf(hi, lo) /\ Onward
BY StepRuns, Jp DEF Leaves, Onward

LEMMA JumpBackSilently ==
  ASSUME Begins, NEW p \in Code, NEW lo, NEW hi, At3(p, 202, lo, hi), Zero,
         NEW t \in Reported, NEW d, PcIs(p, t, d)
  PROVE  PcIs(WordOf(hi, lo), t, d)' /\ Onward
<1>1. JumpTo(202) /\ Imm16 = {WordOf(hi, lo)} /\ Runs(p)
  BY StepRuns, Executes, Decoded, Immediates DEF At3, Runs, PcIs
<1>2. \A r \in JP : 202 = r[1] => r[2] = "Z" /\ r[3] = 0
  BY DEF JP
<1>3. Taken("Z")
  BY DEF Taken, Zero
<1>4. Finish(Jumped(3, WordOf(hi, lo)), 0) /\ NoWrite
  BY <1>1, <1>2, <1>3 DEF JumpTo, Jumped
<1>5. OnlyReports(0)
  BY <1>4 DEF Finish, OnlyReports
<1>6. t - t = 0
  BY DEF Reported
<1>7. Leaves(WordOf(hi, lo), {})
  BY <1>1, <1>4, LeavesJump, QuietNoWrite
<1> QED
  BY <1>5, <1>6, <1>7, QuietStep

(* A write of d to TAC with n events pending.                              *)
Turns(before, n, d, after, pending) ==
  after = TacWritten(before, d) /\ pending = n + Added(before, d)

(* PUSH BC with SP above TAC; DEC (HL) with HL at TIMA.                    *)
LEMMA PushToTimer ==
  ASSUME Begins, NEW p \in Code, At(p, 197), reg["SP"] = 65288,
         NEW b, NEW c, reg["B"] = b, reg["C"] = c,
         NEW t \in 0 .. 68, NEW k, NEW m, NEW v, NEW n \in Nat,
         PcIs(p, t, Seen(k, m, v, n)), NEW w, NEW u, Turns(k, n, b, w, u)
  PROVE  PcIs(p + 1, t + 16, Seen(w, c, v, u))' /\ Onward
<1>1. PushPair(197) /\ Runs(p)
  BY StepRuns, Executes, Decoded DEF PushOps, PcIs
<1>2. \A r \in PUSH : 197 = r[1] => r[2] = "B" /\ r[3] = "C" /\ r[4] = 16
  BY DEF PUSH
<1>3. Finish(Pushed(Fetched(1)), 16) /\ StackPush(b, c)
  BY <1>1, <1>2 DEF PushPair
<1>4. Down(65288) = 65287 /\ Down(65287) = 65286
  BY DEF Down
<1>y. PICK y, z : y = 65287 /\ z = 65286
  OBVIOUS
<1>5. /\ writes' = <<Call(y, b), Call(z, c)>>
      /\ interrupt_flag' = FlagAfter(FlagAfter(interrupt_flag, y, b), z, c)
      /\ cart_data' = cart_data
  BY <1>3, <1>4, <1>y DEF StackPush
<1>6. interrupt_flag' = interrupt_flag
  BY <1>5, <1>y, HighAddresses DEF FlagAfter
<1>7. t + 16 \in Reported /\ t \in Reported /\ (t + 16) - t = 16 /\ t < t + 16
  BY DEF Reported
<1>8. cycles' = 16 /\ critical' = FALSE /\ reg'["PC"] = p + 1
  BY <1>1, <1>3, NextAddress DEF Finish, Pushed, R16
<1>9. PICK e : e = AfterCall(AfterCall(Seen(k, m, v, n), Passed(y, b)), Passed(z, c))
  OBVIOUS
<1>a. Before(t + 16, e)'
  BY <1>5, <1>6, <1>7, <1>8, <1>9, BeforePush DEF Begins, PcIs
<1>b. n + Added(k, b) \in Nat
  BY DEF Added
<1>c. e = Seen(w, c, v, u)
  BY <1>y, <1>9, <1>b, Effects DEF Turns
<1> QED
  BY <1>5, <1>8, <1>a, <1>c DEF PcIs, Onward

LEMMA DecrementTima ==
  ASSUME Begins, NEW p \in Code, At(p, 53), reg["H"] = 255, reg["L"] = 5,
         NEW t \in InTime, NEW c, NEW m, NEW v, NEW n \in Nat,
         PcIs(p, t, Seen(c, m, v, n))
  PROVE  PcIs(p + 1, t + 12, Seen(c, m, 254, n))' /\ Onward
<1>1. DecMemHL(53) /\ Runs(p)
  BY StepRuns, Executes, Decoded DEF PcIs
<1>y. PICK y : y = 65285
  OBVIOUS
<1>2. HL = y
  BY <1>y DEF HL, Pair, WordOf
<1>3. ReadMemory(HL) = {255}
  BY <1>2, <1>y, HighAddresses
<1>4. \A f : Dec(255, f).value = 254
  BY DEF Dec, Result
<1>5. Finish(With(1, "F", Dec(255, reg["F"]).flags), 12) /\ Store(y, 254)
  BY <1>1, <1>2, <1>3, <1>4 DEF DecMemHL, With
<1>6. cart_data' = cart_data /\ cycles' = 12 /\ "F" \in R8 \cup {"SP"}
  BY <1>5 DEF Store, WriteMemory, Finish, R8
<1>7. Leaves(p + 1, {"F"})
  BY <1>1, <1>5, <1>6, LeavesOne
<1>8. t + 12 \in Reported /\ t \in Reported /\ (t + 12) - t = 12 /\ t < t + 12
  BY DEF Reported, InTime
<1>9. PICK e : e = AfterCall(Seen(c, m, v, n), Passed(y, 254))
  OBVIOUS
<1>a. Before(t + 12, e)'
  BY <1>y, <1>5, <1>6, <1>8, <1>9, HighAddresses, BeforeStore DEF Begins, PcIs
<1>b. e = Seen(c, m, 254, n)
  BY <1>y, <1>9, Effects
<1> QED
  BY <1>7, <1>a, <1>b DEF Leaves, PcIs, Onward

(* LDH (IF),A clears the bit of the timer, and no call changes it.         *)
LEMMA StoreFlag ==
  ASSUME Begins, NEW p \in Code, At2(p, 224, 15), reg["PC"] = p, reg["A"] = 1
  PROVE  /\ reg'["PC"] = p + 2 /\ Onward
         /\ WritesAreOver' /\ interrupt_flag' = 1
         /\ UNCHANGED <<pc, ret, heap_size, new_tac, tac, tma, tima>>
<1>1. Leaves(p + 2, {}) /\ Store(65280 + 15, 1) /\ cycles' = 12
  BY StoreHigh
<1>2. 65280 + 15 = 65295
  OBVIOUS
<1>3. interrupt_flag' = 1 /\ writes' = <<Call(65295, 1)>>
  BY <1>1, <1>2, HighAddresses DEF Store, WriteMemory, FlagAfter
<1>4. Len(writes') = 1 /\ Passed(writes'[1].address, writes'[1].data).to = "none"
  BY <1>3, HighAddresses DEF Passed, Call
<1>5. /\ Len(calls') = Len(writes') + 1
      /\ \A i \in 1 .. Len(writes') : calls'[i] = Passed(writes'[i].address, writes'[i].data)
      /\ calls'[Len(writes') + 1] = Report(12)
  BY <1>1, StepsFacts, CallsAre DEF Begins
<1>6. Len(calls') = 2 /\ calls'[1].to = "none" /\ calls'[2].to = "add_cycles"
  BY <1>4, <1>5 DEF Report
<1>7. WritesAreOver'
  BY <1>6 DEF WritesAreOver
<1> QED
  BY <1>1, <1>3, <1>7, StepsFacts DEF Begins, Leaves, Onward

LEMMA Stops ==
  ASSUME Begins, NEW p \in Code, At(p, 118), reg["PC"] = p
  PROVE  /\ critical' /\ cart_data' = cart_data /\ AtRest'
         /\ interrupt_flag' = interrupt_flag
         /\ UNCHANGED <<heap_size, new_tac, tac, tma, tima>>
<1>1. critical' /\ cart_data' = cart_data /\ OnlyReports(0)
  BY StepRuns, Ends
<1>2. writes' = <<>> /\ cycles' = 0 /\ interrupt_flag' = interrupt_flag
  BY <1>1 DEF OnlyReports, NoWrite, busVars
<1>3. calls' = <<>>
  <2>1. /\ Len(calls') = Len(writes') + (IF cycles' = 0 THEN 0 ELSE 1)
    BY StepsFacts, CallsAre DEF Begins
  <2>2. Len(calls') = 0
    BY <1>2, <2>1, EmptySeq
  <2>3. calls' = CallsOf(<<>>, 0)
    BY <1>2, StepsFacts DEF Begins
  <2> QED
    BY <1>2, <2>2, <2>3 DEF CallsOf
<1> QED
  BY <1>1, <1>2, <1>3, StepsFacts DEF Begins, AtRest

-----------------------------------------------------------------------------
(* The bytes of a cartridge.                                               *)
Carries(n, name, code) ==
  /\ \A i \in 1 .. n : At(255 + i, code[i])
  /\ At(256 + n, 118)
  /\ cart_data[0] = name /\ cart_data # <<>>

LEMMA RomCarries ==
  ASSUME NEW name, NEW code, NEW n \in 1 .. 99, Len(code) = n, cart_data = Rom(name, code)
  PROVE  Carries(n, name, code)
<1>1. \A a \in 0 .. 511 : ReadMemory(a) = CartBytes(a)
  <2>1. \A a \in 0 .. 511 : page(a) = 0
    BY DEF page
  <2> QED
    BY <2>1 DEF ReadMemory, IsCart
<1>2. n \in 1 .. 99
  OBVIOUS
<1>3. cart_data = [a \in {0} \cup (256 .. 256 + n) |->
                     IF a = 0 THEN name ELSE IF a = 256 + n THEN 118 ELSE code[a - 255]]
  <2>1. \A a \in 256 .. 256 + n : a - 256 + 1 = a - 255
    BY <1>2
  <2> QED
    BY <2>1, <1>2 DEF Rom, Start
<1>4. ASSUME NEW i \in 1 .. n
      PROVE  At(255 + i, code[i])
  <2>1. /\ 255 + i \in 256 .. 256 + n /\ 255 + i \in 0 .. 511
        /\ 255 + i # 256 + n /\ (255 + i) - 255 = i /\ 255 + i # 0
    BY <1>2
  <2>2. 255 + i \in DOMAIN cart_data /\ cart_data[255 + i] = code[i]
    BY <1>3, <2>1
  <2> QED
    BY <1>1, <2>1, <2>2 DEF At, CartBytes
<1>5. At(256 + n, 118)
  <2>1. 256 + n \in 256 .. 256 + n /\ 256 + n \in 0 .. 511 /\ 256 + n # 0
    BY <1>2
  <2>2. 256 + n \in DOMAIN cart_data /\ cart_data[256 + n] = 118
    BY <1>3, <2>1
  <2> QED
    BY <1>1, <2>1, <2>2 DEF At, CartBytes
<1>6. cart_data[0] = name /\ 0 \in DOMAIN cart_data
  BY <1>2, <1>3
<1>7. cart_data # <<>>
  <2>1. DOMAIN <<>> = {}
    OBVIOUS
  <2> QED
    BY <1>6, <2>1
<1> QED
  BY <1>4, <1>5, <1>6, <1>7 DEF Carries

(* The wait that begins at p.                                              *)
WaitAt(p) == At2(p, 240, 15) /\ At2(p + 2, 230, 4) /\ At2(p + 4, 40, 250)
Called(name) == cart_data[0] = name /\ cart_data # <<>>

LEMMA PollCode ==
  ASSUME cart_data = Poll
  PROVE  /\ At2(256, 62, 7) /\ At2(258, 224, 6) /\ At2(260, 62, 5) /\ At2(262, 224, 7)
         /\ WaitAt(264) /\ At(270, 118) /\ Called(1)
<1> DEFINE code == Ldh(TMA, 7) \o Ldh(TAC, 5) \o PollRelative
<1>1. cart_data = Rom(1, code)
  BY DEF Poll
<1>2. Len(code) = 14 /\ 14 \in 1 .. 99
  BY DEF Ldh, PollRelative
<1>3. /\ code[1] = 62 /\ code[2] = 7 /\ code[3] = 224 /\ code[4] = 6
      /\ code[5] = 62 /\ code[6] = 5 /\ code[7] = 224 /\ code[8] = 7
      /\ code[9] = 240 /\ code[10] = 15 /\ code[11] = 230 /\ code[12] = 4
      /\ code[13] = 40 /\ code[14] = 250
  BY DEF Ldh, PollRelative, TMA, TAC, IF_
<1> HIDE DEF code
<1>4. Carries(14, 1, code)
  BY <1>1, <1>2, RomCarries
<1>b. /\ At(256, 62) /\ At(257, 7) /\ At(258, 224) /\ At(259, 6) /\ At(260, 62) /\ At(261, 5)
      /\ At(262, 224) /\ At(263, 7) /\ At(264, 240) /\ At(265, 15) /\ At(266, 230) /\ At(267, 4)
      /\ At(268, 40) /\ At(269, 250)
  <2>1. \A i \in 1 .. 14 : At(255 + i, code[i])
    BY <1>4 DEF Carries
  <2> QED
    BY <2>1, <1>3
<1>c. At(270, 118) /\ Called(1)
  BY <1>4 DEF Carries, Called
<1> QED
  BY <1>b, <1>c DEF At2, WaitAt

LEMMA PollSilentlyCode ==
  ASSUME cart_data = PollSilently
  PROVE  /\ At2(256, 62, 5) /\ At2(258, 224, 7) /\ At2(260, 240, 15) /\ At2(262, 230, 4)
         /\ At3(264, 202, 4, 1) /\ Called(2)
<1> DEFINE code == Ldh(TAC, 5) \o PollAbsolute(4)
<1>1. cart_data = Rom(2, code)
  BY DEF PollSilently
<1>2. Len(code) = 11 /\ 11 \in 1 .. 99
  BY DEF Ldh, PollAbsolute
<1>a. Lo(Start + 4) = 4 /\ Hi(Start + 4) = 1
  BY DEF Lo, Hi, Start
<1>3. /\ code[1] = 62 /\ code[2] = 5 /\ code[3] = 224 /\ code[4] = 7
      /\ code[5] = 240 /\ code[6] = 15 /\ code[7] = 230 /\ code[8] = 4
      /\ code[9] = 202 /\ code[10] = 4 /\ code[11] = 1
  BY <1>a DEF Ldh, PollAbsolute, TAC, IF_
<1> HIDE DEF code
<1>4. Carries(11, 2, code)
  BY <1>1, <1>2, RomCarries
<1>b. /\ At(256, 62) /\ At(257, 5) /\ At(258, 224) /\ At(259, 7) /\ At(260, 240) /\ At(261, 15)
      /\ At(262, 230) /\ At(263, 4) /\ At(264, 202) /\ At(265, 4) /\ At(266, 1)
  <2>1. \A i \in 1 .. 11 : At(255 + i, code[i])
    BY <1>4 DEF Carries
  <2> QED
    BY <2>1, <1>3
<1>c. At(267, 118) /\ Called(2)
  BY <1>4 DEF Carries, Called
<1> QED
  BY <1>b, <1>c DEF At2, At3

LEMMA PollTwiceCode ==
  ASSUME cart_data = PollTwice
  PROVE  /\ At2(256, 62, 7) /\ At2(258, 224, 6) /\ At2(260, 62, 5) /\ At2(262, 224, 7)
         /\ At2(264, 62, 0) /\ At2(266, 224, 7) /\ WaitAt(268)
         /\ At2(274, 62, 1) /\ At2(276, 224, 15) /\ WaitAt(278) /\ At(284, 118) /\ Called(3)
<1> DEFINE code == Ldh(TMA, 7) \o Ldh(TAC, 5) \o Ldh(TAC, 0) \o PollRelative
                     \o Ldh(IF_, 1) \o PollRelative
<1>1. cart_data = Rom(3, code)
  BY DEF PollTwice
<1>2. Len(code) = 28 /\ 28 \in 1 .. 99
  BY DEF Ldh, PollRelative
<1>3. /\ code[1] = 62 /\ code[2] = 7 /\ code[3] = 224 /\ code[4] = 6
      /\ code[5] = 62 /\ code[6] = 5 /\ code[7] = 224 /\ code[8] = 7
      /\ code[9] = 62 /\ code[10] = 0 /\ code[11] = 224 /\ code[12] = 7
      /\ code[13] = 240 /\ code[14] = 15 /\ code[15] = 230 /\ code[16] = 4
      /\ code[17] = 40 /\ code[18] = 250
  BY DEF Ldh, PollRelative, TMA, TAC, IF_
<1>4. /\ code[19] = 62 /\ code[20] = 1 /\ code[21] = 224 /\ code[22] = 15
      /\ code[23] = 240 /\ code[24] = 15 /\ code[25] = 230 /\ code[26] = 4
      /\ code[27] = 40 /\ code[28] = 250
  BY DEF Ldh, PollRelative, TMA, TAC, IF_
<1> HIDE DEF code
<1>5. Carries(28, 3, code)
  BY <1>1, <1>2, RomCarries
<1>b. /\ At(256, 62) /\ At(257, 7) /\ At(258, 224) /\ At(259, 6) /\ At(260, 62) /\ At(261, 5)
      /\ At(262, 224) /\ At(263, 7) /\ At(264, 62) /\ At(265, 0) /\ At(266, 224) /\ At(267, 7)
      /\ At(268, 240) /\ At(269, 15) /\ At(270, 230) /\ At(271, 4) /\ At(272, 40) /\ At(273, 250)
      /\ At(274, 62) /\ At(275, 1) /\ At(276, 224) /\ At(277, 15) /\ At(278, 240) /\ At(279, 15)
      /\ At(280, 230) /\ At(281, 4) /\ At(282, 40) /\ At(283, 250)
  <2>1. \A i \in 1 .. 28 : At(255 + i, code[i])
    BY <1>5 DEF Carries
  <2> QED
    BY <2>1, <1>3, <1>4
<1>c. At(284, 118) /\ Called(3)
  BY <1>5 DEF Carries, Called
<1> QED
  BY <1>b, <1>c DEF At2, WaitAt

LEMMA PushAndDecrementCode ==
  ASSUME cart_data = PushAndDecrement
  PROVE  /\ At3(256, 49, 8, 255) /\ At3(259, 1, 9, 5) /\ At(262, 197)
         /\ At3(263, 33, 5, 255) /\ At(266, 53) /\ At2(267, 62, 65) /\ At2(269, 224, 1)
         /\ At(271, 118) /\ Called(4)
<1> DEFINE code == <<49, 8, 255, 1, 9, 5, 197, 33, 5, 255, 53>> \o Ldh(1, 65)
<1>1. cart_data = Rom(4, code)
  BY DEF PushAndDecrement
<1>2. Len(code) = 15 /\ 15 \in 1 .. 99
  BY DEF Ldh
<1>3. /\ code[1] = 49 /\ code[2] = 8 /\ code[3] = 255 /\ code[4] = 1
      /\ code[5] = 9 /\ code[6] = 5 /\ code[7] = 197 /\ code[8] = 33
      /\ code[9] = 5 /\ code[10] = 255 /\ code[11] = 53
      /\ code[12] = 62 /\ code[13] = 65 /\ code[14] = 224 /\ code[15] = 1
  BY DEF Ldh
<1> HIDE DEF code
<1>4. Carries(15, 4, code)
  BY <1>1, <1>2, RomCarries
<1>b. /\ At(256, 49) /\ At(257, 8) /\ At(258, 255) /\ At(259, 1) /\ At(260, 9) /\ At(261, 5)
      /\ At(262, 197) /\ At(263, 33) /\ At(264, 5) /\ At(265, 255) /\ At(266, 53) /\ At(267, 62)
      /\ At(268, 65) /\ At(269, 224) /\ At(270, 1)
  <2>1. \A i \in 1 .. 15 : At(255 + i, code[i])
    BY <1>4 DEF Carries
  <2> QED
    BY <2>1, <1>3
<1>c. At(271, 118) /\ Called(4)
  BY <1>4 DEF Carries, Called
<1> QED
  BY <1>b, <1>c DEF At2, At3

TogglingCode ==
  /\ At2(256, 62, 5) /\ At2(258, 224, 7) /\ At2(260, 62, 6) /\ At2(262, 224, 7)
  /\ At2(264, 62, 2) /\ At2(266, 224, 7) /\ At2(268, 62, 7) /\ At2(270, 224, 7)

LEMMA ToggleCode ==
  ASSUME cart_data = Toggle
  PROVE  TogglingCode /\ At(272, 118) /\ Called(5)
<1> DEFINE code == TogglingTac
<1>1. cart_data = Rom(5, code)
  BY DEF Toggle
<1>2. Len(code) = 16 /\ 16 \in 1 .. 99
  BY DEF Ldh, TogglingTac
<1>3. /\ code[1] = 62 /\ code[2] = 5 /\ code[3] = 224 /\ code[4] = 7
      /\ code[5] = 62 /\ code[6] = 6 /\ code[7] = 224 /\ code[8] = 7
      /\ code[9] = 62 /\ code[10] = 2 /\ code[11] = 224 /\ code[12] = 7
      /\ code[13] = 62 /\ code[14] = 7 /\ code[15] = 224 /\ code[16] = 7
  BY DEF Ldh, TogglingTac, TAC
<1> HIDE DEF code
<1>4. Carries(16, 5, code)
  BY <1>1, <1>2, RomCarries
<1>b. /\ At(256, 62) /\ At(257, 5) /\ At(258, 224) /\ At(259, 7) /\ At(260, 62) /\ At(261, 6)
      /\ At(262, 224) /\ At(263, 7) /\ At(264, 62) /\ At(265, 2) /\ At(266, 224) /\ At(267, 7)
      /\ At(268, 62) /\ At(269, 7) /\ At(270, 224) /\ At(271, 7)
  <2>1. \A i \in 1 .. 16 : At(255 + i, code[i])
    BY <1>4 DEF Carries
  <2> QED
    BY <2>1, <1>3
<1>c. At(272, 118) /\ Called(5)
  BY <1>4 DEF Carries, Called
<1> QED
  BY <1>b, <1>c DEF TogglingCode, At2

LEMMA ToggleAndPollCode ==
  ASSUME cart_data = ToggleAndPoll
  PROVE  TogglingCode /\ WaitAt(272) /\ At(278, 118) /\ Called(7)
<1> DEFINE code == TogglingTac \o PollRelative
<1>1. cart_data = Rom(7, code)
  BY DEF ToggleAndPoll
<1>2. Len(code) = 22 /\ 22 \in 1 .. 99
  BY DEF Ldh, TogglingTac, PollRelative
<1>3. /\ code[1] = 62 /\ code[2] = 5 /\ code[3] = 224 /\ code[4] = 7
      /\ code[5] = 62 /\ code[6] = 6 /\ code[7] = 224 /\ code[8] = 7
      /\ code[9] = 62 /\ code[10] = 2 /\ code[11] = 224 /\ code[12] = 7
      /\ code[13] = 62 /\ code[14] = 7 /\ code[15] = 224 /\ code[16] = 7
  BY DEF Ldh, TogglingTac, PollRelative, TAC
<1>4. /\ code[17] = 240 /\ code[18] = 15 /\ code[19] = 230 /\ code[20] = 4
      /\ code[21] = 40 /\ code[22] = 250
  BY DEF Ldh, TogglingTac, PollRelative, IF_
<1> HIDE DEF code
<1>5. Carries(22, 7, code)
  BY <1>1, <1>2, RomCarries
<1>b. /\ At(256, 62) /\ At(257, 5) /\ At(258, 224) /\ At(259, 7) /\ At(260, 62) /\ At(261, 6)
      /\ At(262, 224) /\ At(263, 7) /\ At(264, 62) /\ At(265, 2) /\ At(266, 224) /\ At(267, 7)
      /\ At(268, 62) /\ At(269, 7) /\ At(270, 224) /\ At(271, 7) /\ At(272, 240) /\ At(273, 15)
      /\ At(274, 230) /\ At(275, 4) /\ At(276, 40) /\ At(277, 250)
  <2>1. \A i \in 1 .. 22 : At(255 + i, code[i])
    BY <1>5 DEF Carries
  <2> QED
    BY <2>1, <1>3, <1>4
<1>c. At(278, 118) /\ Called(7)
  BY <1>5 DEF Carries, Called
<1> QED
  BY <1>b, <1>c DEF WaitAt, TogglingCode, At2

LEMMA JumpCode ==
  ASSUME cart_data = JumpToEnd
  PROVE  /\ At2(256, 62, 4) /\ At2(258, 224, 7) /\ At3(260, 195, 176, 200) /\ Called(6)
<1> DEFINE code == Ldh(TAC, 4) \o <<195, 176, 200>>
<1>1. cart_data = Rom(6, code)
  BY DEF JumpToEnd
<1>2. Len(code) = 7 /\ 7 \in 1 .. 99
  BY DEF Ldh
<1>3. /\ code[1] = 62 /\ code[2] = 4 /\ code[3] = 224 /\ code[4] = 7
      /\ code[5] = 195 /\ code[6] = 176 /\ code[7] = 200
  BY DEF Ldh, TAC
<1> HIDE DEF code
<1>4. Carries(7, 6, code)
  BY <1>1, <1>2, RomCarries
<1>b. /\ At(256, 62) /\ At(257, 4) /\ At(258, 224) /\ At(259, 7) /\ At(260, 195) /\ At(261, 176)
      /\ At(262, 200)
  <2>1. \A i \in 1 .. 7 : At(255 + i, code[i])
    BY <1>4 DEF Carries
  <2> QED
    BY <2>1, <1>3
<1>c. At(263, 118) /\ Called(6)
  BY <1>4 DEF Carries, Called
<1> QED
  BY <1>b, <1>c DEF At2, At3

-----------------------------------------------------------------------------
(* A write of A to TAC, to TMA and to the serial port.                     *)
LEMMA StoreTac ==
  ASSUME Begins, NEW p \in Code, At2(p, 224, 7), NEW a, NEW t \in InTime,
         NEW c, NEW m, NEW v, NEW n \in Nat, PcAndA(p, a, t, Seen(c, m, v, n)),
         NEW w, NEW u, Turns(c, n, a, w, u)
  PROVE  PcIs(p + 2, t + 12, Seen(w, m, v, u))' /\ Onward
<1>1. PICK y : y = 65280 + 7
  OBVIOUS
<1>2. PICK e : e = AfterCall(Seen(c, m, v, n), Passed(y, a))
  OBVIOUS
<1>3. PcIs(p + 2, t + 12, e)' /\ Onward
  BY <1>1, <1>2, StoreToDevice
<1>4. e = Seen(w, m, v, u)
  BY <1>1, <1>2, Effects DEF Turns
<1> QED
  BY <1>3, <1>4

LEMMA StoreTma ==
  ASSUME Begins, NEW p \in Code, At2(p, 224, 6), NEW a, NEW t \in InTime,
         NEW c, NEW m, NEW v, NEW n \in Nat, PcAndA(p, a, t, Seen(c, m, v, n))
  PROVE  PcIs(p + 2, t + 12, Seen(c, a, v, n))' /\ Onward
<1>1. PICK y : y = 65280 + 6
  OBVIOUS
<1>2. PICK e : e = AfterCall(Seen(c, m, v, n), Passed(y, a))
  OBVIOUS
<1>3. PcIs(p + 2, t + 12, e)' /\ Onward
  BY <1>1, <1>2, StoreToDevice
<1>4. e = Seen(c, a, v, n)
  BY <1>1, <1>2, Effects
<1> QED
  BY <1>3, <1>4

LEMMA StoreSerial ==
  ASSUME Begins, NEW p \in Code, At2(p, 224, 1), NEW a, NEW t \in InTime,
         NEW c, NEW m, NEW v, NEW n \in Nat, PcAndA(p, a, t, Seen(c, m, v, n))
  PROVE  PcIs(p + 2, t + 12, Seen(c, m, v, n))' /\ Onward
<1>1. PICK y : y = 65280 + 1
  OBVIOUS
<1>2. PICK e : e = AfterCall(Seen(c, m, v, n), Passed(y, a))
  OBVIOUS
<1>3. PcIs(p + 2, t + 12, e)' /\ Onward
  BY <1>1, <1>2, StoreToDevice
<1>4. e = Seen(c, m, v, n)
  BY <1>1, <1>2, Effects
<1> QED
  BY <1>3, <1>4

(* What an instruction finds that begins at such a point.                  *)
LEMMA FoundAtRest ==
  ASSUME Begins, NEW p, NEW t, NEW c, NEW m, NEW v, NEW n, PcIs(p, t, Seen(c, m, v, n))
  PROVE  /\ reg["PC"] = p /\ Waiting(p) /\ WritesAreOver /\ ~TimerBit(interrupt_flag)
         /\ tac = c /\ new_tac = c /\ tma = m /\ tima = v /\ heap_size = n
<1>1. /\ Len(calls) = 0 /\ Outcome = Now /\ new_tac = tac
      /\ Now = Seen(tac, tma, tima, heap_size)
  BY StepRuns, AtRestBefore DEF Begins
<1>2. Seen(tac, tma, tima, heap_size) = Seen(c, m, v, n)
  BY <1>1 DEF PcIs, Before
<1>3. tac = c /\ tma = m /\ tima = v /\ heap_size = n
  BY <1>2 DEF Seen
<1> QED
  BY <1>1, <1>3 DEF PcIs, Before, Waiting, WritesAreOver

-----------------------------------------------------------------------------
(* The points of the programs.                                             *)
Fresh == Seen(Off, 0, 0, 0)

(* A step to the end of a program.                                         *)
Finishes ==
  critical' /\ cart_data' = cart_data /\ AtRest' /\ DevicesHoldWhatWasWritten'

LEMMA TacsAre ==
  /\ Turns(Off, 0, 5, TacOf(5), 2) /\ Turns(Off, 0, 4, TacOf(4), 2)
  /\ Turns(TacOf(5), 2, 0, Off, 2) /\ Turns(TacOf(5), 2, 6, TacOf(5), 2)
  /\ Turns(TacOf(5), 2, 2, TacOf(2), 2) /\ Turns(TacOf(2), 2, 7, TacOf(7), 4)
BY TacValues DEF Turns

LEMMA TimesAre ==
  /\ 0 \in Nat /\ 2 \in Nat
  /\ 0 \in InTime /\ 8 \in InTime /\ 12 \in InTime /\ 20 \in InTime
  /\ 24 \in 0 .. 68 /\ 28 \in InTime /\ 40 \in InTime /\ 48 \in InTime
  /\ 52 \in InTime /\ 60 \in InTime /\ 64 \in InTime /\ 68 \in InTime
  /\ 72 \in InTime
BY DEF InTime

PollPoint ==
  \/ PcIs(256, 0, Fresh) \/ PcAndA(258, 7, 8, Fresh)
  \/ PcIs(260, 20, Seen(Off, 7, 0, 0)) \/ PcAndA(262, 5, 28, Seen(Off, 7, 0, 0))
  \/ PcIs(264, 40, Seen(TacOf(5), 7, 0, 2))
  \/ Waiting(264) /\ WritesAreOver /\ tma = 7

LEMMA PollSteps ==
  ASSUME Begins, cart_data = Poll, PollPoint
  PROVE  (PollPoint' /\ Onward) \/ Finishes
<1>1. /\ At2(256, 62, 7) /\ At2(258, 224, 6) /\ At2(260, 62, 5) /\ At2(262, 224, 7)
      /\ WaitAt(264) /\ At(270, 118) /\ Called(1)
  BY PollCode
<1>2. {256, 258, 260, 262, 264, 264 + 2, 264 + 4, 270} \subseteq Code
  BY DEF Code
<1>3. CASE PcIs(256, 0, Fresh)
  <2>1. PcAndA(258, 7, 8, Fresh)' /\ Onward
    BY <1>1, <1>2, <1>3, Load
  <2> QED
    BY <2>1 DEF PollPoint
<1>4. CASE PcAndA(258, 7, 8, Fresh)
  <2>a. At2(258, 224, 6) /\ 258 \in Code
    BY <1>1, <1>2
  <2>1. PcIs(258 + 2, 8 + 12, Seen(Off, 7, 0, 0))' /\ Onward
    BY <1>4, <2>a, StoreTma, TimesAre DEF Fresh
  <2> QED
    BY <2>1 DEF PollPoint
<1>5. CASE PcIs(260, 20, Seen(Off, 7, 0, 0))
  <2>1. PcAndA(262, 5, 28, Seen(Off, 7, 0, 0))' /\ Onward
    BY <1>1, <1>2, <1>5, Load
  <2> QED
    BY <2>1 DEF PollPoint
<1>6. CASE PcAndA(262, 5, 28, Seen(Off, 7, 0, 0))
  <2>a. At2(262, 224, 7) /\ 262 \in Code
    BY <1>1, <1>2
  <2>b. Turns(Off, 0, 5, TacOf(5), 2)
    BY TacsAre
  <2>1. PcIs(262 + 2, 28 + 12, Seen(TacOf(5), 7, 0, 2))' /\ Onward
    BY <1>6, <2>a, <2>b, StoreTac, TimesAre
  <2> QED
    BY <2>1 DEF PollPoint
<1>7. CASE \/ PcIs(264, 40, Seen(TacOf(5), 7, 0, 2))
           \/ Waiting(264) /\ WritesAreOver /\ tma = 7
  <2>1. Waiting(264) /\ WritesAreOver /\ tma = 7
    BY <1>7, FoundAtRest
  <2>2. CASE reg["PC"] # 264 + 6
    <3>1. Waiting(264)' /\ OnlyWaits
      BY <1>1, <1>2, <2>1, <2>2, WaitStep DEF WaitAt
    <3> QED
      BY <2>1, <3>1 DEF PollPoint, OnlyWaits
  <2>3. CASE reg["PC"] = 264 + 6
    <3>1. reg["PC"] = 270 /\ TimerBit(interrupt_flag)
      BY <2>1, <2>3 DEF Waiting
    <3>2. /\ critical' /\ cart_data' = cart_data /\ AtRest'
          /\ interrupt_flag' = interrupt_flag /\ tma' = tma
      BY <1>1, <1>2, <3>1, Stops
    <3>3. Name' = 1
      BY <1>1, <3>2 DEF Name, Called
    <3>4. DevicesHoldWhatWasWritten'
      BY <2>1, <3>1, <3>2, <3>3 DEF DevicesHoldWhatWasWritten, TimerBit
    <3> QED
      BY <3>2, <3>4 DEF Finishes
  <2> QED
    BY <2>2, <2>3
<1> QED
  BY <1>3, <1>4, <1>5, <1>6, <1>7 DEF PollPoint

-----------------------------------------------------------------------------
PollSilentlyPoint ==
  \/ PcIs(256, 0, Fresh) \/ PcAndA(258, 5, 8, Fresh)
  \/ PcIs(260, 20, Seen(TacOf(5), 0, 0, 2))
  \/ PcIs(262, 20, Seen(TacOf(5), 0, 0, 2)) /\ ~TimerBit(reg["A"])
  \/ PcIs(264, 20, Seen(TacOf(5), 0, 0, 2)) /\ Zero

(* The wait that reports no cycles is never left: the clock stands still.  *)
LEMMA PollSilentlySteps ==
  ASSUME Begins, cart_data = PollSilently, PollSilentlyPoint
  PROVE  PollSilentlyPoint' /\ Onward
<1>1. /\ At2(256, 62, 5) /\ At2(258, 224, 7) /\ At2(260, 240, 15) /\ At2(262, 230, 4)
      /\ At3(264, 202, 4, 1)
  BY PollSilentlyCode
<1>2. {256, 258, 260, 262, 264} \subseteq Code /\ 20 \in Reported
  BY DEF Code, Reported
<1>3. CASE PcIs(256, 0, Fresh)
  <2>1. PcAndA(258, 5, 8, Fresh)' /\ Onward
    BY <1>1, <1>2, <1>3, Load
  <2> QED
    BY <2>1 DEF PollSilentlyPoint
<1>4. CASE PcAndA(258, 5, 8, Fresh)
  <2>a. At2(258, 224, 7) /\ 258 \in Code
    BY <1>1, <1>2
  <2>b. Turns(Off, 0, 5, TacOf(5), 2)
    BY TacsAre
  <2>1. PcIs(258 + 2, 8 + 12, Seen(TacOf(5), 0, 0, 2))' /\ Onward
    BY <1>4, <2>a, <2>b, StoreTac, TimesAre DEF Fresh
  <2> QED
    BY <2>1 DEF PollSilentlyPoint
<1>5. CASE PcIs(260, 20, Seen(TacOf(5), 0, 0, 2))
  <2>1. Leaves(262, {"A"}) /\ reg'["A"] = interrupt_flag /\ OnlyReports(0)
    BY <1>1, <1>2, <1>5, LoadFlag DEF PcIs
  <2>2. PcIs(262, 20, Seen(TacOf(5), 0, 0, 2))' /\ Onward
    BY <1>5, <2>1, <1>2, SilentStep
  <2>3. ~TimerBit(interrupt_flag)
    BY <1>5 DEF PcIs, Before
  <2>4. ~TimerBit(reg["A"])'
    BY <2>1, <2>3 DEF TimerBit
  <2> QED
    BY <2>2, <2>4 DEF PollSilentlyPoint
<1>6. CASE PcIs(262, 20, Seen(TacOf(5), 0, 0, 2)) /\ ~TimerBit(reg["A"])
  <2>1. Leaves(264, {"A", "F"}) /\ OnlyReports(0) /\ Zero'
    BY <1>1, <1>2, <1>6, TestFlag DEF PcIs
  <2>2. PcIs(264, 20, Seen(TacOf(5), 0, 0, 2))' /\ Onward
    BY <1>6, <2>1, <1>2, SilentStep
  <2> QED
    BY <2>1, <2>2 DEF PollSilentlyPoint
<1>7. CASE PcIs(264, 20, Seen(TacOf(5), 0, 0, 2)) /\ Zero
  <2>1. WordOf(1, 4) = 260
    BY DEF WordOf
  <2>2. PcIs(260, 20, Seen(TacOf(5), 0, 0, 2))' /\ Onward
    BY <1>1, <1>2, <1>7, <2>1, JumpBackSilently
  <2> QED
    BY <2>2 DEF PollSilentlyPoint
<1> QED
  BY <1>3, <1>4, <1>5, <1>6, <1>7 DEF PollSilentlyPoint

-----------------------------------------------------------------------------
PollTwicePoint ==
  \/ PcIs(256, 0, Fresh) \/ PcAndA(258, 7, 8, Fresh)
  \/ PcIs(260, 20, Seen(Off, 7, 0, 0)) \/ PcAndA(262, 5, 28, Seen(Off, 7, 0, 0))
  \/ PcIs(264, 40, Seen(TacOf(5), 7, 0, 2)) \/ PcAndA(266, 0, 48, Seen(TacOf(5), 7, 0, 2))
  \/ PcIs(268, 60, Seen(Off, 7, 0, 2))
  \/ Waiting(268) /\ Draining
  \/ reg["PC"] = 276 /\ reg["A"] = 1 /\ TimerBit(interrupt_flag) /\ Draining
  \/ Waiting(278) /\ DrainingAgain

(* What a step that writes nothing to the timer leaves of it.              *)
LEMMA LeftStays ==
  ASSUME UNCHANGED <<pc, heap_size, new_tac, tma, tima>>, WritesAreOver'
  PROVE  /\ Left' = Left
         /\ interrupt_flag' = interrupt_flag =>
              (Draining => Draining') /\ (DrainingAgain => DrainingAgain')
<1>1. Left' = Left
  BY DEF Left
<1>2. interrupt_flag' = interrupt_flag => (TimerBit(interrupt_flag)' <=> TimerBit(interrupt_flag))
  BY DEF TimerBit
<1> QED
  BY <1>1, <1>2 DEF Draining, DrainingAgain

LEMMA PollTwiceBegins ==
  ASSUME Begins, cart_data = PollTwice,
         \/ PcIs(256, 0, Fresh) \/ PcAndA(258, 7, 8, Fresh)
         \/ PcIs(260, 20, Seen(Off, 7, 0, 0)) \/ PcAndA(262, 5, 28, Seen(Off, 7, 0, 0))
         \/ PcIs(264, 40, Seen(TacOf(5), 7, 0, 2))
         \/ PcAndA(266, 0, 48, Seen(TacOf(5), 7, 0, 2))
  PROVE  PollTwicePoint' /\ Onward
<1>1. /\ At2(256, 62, 7) /\ At2(258, 224, 6) /\ At2(260, 62, 5) /\ At2(262, 224, 7)
      /\ At2(264, 62, 0) /\ At2(266, 224, 7)
  BY PollTwiceCode
<1>2. {256, 258, 260, 262, 264, 266} \subseteq Code
  BY DEF Code
<1>3. CASE PcIs(256, 0, Fresh)
  <2>1. PcAndA(258, 7, 8, Fresh)' /\ Onward
    BY <1>1, <1>2, <1>3, Load
  <2> QED
    BY <2>1 DEF PollTwicePoint
<1>4. CASE PcAndA(258, 7, 8, Fresh)
  <2>a. At2(258, 224, 6) /\ 258 \in Code
    BY <1>1, <1>2
  <2>1. PcIs(258 + 2, 8 + 12, Seen(Off, 7, 0, 0))' /\ Onward
    BY <1>4, <2>a, StoreTma, TimesAre DEF Fresh
  <2> QED
    BY <2>1 DEF PollTwicePoint
<1>5. CASE PcIs(260, 20, Seen(Off, 7, 0, 0))
  <2>1. PcAndA(262, 5, 28, Seen(Off, 7, 0, 0))' /\ Onward
    BY <1>1, <1>2, <1>5, Load
  <2> QED
    BY <2>1 DEF PollTwicePoint
<1>6. CASE PcAndA(262, 5, 28, Seen(Off, 7, 0, 0))
  <2>a. At2(262, 224, 7) /\ 262 \in Code
    BY <1>1, <1>2
  <2>b. Turns(Off, 0, 5, TacOf(5), 2)
    BY TacsAre
  <2>1. PcIs(262 + 2, 28 + 12, Seen(TacOf(5), 7, 0, 2))' /\ Onward
    BY <1>6, <2>a, <2>b, StoreTac, TimesAre
  <2> QED
    BY <2>1 DEF PollTwicePoint
<1>7. CASE PcIs(264, 40, Seen(TacOf(5), 7, 0, 2))
  <2>1. PcAndA(266, 0, 48, Seen(TacOf(5), 7, 0, 2))' /\ Onward
    BY <1>1, <1>2, <1>7, Load
  <2> QED
    BY <2>1 DEF PollTwicePoint
<1>8. CASE PcAndA(266, 0, 48, Seen(TacOf(5), 7, 0, 2))
  <2>a. At2(266, 224, 7) /\ 266 \in Code
    BY <1>1, <1>2
  <2>b. Turns(TacOf(5), 2, 0, Off, 2)
    BY TacsAre
  <2>1. PcIs(266 + 2, 48 + 12, Seen(Off, 7, 0, 2))' /\ Onward
    BY <1>8, <2>a, <2>b, StoreTac, TimesAre
  <2> QED
    BY <2>1 DEF PollTwicePoint
<1> QED
  BY <1>3, <1>4, <1>5, <1>6, <1>7, <1>8

LEMMA PollTwiceSteps ==
  ASSUME Begins, cart_data = PollTwice, PollTwicePoint
  PROVE  (PollTwicePoint' /\ Onward) \/ Finishes
<1>1. /\ WaitAt(268) /\ At2(274, 62, 1) /\ At2(276, 224, 15) /\ WaitAt(278)
      /\ At(284, 118) /\ Called(3)
  BY PollTwiceCode
<1>2. {268, 268 + 2, 268 + 4, 274, 276, 278, 278 + 2, 278 + 4, 284} \subseteq Code
  BY DEF Code
<1>3. CASE \/ PcIs(256, 0, Fresh) \/ PcAndA(258, 7, 8, Fresh)
           \/ PcIs(260, 20, Seen(Off, 7, 0, 0)) \/ PcAndA(262, 5, 28, Seen(Off, 7, 0, 0))
           \/ PcIs(264, 40, Seen(TacOf(5), 7, 0, 2))
           \/ PcAndA(266, 0, 48, Seen(TacOf(5), 7, 0, 2))
  BY <1>3, PollTwiceBegins
<1>4. CASE PcIs(268, 60, Seen(Off, 7, 0, 2)) \/ (Waiting(268) /\ Draining)
  <2>1. Waiting(268) /\ Draining
    <3>1. CASE PcIs(268, 60, Seen(Off, 7, 0, 2))
      <4>1. /\ Waiting(268) /\ WritesAreOver /\ ~TimerBit(interrupt_flag)
            /\ new_tac = Off /\ heap_size = 2
        BY <3>1, FoundAtRest
      <4>2. ~Off.enabled /\ pc = "idle"
        BY StepsFacts DEF Begins, Off
      <4> QED
        BY <4>1, <4>2 DEF Draining, Left
    <3> QED
      BY <1>4, <3>1
  <2>2. CASE reg["PC"] # 268 + 6
    <3>1. Waiting(268)' /\ OnlyWaits
      BY <1>1, <1>2, <2>1, <2>2, WaitStep DEF WaitAt
    <3>2. Draining'
      BY <2>1, <3>1, LeftStays DEF OnlyWaits
    <3> QED
      BY <3>1, <3>2 DEF PollTwicePoint, OnlyWaits
  <2>3. CASE reg["PC"] = 268 + 6
    <3>1. reg["PC"] = 274 /\ TimerBit(interrupt_flag)
      BY <2>1, <2>3 DEF Waiting
    <3>2. Leaves(276, {"A"}) /\ reg'["A"] = 1 /\ OnlyReports(8)
      BY <1>1, <1>2, <3>1, StepRuns, LdRImm8, Rows
    <3>a. critical' = FALSE
      BY <3>2 DEF Leaves
    <3>3. OnlyWaits
      BY <3>2, <3>a, QuietStepWaits
    <3>4. Draining' /\ TimerBit(interrupt_flag)'
      BY <2>1, <3>1, <3>3, LeftStays DEF OnlyWaits, TimerBit
    <3> QED
      BY <3>2, <3>3, <3>4 DEF PollTwicePoint, Leaves, OnlyWaits
  <2> QED
    BY <2>2, <2>3
<1>5. CASE reg["PC"] = 276 /\ reg["A"] = 1 /\ TimerBit(interrupt_flag) /\ Draining
  <2>1. /\ reg'["PC"] = 278 /\ Onward /\ WritesAreOver' /\ interrupt_flag' = 1
        /\ UNCHANGED <<pc, ret, heap_size, new_tac, tac, tma, tima>>
    BY <1>1, <1>2, <1>5, StoreFlag
  <2>2. Left' = Left
    BY <2>1, LeftStays
  <2>3. 1 % 2 = 1 /\ (1 \div 4) % 2 = 0
    OBVIOUS
  <2>4. interrupt_flag' % 2 = 1 /\ ~TimerBit(interrupt_flag)'
    BY <2>1, <2>3 DEF TimerBit
  <2>5. DrainingAgain'
    BY <1>5, <2>1, <2>2, <2>4 DEF Draining, DrainingAgain
  <2> QED
    BY <2>1, <2>5 DEF PollTwicePoint, Waiting
<1>6. CASE Waiting(278) /\ DrainingAgain
  <2>1. CASE reg["PC"] # 278 + 6
    <3>1. Waiting(278)' /\ OnlyWaits
      BY <1>1, <1>2, <1>6, <2>1, WaitStep DEF WaitAt
    <3>2. DrainingAgain'
      BY <1>6, <3>1, LeftStays DEF OnlyWaits
    <3> QED
      BY <3>1, <3>2 DEF PollTwicePoint, OnlyWaits
  <2>2. CASE reg["PC"] = 278 + 6
    <3>1. reg["PC"] = 284 /\ TimerBit(interrupt_flag)
      BY <1>6, <2>2 DEF Waiting
    <3>2. /\ critical' /\ cart_data' = cart_data /\ AtRest'
          /\ interrupt_flag' = interrupt_flag
          /\ UNCHANGED <<heap_size, new_tac, tac, tma, tima>>
      BY <1>1, <1>2, <3>1, Stops
    <3>3. Name' = 3
      BY <1>1, <3>2 DEF Name, Called
    <3>4. pc = "idle" /\ new_tac = tac
      BY StepRuns, AtRestBefore, StepsFacts DEF Begins
    <3>5. heap_size = 0 /\ tima = tma /\ ~tac.enabled /\ interrupt_flag % 2 = 1
      <4>1. heap_size \in Nat
        BY SoundFacts DEF Begins
      <4> QED
        BY <1>6, <3>1, <3>4, <4>1 DEF DrainingAgain, Left
    <3>6. DevicesHoldWhatWasWritten'
      BY <3>1, <3>2, <3>3, <3>5 DEF DevicesHoldWhatWasWritten, TimerBit
    <3> QED
      BY <3>2, <3>6 DEF Finishes
  <2> QED
    BY <2>1, <2>2
<1> QED
  BY <1>3, <1>4, <1>5, <1>6 DEF PollTwicePoint

-----------------------------------------------------------------------------
PushAndDecrementPoint ==
  \/ PcIs(256, 0, Fresh)
  \/ PcIs(259, 12, Fresh) /\ reg["SP"] = 65288
  \/ PcIs(262, 24, Fresh) /\ reg["SP"] = 65288 /\ reg["B"] = 5 /\ reg["C"] = 9
  \/ PcIs(263, 40, Seen(TacOf(5), 9, 0, 2))
  \/ PcIs(266, 52, Seen(TacOf(5), 9, 0, 2)) /\ reg["H"] = 255 /\ reg["L"] = 5
  \/ PcIs(267, 64, Seen(TacOf(5), 9, 254, 2))
  \/ PcAndA(269, 65, 72, Seen(TacOf(5), 9, 254, 2))
  \/ PcIs(271, 84, Seen(TacOf(5), 9, 254, 2))

LEMMA PushAndDecrementSteps ==
  ASSUME Begins, cart_data = PushAndDecrement, PushAndDecrementPoint
  PROVE  (PushAndDecrementPoint' /\ Onward) \/ Finishes
<1>1. /\ At3(256, 49, 8, 255) /\ At3(259, 1, 9, 5) /\ At(262, 197)
      /\ At3(263, 33, 5, 255) /\ At(266, 53) /\ At2(267, 62, 65) /\ At2(269, 224, 1)
      /\ At(271, 118) /\ Called(4)
  BY PushAndDecrementCode
<1>2. {256, 259, 262, 263, 266, 267, 269, 271} \subseteq Code /\ {5, 9, 255} \subseteq Byte
  BY DEF Code, Byte
<1>3. CASE PcIs(256, 0, Fresh)
  <2>a. At3(256, 49, 8, 255) /\ 256 \in Code
    BY <1>1, <1>2
  <2>1. PcIs(256 + 3, 0 + 12, Fresh)' /\ reg'["SP"] = WordOf(255, 8) /\ Onward
    BY <1>3, <2>a, LoadSP, TimesAre
  <2>2. WordOf(255, 8) = 65288
    BY DEF WordOf
  <2> QED
    BY <2>1, <2>2 DEF PushAndDecrementPoint
<1>4. CASE PcIs(259, 12, Fresh) /\ reg["SP"] = 65288
  <2>a. At3(259, 1, 9, 5) /\ 259 \in Code /\ 9 \in Byte /\ 5 \in Byte
        /\ <<1, "B", "C">> \in LD_RR_IMM16
    BY <1>1, <1>2, Rows
  <2>1. /\ PcIs(259 + 3, 12 + 12, Fresh)' /\ Onward
        /\ reg'["B"] = 5 /\ reg'["C"] = 9 /\ reg'["SP"] = reg["SP"]
    BY <1>4, <2>a, LoadPair, TimesAre
  <2> QED
    BY <1>4, <2>1 DEF PushAndDecrementPoint
<1>5. CASE PcIs(262, 24, Fresh) /\ reg["SP"] = 65288 /\ reg["B"] = 5 /\ reg["C"] = 9
  <2>a. At(262, 197) /\ 262 \in Code
    BY <1>1, <1>2
  <2>b. Turns(Off, 0, 5, TacOf(5), 2)
    BY TacsAre
  <2>1. PcIs(262 + 1, 24 + 16, Seen(TacOf(5), 9, 0, 2))' /\ Onward
    BY <1>5, <2>a, <2>b, PushToTimer, TimesAre DEF Fresh
  <2> QED
    BY <2>1 DEF PushAndDecrementPoint
<1>6. CASE PcIs(263, 40, Seen(TacOf(5), 9, 0, 2))
  <2>a. At3(263, 33, 5, 255) /\ 263 \in Code /\ 5 \in Byte /\ 255 \in Byte
        /\ <<33, "H", "L">> \in LD_RR_IMM16
    BY <1>1, <1>2, Rows
  <2>1. /\ PcIs(263 + 3, 40 + 12, Seen(TacOf(5), 9, 0, 2))' /\ Onward
        /\ reg'["H"] = 255 /\ reg'["L"] = 5
    BY <1>6, <2>a, LoadPair, TimesAre
  <2> QED
    BY <2>1 DEF PushAndDecrementPoint
<1>7. CASE PcIs(266, 52, Seen(TacOf(5), 9, 0, 2)) /\ reg["H"] = 255 /\ reg["L"] = 5
  <2>a. At(266, 53) /\ 266 \in Code
    BY <1>1, <1>2
  <2>1. PcIs(266 + 1, 52 + 12, Seen(TacOf(5), 9, 254, 2))' /\ Onward
    BY <1>7, <2>a, DecrementTima, TimesAre
  <2> QED
    BY <2>1 DEF PushAndDecrementPoint
<1>8. CASE PcIs(267, 64, Seen(TacOf(5), 9, 254, 2))
  <2>1. PcAndA(269, 65, 72, Seen(TacOf(5), 9, 254, 2))' /\ Onward
    BY <1>1, <1>2, <1>8, Load
  <2> QED
    BY <2>1 DEF PushAndDecrementPoint
<1>9. CASE PcAndA(269, 65, 72, Seen(TacOf(5), 9, 254, 2))
  <2>a. At2(269, 224, 1) /\ 269 \in Code
    BY <1>1, <1>2
  <2>1. PcIs(269 + 2, 72 + 12, Seen(TacOf(5), 9, 254, 2))' /\ Onward
    BY <1>9, <2>a, StoreSerial, TimesAre
  <2> QED
    BY <2>1 DEF PushAndDecrementPoint
<1>10. CASE PcIs(271, 84, Seen(TacOf(5), 9, 254, 2))
  <2>1. reg["PC"] = 271 /\ tac = TacOf(5) /\ tma = 9 /\ tima = 254
    BY <1>10, FoundAtRest
  <2>2. /\ critical' /\ cart_data' = cart_data /\ AtRest'
        /\ UNCHANGED <<tac, tma, tima>>
    BY <1>1, <1>2, <2>1, Stops
  <2>3. Name' = 4
    BY <1>1, <2>2 DEF Name, Called
  <2>4. DevicesHoldWhatWasWritten'
    BY <2>1, <2>2, <2>3 DEF DevicesHoldWhatWasWritten
  <2> QED
    BY <2>2, <2>4 DEF Finishes
<1> QED
  BY <1>3, <1>4, <1>5, <1>6, <1>7, <1>8, <1>9, <1>10 DEF PushAndDecrementPoint

-----------------------------------------------------------------------------
JumpBegins ==
  \/ PcIs(256, 0, Fresh) \/ PcAndA(258, 4, 8, Fresh)
  \/ PcIs(260, 20, Seen(TacOf(4), 0, 0, 2))
JumpPoint == JumpBegins \/ reg["PC"] = 51376

(* At $C8B0 the loop of main makes no step.                                *)
LEMMA JumpSteps ==
  ASSUME Begins, cart_data = JumpToEnd, JumpBegins
  PROVE  JumpPoint' /\ Onward
<1>1. /\ At2(256, 62, 4) /\ At2(258, 224, 7) /\ At3(260, 195, 176, 200)
  BY JumpCode
<1>2. {256, 258, 260} \subseteq Code
  BY DEF Code
<1>3. CASE PcIs(256, 0, Fresh)
  <2>1. PcAndA(258, 4, 8, Fresh)' /\ Onward
    BY <1>1, <1>2, <1>3, Load
  <2> QED
    BY <2>1 DEF JumpBegins, JumpPoint
<1>4. CASE PcAndA(258, 4, 8, Fresh)
  <2>a. At2(258, 224, 7) /\ 258 \in Code
    BY <1>1, <1>2
  <2>b. Turns(Off, 0, 4, TacOf(4), 2)
    BY TacsAre
  <2>1. PcIs(258 + 2, 8 + 12, Seen(TacOf(4), 0, 0, 2))' /\ Onward
    BY <1>4, <2>a, <2>b, StoreTac, TimesAre DEF Fresh
  <2> QED
    BY <2>1 DEF JumpBegins, JumpPoint
<1>5. CASE PcIs(260, 20, Seen(TacOf(4), 0, 0, 2))
  <2>1. WordOf(200, 176) = 51376
    BY DEF WordOf
  <2>2. reg'["PC"] = 51376 /\ Onward
    BY <1>1, <1>2, <1>5, <2>1, JumpAway DEF PcIs
  <2> QED
    BY <2>2 DEF JumpBegins, JumpPoint
<1> QED
  BY <1>3, <1>4, <1>5 DEF JumpBegins

-----------------------------------------------------------------------------
TogglingPoint ==
  \/ PcIs(256, 0, Fresh) \/ PcAndA(258, 5, 8, Fresh)
  \/ PcIs(260, 20, Seen(TacOf(5), 0, 0, 2)) \/ PcAndA(262, 6, 28, Seen(TacOf(5), 0, 0, 2))
  \/ PcIs(264, 40, Seen(TacOf(5), 0, 0, 2)) \/ PcAndA(266, 2, 48, Seen(TacOf(5), 0, 0, 2))
  \/ PcIs(268, 60, Seen(TacOf(2), 0, 0, 2)) \/ PcAndA(270, 7, 68, Seen(TacOf(2), 0, 0, 2))
  \/ PcIs(272, 80, Seen(TacOf(7), 0, 0, 4))

LEMMA TogglingSteps ==
  ASSUME Begins, TogglingCode, TogglingPoint, reg["PC"] # 272
  PROVE  TogglingPoint' /\ Onward
<1>1. {256, 258, 260, 262, 264, 266, 268, 270} \subseteq Code
  BY DEF Code
<1>2. CASE PcIs(256, 0, Fresh)
  <2>1. PcAndA(258, 5, 8, Fresh)' /\ Onward
    BY <1>1, <1>2, Load DEF TogglingCode
  <2> QED
    BY <2>1 DEF TogglingPoint
<1>3. CASE PcAndA(258, 5, 8, Fresh)
  <2>a. At2(258, 224, 7) /\ 258 \in Code /\ Turns(Off, 0, 5, TacOf(5), 2)
    BY <1>1, TacsAre DEF TogglingCode
  <2>1. PcIs(258 + 2, 8 + 12, Seen(TacOf(5), 0, 0, 2))' /\ Onward
    BY <1>3, <2>a, StoreTac, TimesAre DEF Fresh
  <2> QED
    BY <2>1 DEF TogglingPoint
<1>4. CASE PcIs(260, 20, Seen(TacOf(5), 0, 0, 2))
  <2>1. PcAndA(262, 6, 28, Seen(TacOf(5), 0, 0, 2))' /\ Onward
    BY <1>1, <1>4, Load DEF TogglingCode
  <2> QED
    BY <2>1 DEF TogglingPoint
<1>5. CASE PcAndA(262, 6, 28, Seen(TacOf(5), 0, 0, 2))
  <2>a. At2(262, 224, 7) /\ 262 \in Code /\ Turns(TacOf(5), 2, 6, TacOf(5), 2)
    BY <1>1, TacsAre DEF TogglingCode
  <2>1. PcIs(262 + 2, 28 + 12, Seen(TacOf(5), 0, 0, 2))' /\ Onward
    BY <1>5, <2>a, StoreTac, TimesAre
  <2> QED
    BY <2>1 DEF TogglingPoint
<1>6. CASE PcIs(264, 40, Seen(TacOf(5), 0, 0, 2))
  <2>1. PcAndA(266, 2, 48, Seen(TacOf(5), 0, 0, 2))' /\ Onward
    BY <1>1, <1>6, Load DEF TogglingCode
  <2> QED
    BY <2>1 DEF TogglingPoint
<1>7. CASE PcAndA(266, 2, 48, Seen(TacOf(5), 0, 0, 2))
  <2>a. At2(266, 224, 7) /\ 266 \in Code /\ Turns(TacOf(5), 2, 2, TacOf(2), 2)
    BY <1>1, TacsAre DEF TogglingCode
  <2>1. PcIs(266 + 2, 48 + 12, Seen(TacOf(2), 0, 0, 2))' /\ Onward
    BY <1>7, <2>a, StoreTac, TimesAre
  <2> QED
    BY <2>1 DEF TogglingPoint
<1>8. CASE PcIs(268, 60, Seen(TacOf(2), 0, 0, 2))
  <2>1. PcAndA(270, 7, 68, Seen(TacOf(2), 0, 0, 2))' /\ Onward
    BY <1>1, <1>8, Load DEF TogglingCode
  <2> QED
    BY <2>1 DEF TogglingPoint
<1>9. CASE PcAndA(270, 7, 68, Seen(TacOf(2), 0, 0, 2))
  <2>a. At2(270, 224, 7) /\ 270 \in Code /\ Turns(TacOf(2), 2, 7, TacOf(7), 4)
    BY <1>1, TacsAre DEF TogglingCode
  <2>1. PcIs(270 + 2, 68 + 12, Seen(TacOf(7), 0, 0, 4))' /\ Onward
    BY <1>9, <2>a, StoreTac, TimesAre
  <2> QED
    BY <2>1 DEF TogglingPoint
<1> QED
  BY <1>2, <1>3, <1>4, <1>5, <1>6, <1>7, <1>8, <1>9 DEF TogglingPoint, PcIs

LEMMA Toggled ==
  ASSUME Begins, TogglingPoint, reg["PC"] = 272
  PROVE  PcIs(272, 80, Seen(TacOf(7), 0, 0, 4))
BY DEF TogglingPoint, PcAndA, PcIs

LEMMA ToggleSteps ==
  ASSUME Begins, cart_data = Toggle, TogglingPoint
  PROVE  (TogglingPoint' /\ Onward) \/ Finishes
<1>1. TogglingCode /\ At(272, 118) /\ Called(5)
  BY ToggleCode
<1>2. CASE reg["PC"] = 272
  <2>1. reg["PC"] = 272 /\ tac = TacOf(7)
    BY <1>2, Toggled, FoundAtRest
  <2>2. critical' /\ cart_data' = cart_data /\ AtRest' /\ tac' = tac
    <3>1. 272 \in Code
      BY DEF Code
    <3> QED
      BY <1>1, <2>1, <3>1, Stops
  <2>3. Name' = 5
    BY <1>1, <2>2 DEF Name, Called
  <2>4. DevicesHoldWhatWasWritten'
    BY <2>1, <2>2, <2>3 DEF DevicesHoldWhatWasWritten
  <2> QED
    BY <2>2, <2>4 DEF Finishes
<1> QED
  BY <1>1, <1>2, TogglingSteps

ToggleAndPollPoint == TogglingPoint \/ (Waiting(272) /\ Four)

LEMMA ToggleAndPollSteps ==
  ASSUME Begins, cart_data = ToggleAndPoll, ToggleAndPollPoint
  PROVE  (ToggleAndPollPoint' /\ Onward) \/ Finishes
<1>1. TogglingCode /\ WaitAt(272) /\ At(278, 118) /\ Called(7)
  BY ToggleAndPollCode
<1>2. {272, 272 + 2, 272 + 4, 278} \subseteq Code
  BY DEF Code
<1>3. CASE TogglingPoint /\ reg["PC"] # 272
  BY <1>1, <1>3, TogglingSteps DEF ToggleAndPollPoint
<1>4. CASE (TogglingPoint /\ reg["PC"] = 272) \/ (Waiting(272) /\ Four)
  <2>1. Waiting(272) /\ Four
    <3>1. CASE TogglingPoint /\ reg["PC"] = 272
      <4>1. /\ Waiting(272) /\ WritesAreOver /\ ~TimerBit(interrupt_flag)
            /\ new_tac = TacOf(7) /\ heap_size = 4
        BY <3>1, Toggled, FoundAtRest
      <4>2. pc = "idle"
        BY StepsFacts DEF Begins
      <4> QED
        BY <4>1, <4>2 DEF Four, TP!Enabling
    <3> QED
      BY <1>4, <3>1
  <2>2. CASE reg["PC"] # 272 + 6
    <3>1. Waiting(272)' /\ OnlyWaits
      BY <1>1, <1>2, <2>1, <2>2, WaitStep DEF WaitAt
    <3>2. Four'
      <4>1. TimerBit(interrupt_flag)' <=> TimerBit(interrupt_flag)
        BY <3>1 DEF TimerBit, OnlyWaits
      <4>2. ~TP!Enabling'
        BY <2>1, <3>1 DEF Four, OnlyWaits, TP!Enabling
      <4> QED
        BY <2>1, <3>1, <4>1, <4>2 DEF Four, OnlyWaits
    <3> QED
      BY <3>1, <3>2 DEF ToggleAndPollPoint, OnlyWaits
  <2>3. CASE reg["PC"] = 272 + 6
    <3>1. reg["PC"] = 278 /\ TimerBit(interrupt_flag)
      BY <2>1, <2>3 DEF Waiting
    <3>2. /\ critical' /\ cart_data' = cart_data /\ AtRest'
          /\ interrupt_flag' = interrupt_flag
          /\ UNCHANGED <<heap_size, new_tac, tac, tma, tima>>
      BY <1>1, <1>2, <3>1, Stops
    <3>3. Name' = 7
      BY <1>1, <3>2 DEF Name, Called
    <3>4. pc = "idle" /\ new_tac = tac
      BY StepRuns, AtRestBefore, StepsFacts DEF Begins
    <3>5. heap_size = 4 /\ tac = TacOf(7) /\ MAX_EVENTS > 5
      BY <2>1, <3>1, <3>4 DEF Four
    <3>6. DevicesHoldWhatWasWritten'
      BY <3>1, <3>2, <3>3, <3>5 DEF DevicesHoldWhatWasWritten, TimerBit
    <3> QED
      BY <3>2, <3>6 DEF Finishes
  <2> QED
    BY <2>2, <2>3
<1> QED
  BY <1>3, <1>4 DEF ToggleAndPollPoint

-----------------------------------------------------------------------------
(* All of the programs together.                                           *)
PointOfProgram ==
  \/ cart_data = Poll /\ PollPoint
  \/ cart_data = PollSilently /\ PollSilentlyPoint
  \/ cart_data = PollTwice /\ PollTwicePoint
  \/ cart_data = PushAndDecrement /\ PushAndDecrementPoint
  \/ cart_data = Toggle /\ TogglingPoint
  \/ cart_data = JumpToEnd /\ JumpPoint
  \/ cart_data = ToggleAndPoll /\ ToggleAndPollPoint

LEMMA JumpGoesOn ==
  ASSUME JumpPoint, reg["PC"] # 51376
  PROVE  JumpBegins
BY DEF JumpPoint

LEMMA ProgramSteps ==
  ASSUME Begins, PointOfProgram, cart_data = JumpToEnd => JumpBegins
  PROVE  (PointOfProgram' /\ Onward) \/ Finishes
<1>1. CASE cart_data = Poll /\ PollPoint
  BY <1>1, PollSteps DEF PointOfProgram, Onward
<1>2. CASE cart_data = PollSilently /\ PollSilentlyPoint
  BY <1>2, PollSilentlySteps DEF PointOfProgram, Onward
<1>3. CASE cart_data = PollTwice /\ PollTwicePoint
  BY <1>3, PollTwiceSteps DEF PointOfProgram, Onward
<1>4. CASE cart_data = PushAndDecrement /\ PushAndDecrementPoint
  BY <1>4, PushAndDecrementSteps DEF PointOfProgram, Onward
<1>5. CASE cart_data = Toggle /\ TogglingPoint
  BY <1>5, ToggleSteps DEF PointOfProgram, Onward
<1>6. CASE cart_data = JumpToEnd /\ JumpPoint
  BY <1>6, JumpSteps DEF PointOfProgram, Onward
<1>7. CASE cart_data = ToggleAndPoll /\ ToggleAndPollPoint
  BY <1>7, ToggleAndPollSteps DEF PointOfProgram, Onward
<1> QED
  BY <1>1, <1>2, <1>3, <1>4, <1>5, <1>6, <1>7 DEF PointOfProgram

(* Between two instructions nothing of a program is lost, whether one goes *)
(* on outside of the CPU or main does something else.                      *)
GoesOn == InstructionGoesOn \/ UNCHANGED systemVars

LEMMA NothingChanges ==
  ASSUME UNCHANGED systemVars
  PROVE  /\ UNCHANGED <<reg, cart_data>>
         /\ TimerBit(interrupt_flag) => TimerBit(interrupt_flag)'
         /\ \A p : Waiting(p) => Waiting(p)'
         /\ WritesAreOver => WritesAreOver' /\ tma' = tma
         /\ (Draining => Draining') /\ (DrainingAgain => DrainingAgain')
         /\ Four => Four'
         /\ \A d : \A t \in Reported : Before(t, d) => Before(t, d)'
<1>1. /\ UNCHANGED <<reg, cart_data, interrupt_flag, calls, elapsed>>
      /\ UNCHANGED <<events, heap_size, pc, at, ret, tima, tma, tac, new_tac>>
  BY DEF systemVars, vars, busVars, cpuVars, timerVars, queue, control, registers
<1>2. TimerBit(interrupt_flag)' <=> TimerBit(interrupt_flag)
  BY <1>1 DEF TimerBit
<1>3. \A p : Waiting(p) => Waiting(p)'
  BY <1>1, <1>2 DEF Waiting, Zero, TimerBit
<1>4. WritesAreOver => WritesAreOver'
  BY <1>1 DEF WritesAreOver
<1>5. (Draining => Draining') /\ (DrainingAgain => DrainingAgain')
  BY <1>1, <1>4, LeftStays DEF Draining, DrainingAgain
<1>6. Four => Four'
  BY <1>1, <1>2, <1>4 DEF Four, TP!Enabling
<1>7. Outcome' = Outcome
  BY <1>1, SameOutcome DEF Now, ToInsert
<1>8. NoneIsDue => NoneIsDue'
  BY <1>1 DEF NoneIsDue, AllFar
<1> QED
  BY <1>1, <1>2, <1>3, <1>4, <1>5, <1>6, <1>7, <1>8 DEF Before

LEMMA PartsStay ==
  ASSUME Sound, GoesOn
  PROVE  /\ UNCHANGED <<reg, cart_data>>
         /\ TimerBit(interrupt_flag) => TimerBit(interrupt_flag)'
         /\ \A p : Waiting(p) => Waiting(p)'
         /\ WritesAreOver => WritesAreOver' /\ tma' = tma
         /\ (Draining => Draining') /\ (DrainingAgain => DrainingAgain')
         /\ Four => Gone' \/ Four'
         /\ \A d : \A t \in Reported : Before(t, d) => Gone' \/ Before(t, d)'
<1>1. CASE UNCHANGED systemVars
  BY <1>1, NothingChanges
<1>2. CASE InstructionGoesOn
  <2>1. TimerBit(interrupt_flag) => TimerBit(interrupt_flag)'
    BY <1>2, GoingOnRaises DEF TimerBit
  <2>2. \A p : Waiting(p) => Waiting(p)'
    BY <1>2, WaitingStays
  <2>3. WritesAreOver => WritesAreOver' /\ tma' = tma
    BY <1>2, WritesStayOver
  <2>4. \A d : \A t \in Reported : Before(t, d) => Gone' \/ Before(t, d)'
    BY <1>2, BeforeStays
  <2> QED
    BY <1>2, <2>1, <2>2, <2>3, <2>4, GoingOnRaises, DrainingStays, FourStays
<1> QED
  BY <1>1, <1>2 DEF GoesOn

LEMMA PcStays ==
  ASSUME Sound, GoesOn, NEW p, NEW t \in Reported, NEW d
  PROVE  /\ PcIs(p, t, d) => Gone' \/ PcIs(p, t, d)'
         /\ \A a : PcAndA(p, a, t, d) => Gone' \/ PcAndA(p, a, t, d)'
<1>1. reg' = reg /\ (Before(t, d) => Gone' \/ Before(t, d)')
  BY PartsStay
<1> QED
  BY <1>1 DEF PcIs, PcAndA

LEMMA PollWaits ==
  ASSUME Sound, GoesOn, PollPoint
  PROVE  Gone' \/ PollPoint'
<1>1. {0, 8, 20, 28, 40} \subseteq Reported
  BY DEF Reported
<1>3. PcIs(256, 0, Fresh) => Gone' \/ PcIs(256, 0, Fresh)'
  BY <1>1, PcStays
<1>4. PcAndA(258, 7, 8, Fresh) => Gone' \/ PcAndA(258, 7, 8, Fresh)'
  BY <1>1, PcStays
<1>5. PcIs(260, 20, Seen(Off, 7, 0, 0)) => Gone' \/ PcIs(260, 20, Seen(Off, 7, 0, 0))'
  BY <1>1, PcStays
<1>6. PcAndA(262, 5, 28, Seen(Off, 7, 0, 0)) =>
        Gone' \/ PcAndA(262, 5, 28, Seen(Off, 7, 0, 0))'
  BY <1>1, PcStays
<1>7. PcIs(264, 40, Seen(TacOf(5), 7, 0, 2)) =>
        Gone' \/ PcIs(264, 40, Seen(TacOf(5), 7, 0, 2))'
  BY <1>1, PcStays
<1>8. (Waiting(264) /\ WritesAreOver /\ tma = 7) =>
        (Waiting(264) /\ WritesAreOver /\ tma = 7)'
  BY PartsStay
<1> QED
  BY <1>3, <1>4, <1>5, <1>6, <1>7, <1>8 DEF PollPoint

LEMMA PollSilentlyWaits ==
  ASSUME Sound, GoesOn, PollSilentlyPoint
  PROVE  Gone' \/ PollSilentlyPoint'
<1>1. {0, 8, 20} \subseteq Reported
  BY DEF Reported
<1>2. reg' = reg
  BY PartsStay
<1>3. PcIs(256, 0, Fresh) => Gone' \/ PcIs(256, 0, Fresh)'
  BY <1>1, PcStays
<1>4. PcAndA(258, 5, 8, Fresh) => Gone' \/ PcAndA(258, 5, 8, Fresh)'
  BY <1>1, PcStays
<1>5. PcIs(260, 20, Seen(TacOf(5), 0, 0, 2)) =>
        Gone' \/ PcIs(260, 20, Seen(TacOf(5), 0, 0, 2))'
  BY <1>1, PcStays
<1>6. (PcIs(262, 20, Seen(TacOf(5), 0, 0, 2)) /\ ~TimerBit(reg["A"])) =>
        Gone' \/ (PcIs(262, 20, Seen(TacOf(5), 0, 0, 2)) /\ ~TimerBit(reg["A"]))'
  <2>1. PcIs(262, 20, Seen(TacOf(5), 0, 0, 2)) => Gone' \/ PcIs(262, 20, Seen(TacOf(5), 0, 0, 2))'
    BY <1>1, PcStays
  <2>2. ~TimerBit(reg["A"]) => (~TimerBit(reg["A"]))'
    BY <1>2, Zenon DEF TimerBit
  <2> QED
    BY <2>1, <2>2
<1>7. (PcIs(264, 20, Seen(TacOf(5), 0, 0, 2)) /\ Zero) =>
        Gone' \/ (PcIs(264, 20, Seen(TacOf(5), 0, 0, 2)) /\ Zero)'
  <2>1. PcIs(264, 20, Seen(TacOf(5), 0, 0, 2)) => Gone' \/ PcIs(264, 20, Seen(TacOf(5), 0, 0, 2))'
    BY <1>1, PcStays
  <2>2. Zero => Zero'
    BY <1>2, Zenon DEF Zero
  <2> QED
    BY <2>1, <2>2
<1> QED
  BY <1>3, <1>4, <1>5, <1>6, <1>7 DEF PollSilentlyPoint

LEMMA PollTwiceWaits ==
  ASSUME Sound, GoesOn, PollTwicePoint
  PROVE  Gone' \/ PollTwicePoint'
<1>1. {0, 8, 20, 28, 40, 48, 60} \subseteq Reported
  BY DEF Reported
<1>3. PcIs(256, 0, Fresh) => Gone' \/ PcIs(256, 0, Fresh)'
  BY <1>1, PcStays
<1>4. PcAndA(258, 7, 8, Fresh) => Gone' \/ PcAndA(258, 7, 8, Fresh)'
  BY <1>1, PcStays
<1>5. PcIs(260, 20, Seen(Off, 7, 0, 0)) => Gone' \/ PcIs(260, 20, Seen(Off, 7, 0, 0))'
  BY <1>1, PcStays
<1>6. PcAndA(262, 5, 28, Seen(Off, 7, 0, 0)) =>
        Gone' \/ PcAndA(262, 5, 28, Seen(Off, 7, 0, 0))'
  BY <1>1, PcStays
<1>7. PcIs(264, 40, Seen(TacOf(5), 7, 0, 2)) =>
        Gone' \/ PcIs(264, 40, Seen(TacOf(5), 7, 0, 2))'
  BY <1>1, PcStays
<1>8. PcAndA(266, 0, 48, Seen(TacOf(5), 7, 0, 2)) =>
        Gone' \/ PcAndA(266, 0, 48, Seen(TacOf(5), 7, 0, 2))'
  BY <1>1, PcStays
<1>9. PcIs(268, 60, Seen(Off, 7, 0, 2)) => Gone' \/ PcIs(268, 60, Seen(Off, 7, 0, 2))'
  BY <1>1, PcStays
<1>10. (Waiting(268) /\ Draining) => (Waiting(268) /\ Draining)'
  BY PartsStay
<1>11. (reg["PC"] = 276 /\ reg["A"] = 1 /\ TimerBit(interrupt_flag) /\ Draining) =>
         (reg["PC"] = 276 /\ reg["A"] = 1 /\ TimerBit(interrupt_flag) /\ Draining)'
  BY PartsStay
<1>12. (Waiting(278) /\ DrainingAgain) => (Waiting(278) /\ DrainingAgain)'
  BY PartsStay
<1> QED
  BY <1>3, <1>4, <1>5, <1>6, <1>7, <1>8, <1>9, <1>10, <1>11, <1>12 DEF PollTwicePoint

LEMMA PushAndDecrementWaits ==
  ASSUME Sound, GoesOn, PushAndDecrementPoint
  PROVE  Gone' \/ PushAndDecrementPoint'
<1>1. {0, 12, 24, 40, 52, 64, 72, 84} \subseteq Reported
  BY DEF Reported
<1>2. reg' = reg
  BY PartsStay
<1>3. PcIs(256, 0, Fresh) => Gone' \/ PcIs(256, 0, Fresh)'
  BY <1>1, PcStays
<1>4. (PcIs(259, 12, Fresh) /\ reg["SP"] = 65288) =>
        Gone' \/ (PcIs(259, 12, Fresh) /\ reg["SP"] = 65288)'
  <2>1. PcIs(259, 12, Fresh) => Gone' \/ PcIs(259, 12, Fresh)'
    BY <1>1, PcStays
  <2>2. (reg["SP"] = 65288) => (reg["SP"] = 65288)'
    BY <1>2
  <2> QED
    BY <2>1, <2>2
<1>5. (PcIs(262, 24, Fresh) /\ reg["SP"] = 65288 /\ reg["B"] = 5 /\ reg["C"] = 9) =>
        Gone' \/ (PcIs(262, 24, Fresh) /\ reg["SP"] = 65288 /\ reg["B"] = 5
          /\ reg["C"] = 9)'
  <2>1. PcIs(262, 24, Fresh) => Gone' \/ PcIs(262, 24, Fresh)'
    BY <1>1, PcStays
  <2>2. (reg["SP"] = 65288 /\ reg["B"] = 5 /\ reg["C"] = 9) =>
          (reg["SP"] = 65288 /\ reg["B"] = 5 /\ reg["C"] = 9)'
    BY <1>2
  <2> QED
    BY <2>1, <2>2
<1>6. PcIs(263, 40, Seen(TacOf(5), 9, 0, 2)) =>
        Gone' \/ PcIs(263, 40, Seen(TacOf(5), 9, 0, 2))'
  BY <1>1, PcStays
<1>7. (PcIs(266, 52, Seen(TacOf(5), 9, 0, 2)) /\ reg["H"] = 255 /\ reg["L"] = 5) =>
        Gone' \/ (PcIs(266, 52, Seen(TacOf(5), 9, 0, 2)) /\ reg["H"] = 255 /\ reg["L"] = 5)'
  <2>1. PcIs(266, 52, Seen(TacOf(5), 9, 0, 2)) => Gone' \/ PcIs(266, 52, Seen(TacOf(5), 9, 0, 2))'
    BY <1>1, PcStays
  <2>2. (reg["H"] = 255 /\ reg["L"] = 5) => (reg["H"] = 255 /\ reg["L"] = 5)'
    BY <1>2
  <2> QED
    BY <2>1, <2>2
<1>8. PcIs(267, 64, Seen(TacOf(5), 9, 254, 2)) =>
        Gone' \/ PcIs(267, 64, Seen(TacOf(5), 9, 254, 2))'
  BY <1>1, PcStays
<1>9. PcAndA(269, 65, 72, Seen(TacOf(5), 9, 254, 2)) =>
        Gone' \/ PcAndA(269, 65, 72, Seen(TacOf(5), 9, 254, 2))'
  BY <1>1, PcStays
<1>10. PcIs(271, 84, Seen(TacOf(5), 9, 254, 2)) =>
         Gone' \/ PcIs(271, 84, Seen(TacOf(5), 9, 254, 2))'
  BY <1>1, PcStays
<1> QED
  BY <1>3, <1>4, <1>5, <1>6, <1>7, <1>8, <1>9, <1>10 DEF PushAndDecrementPoint

LEMMA JumpWaits ==
  ASSUME Sound, GoesOn, JumpPoint
  PROVE  Gone' \/ JumpPoint'
<1>1. {0, 8, 20} \subseteq Reported
  BY DEF Reported
<1>2. reg' = reg
  BY PartsStay
<1>3. PcIs(256, 0, Fresh) => Gone' \/ PcIs(256, 0, Fresh)'
  BY <1>1, PcStays
<1>4. PcAndA(258, 4, 8, Fresh) => Gone' \/ PcAndA(258, 4, 8, Fresh)'
  BY <1>1, PcStays
<1>5. PcIs(260, 20, Seen(TacOf(4), 0, 0, 2)) =>
        Gone' \/ PcIs(260, 20, Seen(TacOf(4), 0, 0, 2))'
  BY <1>1, PcStays
<1>6. reg["PC"] = 51376 => (reg["PC"] = 51376)'
  BY <1>2
<1> QED
  BY <1>3, <1>4, <1>5, <1>6 DEF JumpPoint, JumpBegins

LEMMA TogglingWaits ==
  ASSUME Sound, GoesOn, TogglingPoint
  PROVE  Gone' \/ TogglingPoint'
<1>1. {0, 8, 20, 28, 40, 48, 60, 68, 80} \subseteq Reported
  BY DEF Reported
<1>3. PcIs(256, 0, Fresh) => Gone' \/ PcIs(256, 0, Fresh)'
  BY <1>1, PcStays
<1>4. PcAndA(258, 5, 8, Fresh) => Gone' \/ PcAndA(258, 5, 8, Fresh)'
  BY <1>1, PcStays
<1>5. PcIs(260, 20, Seen(TacOf(5), 0, 0, 2)) =>
        Gone' \/ PcIs(260, 20, Seen(TacOf(5), 0, 0, 2))'
  BY <1>1, PcStays
<1>6. PcAndA(262, 6, 28, Seen(TacOf(5), 0, 0, 2)) =>
        Gone' \/ PcAndA(262, 6, 28, Seen(TacOf(5), 0, 0, 2))'
  BY <1>1, PcStays
<1>7. PcIs(264, 40, Seen(TacOf(5), 0, 0, 2)) =>
        Gone' \/ PcIs(264, 40, Seen(TacOf(5), 0, 0, 2))'
  BY <1>1, PcStays
<1>8. PcAndA(266, 2, 48, Seen(TacOf(5), 0, 0, 2)) =>
        Gone' \/ PcAndA(266, 2, 48, Seen(TacOf(5), 0, 0, 2))'
  BY <1>1, PcStays
<1>9. PcIs(268, 60, Seen(TacOf(2), 0, 0, 2)) =>
        Gone' \/ PcIs(268, 60, Seen(TacOf(2), 0, 0, 2))'
  BY <1>1, PcStays
<1>10. PcAndA(270, 7, 68, Seen(TacOf(2), 0, 0, 2)) =>
         Gone' \/ PcAndA(270, 7, 68, Seen(TacOf(2), 0, 0, 2))'
  BY <1>1, PcStays
<1>11. PcIs(272, 80, Seen(TacOf(7), 0, 0, 4)) =>
         Gone' \/ PcIs(272, 80, Seen(TacOf(7), 0, 0, 4))'
  BY <1>1, PcStays
<1> QED
  BY <1>3, <1>4, <1>5, <1>6, <1>7, <1>8, <1>9, <1>10, <1>11 DEF TogglingPoint

LEMMA ProgramWaits ==
  ASSUME Sound, GoesOn, PointOfProgram
  PROVE  Gone' \/ PointOfProgram'
<1>1. cart_data' = cart_data
  BY PartsStay
<1>2. ToggleAndPollPoint => Gone' \/ ToggleAndPollPoint'
  BY TogglingWaits, PartsStay DEF ToggleAndPollPoint
<1> QED
  BY <1>1, <1>2, PollWaits, PollSilentlyWaits, PollTwiceWaits, PushAndDecrementWaits,
     JumpWaits, TogglingWaits DEF PointOfProgram

(* A program is at one of its points from the reset on until it is over,   *)
(* and what it leaves behind is what it was to leave.                      *)
ProgramInv ==
  \/ cart_data = <<>>
  \/ /\ cart_data \in RunnerRoms
     /\ critical => AtRest /\ DevicesHoldWhatWasWritten
     /\ place \in {"fopen", "while"} /\ ~critical /\ ~Gone => PointOfProgram

LEMMA PointOfFirst ==
  ASSUME cart_data' \in RunnerRoms, cart_data' # <<>>, PcIs(256, 0, Fresh)'
  PROVE  PointOfProgram'
BY DEF RunnerRoms, PointOfProgram, PollPoint, PollSilentlyPoint, PollTwicePoint,
   PushAndDecrementPoint, TogglingPoint, JumpPoint, JumpBegins, ToggleAndPollPoint

LEMMA ProgramBegins ==
  ASSUME ResetSystem, TimerIsFresh, TypedAndFetched
  PROVE  PcIs(256, 0, Fresh)' /\ ~critical' /\ cart_data' = cart_data
<1>1. SystemReset /\ T!TimerInit
  BY DEF ResetSystem, TimerIsFresh, Early
<1>2. reg' = ResetRegisters /\ critical' = FALSE /\ UNCHANGED <<cart_data, interrupt_flag>>
  BY <1>1 DEF SystemReset, CpuReset, Finish, NoWrite, busVars
<1>3. reg'["PC"] = 256
  BY <1>2 DEF ResetRegisters, R16
<1>4. /\ pc' = "idle" /\ calls' = <<>> /\ elapsed' = 0 /\ heap_size' = 0
      /\ tima' = 0 /\ tma' = 0 /\ new_tac' = Off
  BY <1>1 DEF SystemReset, T!SystemReset, T!Reset, T!TimerInit, T!Init, T!control,
     T!registers, Off
<1>5. ~TimerBit(interrupt_flag)'
  <2>1. TimerBit(interrupt_flag) = FALSE
    BY <1>1 DEF T!TimerInit
  <2> QED
    BY <1>2, <2>1 DEF TimerBit
<1>6. Len(calls') = 0
  BY <1>4, EmptySeq
<1>7. Outcome' = Fresh
  BY <1>4, <1>6 DEF Outcome, Now, ToInsert, Fresh, Seen
<1>8. NoneIsDue'
  BY <1>4 DEF NoneIsDue, AllFar
<1> QED
  BY <1>2, <1>3, <1>4, <1>5, <1>6, <1>7, <1>8 DEF PcIs, Before

(* The programs differ: each holds its own name.                           *)
LEMMA JumpOnlyJumps ==
  ASSUME cart_data = JumpToEnd, PointOfProgram
  PROVE  JumpPoint
<1>1. Called(6)
  BY JumpCode
<1>2. /\ cart_data = Poll => Called(1)
      /\ cart_data = PollSilently => Called(2)
      /\ cart_data = PollTwice => Called(3)
      /\ cart_data = PushAndDecrement => Called(4)
      /\ cart_data = Toggle => Called(5)
      /\ cart_data = ToggleAndPoll => Called(7)
  BY PollCode, PollSilentlyCode, PollTwiceCode, PushAndDecrementCode, ToggleCode,
     ToggleAndPollCode
<1> QED
  BY <1>1, <1>2 DEF PointOfProgram, Called

LEMMA ProgramStandsStill ==
  ASSUME Sound, ProgramInv, UNCHANGED systemVars,
         place' \in {"fopen", "while"} => place \in {"fopen", "while"}
  PROVE  ProgramInv'
<1>1. UNCHANGED <<cart_data, critical, interrupt_flag, tac, tma, tima, heap_size, pc, calls>>
  BY DEF systemVars, vars, busVars, cpuVars, timerVars, queue, control, registers
<1>2. PointOfProgram => Gone' \/ PointOfProgram'
  BY ProgramWaits DEF GoesOn
<1>3. DevicesHoldWhatWasWritten => DevicesHoldWhatWasWritten'
  BY <1>1 DEF DevicesHoldWhatWasWritten, Name, TimerBit
<1> QED
  BY <1>1, <1>2, <1>3 DEF ProgramInv, AtRest, Gone

LEMMA ProgramSetsUp ==
  ASSUME Roms \subseteq RunnerRoms, Sound, MainInv, TimerIsFresh, ProgramInv,
         OpenFails \/ ReadIntoNull \/ OpenRom \/ SetLogLevelCb \/ SetCart
           \/ ResetSystem \/ OpenTrace
  PROVE  ProgramInv'
<1>1. CASE OpenFails \/ ReadIntoNull
  BY <1>1, ProgramStandsStill DEF OpenFails, ReadIntoNull
<1>2. CASE OpenRom \/ SetLogLevelCb
  <2>1. place' \in {"INFO", "WARNING", "CRITICAL", "set_cart_data"}
    BY <1>2, MainOrder DEF OpenRom, SetLogLevelCb, Levels
  <2> QED
    BY <1>2, <2>1, ProgramStandsStill DEF OpenRom, SetLogLevelCb
<1>3. CASE OpenTrace
  BY <1>3, ProgramStandsStill DEF OpenTrace
<1>4. CASE SetCart
  <2>1. cart_data' \in RunnerRoms /\ place' = "system_reset" /\ critical' = critical
    BY <1>4, MainOrder DEF SetCart, SetCartData, cpuVars
  <2>2. ~critical
    BY <1>4 DEF SetCart, MainInv, Early
  <2> QED
    BY <2>1, <2>2 DEF ProgramInv
<1>5. CASE ResetSystem
  BY <1>5, ProgramBegins, PointOfFirst, SMTT(30) DEF ProgramInv, Sound
<1> QED
  BY <1>1, <1>2, <1>3, <1>4, <1>5

LEMMA ProgramRuns ==
  ASSUME Sound, MainInv, ProgramInv, StepSystem
  PROVE  ProgramInv'
<1>1. /\ AtRest /\ running /\ place = "while" /\ Step /\ CpuStep
  BY DEF StepSystem, LoopRuns, Step
<1>2. ~critical /\ ~Gone
  BY <1>1 DEF MainInv, AtRest, Gone
<1>3. cart_data' = cart_data
  BY <1>1, CartridgeStays
<1>4. CASE cart_data = <<>>
  BY <1>3, <1>4 DEF ProgramInv
<1>5. CASE cart_data # <<>>
  <2>1. PointOfProgram /\ cart_data \in RunnerRoms
    BY <1>1, <1>2, <1>5 DEF ProgramInv
  <2>2. cart_data = JumpToEnd => JumpBegins
    <3>1. reg["PC"] # 51376
      BY DEF StepSystem
    <3> QED
      BY <2>1, <3>1, JumpOnlyJumps, JumpGoesOn
  <2>3. (PointOfProgram' /\ Onward) \/ Finishes
    BY <1>1, <2>1, <2>2, ProgramSteps DEF Begins
  <2> QED
    BY <1>3, <2>1, <2>3 DEF ProgramInv, Onward, Finishes
<1> QED
  BY <1>4, <1>5

LEMMA ProgramGoesOn ==
  ASSUME Sound, ProgramInv, StepGoesOn
  PROVE  ProgramInv'
<1>1. InstructionGoesOn /\ place = "while" /\ place' = "while"
  BY DEF StepGoesOn, mainVars
<1>2. ~AtRest /\ ~Gone /\ UNCHANGED <<cart_data, critical>>
  BY <1>1, CpuStandsStill, GoneIsOver, GoingOnRaises
<1>3. PointOfProgram => Gone' \/ PointOfProgram'
  BY <1>1, ProgramWaits DEF GoesOn
<1> QED
  BY <1>1, <1>2, <1>3 DEF ProgramInv

LEMMA ProgramStays ==
  ASSUME Roms \subseteq RunnerRoms, Sound, MainInv, TimerIsFresh, ProgramInv,
         [MainNext]_runnerVars
  PROVE  ProgramInv'
<1>1. CASE TraceIntoNull \/ KnownEnd \/ Exit
  BY <1>1, ProgramStandsStill DEF TraceIntoNull, KnownEnd, Exit, LoopRuns
<1>2. CASE UNCHANGED runnerVars
  BY <1>2, ProgramStandsStill DEF runnerVars, mainVars
<1> QED
  BY <1>1, <1>2, ProgramSetsUp, ProgramRuns, ProgramGoesOn DEF MainNext

(* For every width of the clock, every size of the queue and every place   *)
(* of the events that are passed to it, however the handlers fall between  *)
(* the instructions: a program that got to its end finds what it wrote in  *)
(* the registers that it wrote it to, and left its wait for an overflow.   *)
THEOREM DevicesAreRight ==
  Address = Word /\ Roms \subseteq RunnerRoms /\ FarAddresses =>
    (MainSpec => []DevicesHoldWhatWasWritten)
<1> SUFFICES ASSUME Address = Word, Roms \subseteq RunnerRoms, FarAddresses
             PROVE  MainSpec => []DevicesHoldWhatWasWritten
  OBVIOUS
<1>1. MainSpec => [](TP!TimerTypeOK /\ TP!ClockAtRest /\ TP!TimerInv)
  BY SystemImplementsTimer, TimerIsTyped, PTL DEF ImplementsTimer
<1>2. TypedAndFetched /\ ClockInv /\ TP!ClockAtRest /\ TP!TimerTypeOK /\ TP!TimerInv => Sound
  BY DEF Sound
<1>3. MainInit => ProgramInv
  BY DEF MainInit, SystemInit, ProgramInv
<1>4. Sound /\ MainInv /\ TimerIsFresh /\ ProgramInv /\ [MainNext]_runnerVars => ProgramInv'
  BY ProgramStays
<1>5. ProgramInv => DevicesHoldWhatWasWritten
  BY DEF ProgramInv, DevicesHoldWhatWasWritten, Name
<1>6. (MainSpec => [](ClockInv /\ TP!ClockAtRest)) /\ (MainSpec => []TypedAndFetched)
        /\ (MainSpec => []TimerIsFresh)
  BY RunnerCounts, RunnerIsTyped, FreshUntilReset
<1> QED
  BY <1>1, <1>2, <1>3, <1>4, <1>5, <1>6, MainStays, PTL DEF MainSpec
=============================================================================
