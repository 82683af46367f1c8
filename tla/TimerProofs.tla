---------------------------- MODULE TimerProofs -----------------------------
(***************************************************************************)
(* Results about Timer, for every size of its constants.                   *)
(*                                                                         *)
(* Every step of the timer and of whoever writes its registers is a step   *)
(* of Scheduler or leaves its variables alone: what SchedulerProofs shows  *)
(* for an open caller holds for this one, and gives the types of its       *)
(* variables and the clock between two calls.                              *)
(*                                                                         *)
(* An enabled timer keeps two events.  The invariant that carries it says  *)
(* how many events each place of the code is sure of, and that the new     *)
(* value of TAC is known before TAC is set.                                *)
(***************************************************************************)
EXTENDS Timer, TLAPS

LEMMA InitMaps == TimerInit => Sched!Init
  BY DEF TimerInit, Init, SchedulerPlace, Cells, Front, Slots, ZeroEvent,
         NullFunction, FirstType, Sched!Init, Sched!Cells, Sched!Front, Sched!Slots,
         Sched!ZeroEvent, Sched!NullFunction, Sched!FirstType

(* An insertion by the timer is one by Scheduler's caller, from the place  *)
(* and to the place that the mapping gives.                                *)
LEMMA InsertMaps ==
  ASSUME NEW address \in Addresses,
         NEW from \in {"idle", "callback", "tac_overflow"},
         NEW to \in {"tac_overflow", "tac_set", "returned"},
         (from = "callback") <=> (to = "returned"),
         InsertEvent(address, from, to)
  PROVE  Sched!ClientInserts
<1> DEFINE place == IF from = "callback" THEN "callback" ELSE "idle"
<1>1. place \in {"idle", "callback"} /\ SchedulerPlace(pc) = place
  BY DEF InsertEvent, SchedulerPlace
<1>2. CASE heap_size = MAX_EVENTS - 1 /\ AssertFails
  <2>1. Sched!AssertFails
    BY <1>2 DEF AssertFails, Sched!AssertFails, queue, clock, Sched!queue,
                Sched!clock, SchedulerPlace
  <2> QED
    BY <1>1, <1>2, <2>1 DEF Sched!ClientInserts, Sched!InsertEvent
<1>3. CASE heap_size # MAX_EVENTS - 1
  <2>1. PICK words \in StaleWords : CopyParameter(address, words)
    BY <1>3 DEF InsertEvent
  <2>2. Sched!CopyParameter(address, words)
    BY <2>1 DEF CopyParameter, Sched!CopyParameter
  <2>3. /\ pc' = "up" /\ at' = heap_size /\ ret' = to
        /\ UNCHANGED <<heap_size, clock, ordered>>
    BY <1>3 DEF InsertEvent
  <2>4. /\ SchedulerPlace(pc)' = "up" /\ SchedulerPlace(ret)' = place
        /\ UNCHANGED <<heap_size, Sched!clock, ordered>>
    BY <2>3 DEF SchedulerPlace, clock, Sched!clock
  <2> QED
    BY <1>1, <1>3, <2>2, <2>3, <2>4 DEF Sched!ClientInserts, Sched!InsertEvent
<1> QED
  BY <1>2, <1>3 DEF InsertEvent

(* The steps inside the scheduler are its own, under the mapping.          *)
LEMMA MachineryMaps == Machinery => Sched!Next
<1>1. SiftUp => Sched!SiftUp
  BY DEF SiftUp, InsertReturns, SwapWith, get_parent_node, Slots, clock,
         Sched!SiftUp, Sched!InsertReturns, Sched!SwapWith,
         Sched!get_parent_node, Sched!Slots, Sched!clock, SchedulerPlace
<1>2. SiftUpRoot => Sched!SiftUpRoot
  BY DEF SiftUpRoot, InsertReturns, ContentsOf, SwapWith, Front, Slots, clock,
         Sched!SiftUpRoot, Sched!InsertReturns, Sched!ContentsOf, Sched!SwapWith,
         Sched!Front, Sched!Slots, Sched!clock, SchedulerPlace
<1>3. SiftUpFront => Sched!SiftUpFront
  BY DEF SiftUpFront, InsertReturns, Front, clock, Sched!SiftUpFront,
         Sched!InsertReturns, Sched!Front, Sched!clock, SchedulerPlace
<1>4. CallCallback => Sched!CallCallback
  BY DEF CallCallback, EventIsDue, queue, clock, Sched!CallCallback,
         Sched!EventIsDue, Sched!queue, Sched!clock, SchedulerPlace
<1>5. SiftDown => Sched!SiftDown
  BY DEF SiftDown, DeleteReturns, ContentsOf, SwapWith, get_left_child_of_node,
         get_right_child_of_node, Slots, clock,
         Sched!SiftDown, Sched!DeleteReturns, Sched!ContentsOf, Sched!SwapWith,
         Sched!get_left_child_of_node, Sched!get_right_child_of_node,
         Sched!Slots, Sched!clock, SchedulerPlace
<1>6. StepReturns => Sched!StepReturns
  BY DEF StepReturns, EventIsDue, queue, Sched!StepReturns,
         Sched!EventIsDue, Sched!queue, SchedulerPlace
<1> QED
  BY <1>1, <1>2, <1>3, <1>4, <1>5, <1>6 DEF Machinery, Sched!Machinery, Sched!Next

LEMMA SchedulerStepsMap == SchedulerSteps => Sched!Next
<1>1. AddCycles => Sched!AddCycles
  BY DEF AddCycles, queue, Sched!AddCycles, Sched!queue, SchedulerPlace
<1>2. DeleteMin("returned") => Sched!DeleteMin("callback")
  BY DEF DeleteMin, Sched!DeleteMin, SchedulerPlace
<1> QED
  BY <1>1, <1>2, MachineryMaps DEF SchedulerSteps, Sched!Next

(* A handler inserts its event, or returns without the scheduler seeing it.*)
LEMMA HandlersMap ==
  HandleTimaIncrement \/ HandleTimaOverflow =>
    Sched!Next \/ UNCHANGED Sched!vars
<1> SUFFICES ASSUME pc = "callback", InsertAgainIfEnabled
             PROVE  Sched!Next \/ UNCHANGED Sched!vars
  BY DEF HandleTimaIncrement, HandleTimaOverflow, ReloadTima
<1>1. CASE insert_timer_event("callback", "returned")
  BY <1>1, InsertMaps DEF insert_timer_event, Sched!Next
<1>2. CASE pc' = "returned" /\ UNCHANGED <<queue, clock, at, ret, ordered>>
  BY <1>2 DEF queue, clock, Sched!vars, Sched!queue, Sched!clock,
              Sched!control, SchedulerPlace
<1> QED
  BY <1>1, <1>2 DEF InsertAgainIfEnabled

LEMMA WritesMap ==
  TacEnable \/ TacInsertOverflow \/ TacSet \/ TacDisable
    \/ TimaWrite \/ TmaWrite \/ InterruptFlagWrite \/ TimerReset =>
  Sched!Next \/ UNCHANGED Sched!vars
<1>1. TacEnable \/ TacInsertOverflow => Sched!Next
  BY InsertMaps DEF TacEnable, TacInsertOverflow, insert_timer_event, Sched!Next
<1>2. TacSet => UNCHANGED Sched!vars
  BY DEF TacSet, queue, clock, Sched!vars, Sched!queue, Sched!clock,
         Sched!control, SchedulerPlace
<1>3. TacDisable \/ TimaWrite \/ TmaWrite \/ InterruptFlagWrite \/ TimerReset =>
        UNCHANGED Sched!vars
  BY DEF TacDisable, TimaWrite, TmaWrite, InterruptFlagWrite, TimerReset,
         vars, queue, clock, control, Sched!vars, Sched!queue, Sched!clock,
         Sched!control
<1> QED
  BY <1>1, <1>2, <1>3

LEMMA ResetMaps == SystemReset => Sched!Next
  BY DEF SystemReset, Reset, control, Cells, Front, Slots, ZeroEvent, NullFunction,
         FirstType, Sched!Next, Sched!Reset, Sched!control, Sched!Cells, Sched!Front,
         Sched!Slots, Sched!ZeroEvent,
         Sched!NullFunction, Sched!FirstType, SchedulerPlace

(* Everything the timer and its callers do, the scheduler's open caller may*)
(* do: timer.c keeps to the interface of scheduler.c.                      *)
THEOREM TimerImplementsScheduler == ApiSpec => ImplementsScheduler
<1>1. ApiNext => Sched!Next \/ UNCHANGED Sched!vars
  BY SchedulerStepsMap, HandlersMap, WritesMap, ResetMaps
  DEF ApiNext, RunnerNext
<1>2. UNCHANGED timerVars => UNCHANGED Sched!vars
  BY DEF timerVars, vars, queue, clock, control, Sched!vars, Sched!queue,
         Sched!clock, Sched!control
<1>3. [ApiNext]_timerVars => [Sched!Next]_(Sched!vars)
  BY <1>1, <1>2
<1> QED
  BY InitMaps, <1>3, PTL DEF ApiSpec, ImplementsScheduler, Sched!Spec

-----------------------------------------------------------------------------
LEMMA TimerInitHolds == TimerInit => TimerInv
  BY DEF TimerInit, Init, TimerInv, Tac, Clock, PlacesAgree,
         StopsAreExplained, TimerKeepsItsEvents, Enabling, Firing, Stopped

(* An insertion that begins moves control into the scheduler, or stops the *)
(* program; the count changes when it returns.                             *)
LEMMA InsertionBegins ==
  ASSUME NEW from, NEW to, insert_timer_event(from, to)
  PROVE  /\ pc = from
         /\ \/ /\ pc' = "aborted" /\ heap_size = MAX_EVENTS - 1
               /\ UNCHANGED <<heap_size, ret>>
            \/ pc' = "up" /\ ret' = to /\ UNCHANGED heap_size
  BY DEF insert_timer_event, InsertEvent, AssertFails, queue

LEMMA MachinerySteps ==
  Machinery =>
    \/ pc = "up" /\ pc' = "up" /\ UNCHANGED <<heap_size, ret>>
    \/ pc = "up" /\ pc' = ret /\ heap_size' = heap_size + 1 /\ UNCHANGED ret
    \/ /\ pc = "loop" /\ pc' \in {"callback", "crashed", "idle"}
       /\ pc' = "callback" => heap_size > 0
       /\ pc' = "crashed" => EventIsDue' /\ events'[0].cb \notin Callbacks
       /\ UNCHANGED <<heap_size, ret>>
    \/ pc = "down" /\ pc' \in {"down", "loop"} /\ UNCHANGED <<heap_size, ret>>
<1>1. SiftUp \/ SiftUpRoot \/ SiftUpFront =>
        \/ pc = "up" /\ pc' = "up" /\ UNCHANGED <<heap_size, ret>>
        \/ pc = "up" /\ pc' = ret /\ heap_size' = heap_size + 1 /\ UNCHANGED ret
  BY DEF SiftUp, SiftUpRoot, SiftUpFront, InsertReturns
<1>2. CallCallback \/ StepReturns =>
        /\ pc = "loop" /\ pc' \in {"callback", "crashed", "idle"}
        /\ pc' = "callback" => heap_size > 0
        /\ pc' = "crashed" => EventIsDue' /\ events'[0].cb \notin Callbacks
        /\ UNCHANGED <<heap_size, ret>>
  BY DEF CallCallback, StepReturns, EventIsDue, queue, clock
<1>3. SiftDown => pc = "down" /\ pc' \in {"down", "loop"} /\ UNCHANGED <<heap_size, ret>>
  BY DEF SiftDown, DeleteReturns
<1> QED
  BY <1>1, <1>2, <1>3 DEF Machinery

LEMMA WritesPreserve ==
  TimerInv /\ (TacEnable \/ TacInsertOverflow \/ TacSet \/ TacDisable
                \/ TimaWrite \/ TmaWrite \/ InterruptFlagWrite) => TimerInv'
<1> SUFFICES ASSUME TimerInv
             PROVE  (TacEnable \/ TacInsertOverflow \/ TacSet \/ TacDisable
                     \/ TimaWrite \/ TmaWrite \/ InterruptFlagWrite) => TimerInv'
  OBVIOUS
<1> USE DEF TimerInv, PlacesAgree, StopsAreExplained, TimerKeepsItsEvents, Enabling, Firing, Stopped
<1>1. TacEnable => TimerInv'
  <2> SUFFICES ASSUME TacEnable
               PROVE  TimerInv'
    OBVIOUS
  <2>1. /\ ~tac.enabled /\ tac' = tac
        /\ new_tac' \in Tac /\ new_tac'.enabled
    BY DEF TacEnable, Tac
  <2>2. /\ pc = "idle"
        /\ \/ /\ pc' = "aborted" /\ heap_size = MAX_EVENTS - 1
              /\ UNCHANGED <<heap_size, ret>>
           \/ pc' = "up" /\ ret' = "tac_overflow" /\ UNCHANGED heap_size
    BY InsertionBegins DEF TacEnable
  <2> QED
    BY <2>1, <2>2
<1>2. TacInsertOverflow => TimerInv'
  BY InsertionBegins DEF TacInsertOverflow, registers
<1>3. TacSet => TimerInv'
  BY DEF TacSet, queue
<1>4. TacDisable => TimerInv'
  BY DEF TacDisable, vars, queue, control, Tac
<1>5. TimaWrite \/ TmaWrite \/ InterruptFlagWrite => TimerInv'
  BY DEF TimaWrite, TmaWrite, InterruptFlagWrite, vars, queue, control
<1> QED
  BY <1>1, <1>2, <1>3, <1>4, <1>5

LEMMA HandlersPreserve ==
  TimerInv /\ (HandleTimaIncrement \/ HandleTimaOverflow) => TimerInv'
<1> SUFFICES ASSUME TimerInv, pc = "callback", InsertAgainIfEnabled,
                    UNCHANGED <<tac, new_tac>>
             PROVE  TimerInv'
  BY DEF HandleTimaIncrement, HandleTimaOverflow, ReloadTima
<1> USE DEF TimerInv, PlacesAgree, StopsAreExplained, TimerKeepsItsEvents, Enabling, Firing, Stopped
<1>1. CASE tac.enabled /\ insert_timer_event("callback", "returned")
  BY <1>1, InsertionBegins
<1>2. CASE ~tac.enabled /\ pc' = "returned" /\ UNCHANGED <<queue, ret>>
  BY <1>2 DEF queue
<1> QED
  BY <1>1, <1>2 DEF InsertAgainIfEnabled

LEMMA SchedulerStepsPreserve == TimerInv /\ SchedulerSteps => TimerInv'
<1> SUFFICES ASSUME TimerInv, SchedulerSteps
             PROVE  TimerInv'
  OBVIOUS
<1> USE DEF TimerInv, PlacesAgree, StopsAreExplained, TimerKeepsItsEvents, Enabling, Firing, Stopped
<1>1. UNCHANGED <<tac, new_tac>>
  BY DEF SchedulerSteps, registers
<1>2. CASE AddCycles
  BY <1>1, <1>2 DEF AddCycles, queue
<1>3. CASE DeleteMin("returned")
  BY <1>1, <1>3 DEF DeleteMin
<1>4. CASE Machinery
  BY <1>1, <1>4, MachinerySteps
<1> QED
  BY <1>2, <1>3, <1>4 DEF SchedulerSteps

(* What each place of the code is sure of: how many events there are, and  *)
(* that TAC and the value it is about to get agree with the place.         *)
THEOREM TimerInvariance == RunnerSpec => []TimerInv
<1>1. TimerInv /\ UNCHANGED timerVars => TimerInv'
  BY DEF timerVars, vars, queue, clock, control, registers, TimerInv, PlacesAgree,
         StopsAreExplained, EventIsDue, TimerKeepsItsEvents, Enabling, Firing, Stopped
<1>2. TimerInv /\ [RunnerNext]_timerVars => TimerInv'
  BY <1>1, WritesPreserve, HandlersPreserve, SchedulerStepsPreserve DEF RunnerNext
<1> QED
  BY TimerInitHolds, <1>2, PTL DEF RunnerSpec

(* Between two instructions an enabled timer has its increment and its     *)
(* overflow event pending, however often it was switched and has fired.    *)
THEOREM EnabledTimerHasTwoEvents == RunnerSpec => []TimerKeepsItsEvents
  BY TimerInvariance, PTL DEF TimerInv

(* Nothing inserts an event while the timer is disabled and stays so.      *)
THEOREM DisabledTimerGainsNothing == RunnerSpec => DisabledTimerDrains
<1> DEFINE Drains == ~tac.enabled /\ ~new_tac'.enabled => heap_size' <= heap_size
<1>1. TimerInv /\ [RunnerNext]_timerVars => [Drains]_timerVars
  <2> SUFFICES ASSUME TimerInv, RunnerNext, ~tac.enabled, ~new_tac'.enabled
               PROVE  heap_size' <= heap_size
    OBVIOUS
  <2> USE DEF TimerInv
  <2>1. CASE TacEnable \/ TacInsertOverflow
    BY <2>1, InsertionBegins DEF TacEnable, TacInsertOverflow
  <2>2. CASE TacSet \/ TacDisable \/ TimaWrite \/ TmaWrite \/ InterruptFlagWrite
    BY <2>2 DEF TacSet, TacDisable, TimaWrite, TmaWrite, InterruptFlagWrite,
                vars, queue
  <2>3. CASE HandleTimaIncrement \/ HandleTimaOverflow
    BY <2>3, InsertionBegins
    DEF HandleTimaIncrement, HandleTimaOverflow, ReloadTima, InsertAgainIfEnabled, queue
  <2>4. CASE SchedulerSteps
    <3>1. new_tac' = new_tac
      BY <2>4 DEF SchedulerSteps, registers
    <3>2. CASE AddCycles \/ DeleteMin("returned")
      BY <3>2 DEF AddCycles, DeleteMin, queue
    <3>3. CASE Machinery
      <4>1. pc = "up" => ret \in {"tac_overflow", "tac_set"} /\ new_tac.enabled
        BY DEF PlacesAgree, Enabling
      <4> QED
        BY <3>1, <3>3, <4>1, MachinerySteps
    <3> QED
      BY <2>4, <3>2, <3>3 DEF SchedulerSteps
  <2> QED
    BY <2>1, <2>2, <2>3, <2>4 DEF RunnerNext
<1> QED
  BY <1>1, TimerInvariance, PTL DEF RunnerSpec, DisabledTimerDrains

-----------------------------------------------------------------------------
(* SchedulerProofs, read through the mapping.                              *)
SP == INSTANCE SchedulerProofs WITH
  pc <- SchedulerPlace(pc), ret <- SchedulerPlace(ret)

LEMMA SameMachinery == Sched!Machinery => SP!Machinery
<1>1. Sched!SiftUp => SP!SiftUp
  BY DEF Sched!SiftUp, Sched!InsertReturns, Sched!SwapWith, Sched!get_parent_node,
         Sched!Slots, Sched!clock, SP!SiftUp, SP!InsertReturns, SP!SwapWith,
         SP!get_parent_node, SP!Slots, SP!clock
<1>2. Sched!SiftUpRoot => SP!SiftUpRoot
  BY DEF Sched!SiftUpRoot, Sched!InsertReturns, Sched!ContentsOf, Sched!SwapWith,
         Sched!Front, Sched!Slots, Sched!clock, SP!SiftUpRoot, SP!InsertReturns,
         SP!ContentsOf, SP!SwapWith, SP!Front, SP!Slots, SP!clock
<1>3. Sched!SiftUpFront => SP!SiftUpFront
  BY DEF Sched!SiftUpFront, Sched!InsertReturns, Sched!Front, Sched!clock,
         SP!SiftUpFront, SP!InsertReturns, SP!Front, SP!clock
<1>4. Sched!CallCallback => SP!CallCallback
  BY DEF Sched!CallCallback, Sched!EventIsDue, Sched!queue, Sched!clock,
         SP!CallCallback, SP!EventIsDue, SP!queue, SP!clock
<1>5. Sched!SiftDown => SP!SiftDown
  BY DEF Sched!SiftDown, Sched!DeleteReturns, Sched!ContentsOf, Sched!SwapWith,
         Sched!get_left_child_of_node,
         Sched!get_right_child_of_node, Sched!Slots, Sched!clock,
         SP!SiftDown, SP!DeleteReturns, SP!ContentsOf, SP!SwapWith, SP!get_left_child_of_node,
         SP!get_right_child_of_node, SP!Slots, SP!clock
<1>6. Sched!StepReturns => SP!StepReturns
  BY DEF Sched!StepReturns, Sched!EventIsDue, Sched!queue,
         SP!StepReturns, SP!EventIsDue, SP!queue
<1> QED
  BY <1>1, <1>2, <1>3, <1>4, <1>5, <1>6 DEF Sched!Machinery, SP!Machinery

LEMMA SameScheduler == Sched!Spec => SP!Spec
<1>1. Sched!Init => SP!Init
  BY DEF Sched!Init, Sched!Cells, Sched!Front, Sched!Slots, Sched!ZeroEvent,
         Sched!NullFunction, Sched!FirstType, SP!Init, SP!Cells, SP!Front, SP!Slots, SP!ZeroEvent, SP!NullFunction, SP!FirstType
<1>2. Sched!Reset => SP!Reset
  BY DEF Sched!Reset, Sched!Cells, Sched!Front, Sched!Slots, Sched!ZeroEvent,
         Sched!NullFunction, Sched!FirstType,
         Sched!control, SP!Reset, SP!Cells, SP!Front, SP!Slots, SP!ZeroEvent, SP!NullFunction, SP!FirstType,
         SP!control
<1>3. Sched!ClientInserts => SP!ClientInserts
  BY DEF Sched!ClientInserts, Sched!InsertEvent, Sched!AssertFails, Sched!CopyParameter,
         Sched!queue, Sched!clock, SP!ClientInserts, SP!InsertEvent, SP!AssertFails,
         SP!CopyParameter, SP!queue, SP!clock
<1>4. Sched!AddCycles => SP!AddCycles
  BY DEF Sched!AddCycles, Sched!queue, SP!AddCycles, SP!queue
<1>5. Sched!DeleteMin("callback") => SP!DeleteMin("callback")
  BY DEF Sched!DeleteMin, SP!DeleteMin
<1>6. Sched!Next => SP!Next
  BY <1>2, <1>3, <1>4, <1>5, SameMachinery DEF Sched!Next, SP!Next
<1>7. UNCHANGED Sched!vars => UNCHANGED SP!vars
  BY DEF Sched!vars, Sched!queue, Sched!clock, Sched!control,
         SP!vars, SP!queue, SP!clock, SP!control
<1>8. [Sched!Next]_(Sched!vars) => [SP!Next]_(SP!vars)
  BY <1>6, <1>7
<1> QED
  BY <1>1, <1>8, PTL DEF Sched!Spec, SP!Spec

LEMMA SchedulerIsTyped ==
  ApiSpec => [](SP!TypeOK /\ SP!ClockIsExact)
<1>1. SP!Spec => []SP!TypeOK
  BY SP!TypeCorrect, SizeAssumption, ClockAssumption, WordAssumption
  DEF SP!FirstType, SP!NullFunction, SP!Time, SP!Event, FirstType, NullFunction, Time, Event
<1>2. SP!Spec => []SP!ClockIsExact
  BY SP!ClockHolds, SizeAssumption, ClockAssumption, WordAssumption
  DEF SP!FirstType, SP!NullFunction, SP!Time, SP!Event, FirstType, NullFunction, Time, Event
<1> QED
  BY <1>1, <1>2, TimerImplementsScheduler, SameScheduler, PTL DEF ImplementsScheduler

(* When no function of the scheduler runs its clock is where the cycles    *)
(* put it.                                                                 *)
ClockAtRest ==
  /\ pc = "idle" => timestamp_now = timestamp_next
  /\ timestamp_now \in Time

THEOREM TimerLeavesTheClockExact == ApiSpec => []ClockAtRest
<1>1. SP!TypeOK /\ SP!ClockIsExact => ClockAtRest
  BY DEF SP!TypeOK, SP!ClockIsExact, SP!InCallback, SP!Time, Time, SchedulerPlace, ClockAtRest
<1> QED
  BY <1>1, SchedulerIsTyped, PTL

RegistersTyped ==
  /\ tima \in Byte /\ tma \in Byte
  /\ tac \in Tac /\ new_tac \in Tac
  /\ interrupt_timer \in BOOLEAN
  /\ ret \in {"idle", "tac_overflow", "tac_set", "returned"}

LEMMA RegistersStayTyped ==
  ASSUME RegistersTyped, [ApiNext]_timerVars
  PROVE  RegistersTyped'
<1> USE DEF RegistersTyped
<1>1. 0 \in Byte /\ \A t \in Byte : (t + 1) % BYTE \in Byte
  BY ByteAssumption DEF Byte
<1>2. CASE TacEnable
  BY <1>2, InsertionBegins DEF TacEnable, Tac
<1>3. CASE TacInsertOverflow
  BY <1>3, InsertionBegins DEF TacInsertOverflow, registers
<1>4. CASE TacSet
  BY <1>4 DEF TacSet
<1>5. CASE TacDisable
  BY <1>5 DEF TacDisable, Tac, vars, control
<1>6. CASE TimaWrite \/ TmaWrite \/ InterruptFlagWrite
  BY <1>6 DEF TimaWrite, TmaWrite, InterruptFlagWrite, vars, control
<1>7. CASE HandleTimaIncrement \/ HandleTimaOverflow
  <2>1. RegistersTyped' <=> ret' \in {"idle", "tac_overflow", "tac_set", "returned"}
    BY <1>1, <1>7 DEF HandleTimaIncrement, HandleTimaOverflow, ReloadTima
  <2>2. InsertAgainIfEnabled
    BY <1>7 DEF HandleTimaIncrement, HandleTimaOverflow, ReloadTima
  <2> QED
    BY <2>1, <2>2, InsertionBegins DEF InsertAgainIfEnabled
<1>8. CASE SchedulerSteps
  <2>1. ret' = ret
    BY <1>8, MachinerySteps DEF SchedulerSteps, AddCycles, DeleteMin
  <2> QED
    BY <1>8, <2>1 DEF SchedulerSteps, registers
<1>9. CASE SystemReset
  BY <1>9 DEF SystemReset, Reset, control, registers
<1>10. CASE TimerReset
  <2>1. tac' \in Tac /\ new_tac' \in Tac
    BY <1>10 DEF TimerReset, Tac, Clock
  <2> QED
    BY <1>1, <1>10, <2>1 DEF TimerReset, vars, control
<1>11. CASE UNCHANGED timerVars
  BY <1>11 DEF timerVars, registers, vars, control
<1> QED
  BY <1>2, <1>3, <1>4, <1>5, <1>6, <1>7, <1>8, <1>9, <1>10, <1>11 DEF ApiNext, RunnerNext

(* Registers hold bytes, and control is at one of the places that the code *)
(* of both files has, with an event counted no further than the array goes.*)
THEOREM TimerTypeCorrect == ApiSpec => []TimerTypeOK
<1>1. TimerInit => RegistersTyped
  <2>1. 0 \in Byte /\ [enabled |-> FALSE, clock |-> 0] \in Tac
    BY ByteAssumption DEF Byte, Tac, Clock
  <2> QED
    BY <2>1 DEF TimerInit, Init, RegistersTyped
<1>2. ApiSpec => []RegistersTyped
  BY <1>1, RegistersStayTyped, PTL DEF ApiSpec
<1>3. SP!TypeOK /\ RegistersTyped => TimerTypeOK
  <2> SUFFICES ASSUME SP!TypeOK, RegistersTyped
               PROVE  TimerTypeOK
    OBVIOUS
  <2>1. events \in [Cells -> Event] /\ heap_size \in 0 .. MAX_EVENTS - 1
    BY DEF SP!TypeOK, SP!Cells, SP!Front, SP!Event, SP!Time, Cells, Front, Event, Time
  <2>2. pc \in {"idle", "up", "loop", "callback", "down", "aborted", "crashed",
               "tac_overflow", "tac_set", "returned"}
    BY DEF SP!TypeOK, SchedulerPlace
  <2> QED
    BY <2>1, <2>2 DEF TimerTypeOK, RegistersTyped
<1> QED
  BY <1>2, <1>3, SchedulerIsTyped, PTL
=============================================================================
