---------------------------- MODULE RunnerProofs ----------------------------
(***************************************************************************)
(* The whole program, for every cartridge, every size of the queue and     *)
(* every width of the clock: how main sets the library up and stops it,    *)
(* that the CPU is a program as Timer and Scheduler allow it, and that the *)
(* clock of the scheduler counts what the instructions report.  The arrays *)
(* of the bus are there as a whole, as in CpuProofs.                       *)
(***************************************************************************)
EXTENDS Runner, CpuProofs, SequenceTheorems

-----------------------------------------------------------------------------
(* What main does before the first instruction, in its order.              *)
LEMMA MainOrder ==
  /\ After("open_rom") = "INFO"
  /\ After("INFO") = "WARNING"
  /\ After("WARNING") = "CRITICAL"
  /\ After("CRITICAL") = "set_cart_data"
  /\ After("set_cart_data") = "system_reset"
  /\ After("system_reset") = "fopen"
  /\ After("fopen") = "while"
<1>1. DOMAIN Order = 1 .. 8
  BY DEF Order
<1>2. /\ Order[1] = "open_rom" /\ Order[2] = "INFO" /\ Order[3] = "WARNING"
      /\ Order[4] = "CRITICAL" /\ Order[5] = "set_cart_data"
      /\ Order[6] = "system_reset" /\ Order[7] = "fopen" /\ Order[8] = "while"
  BY DEF Order
<1>3. \A i, j \in 1 .. 8 : Order[i] = Order[j] => i = j
  BY DEF Order
<1>4. ASSUME NEW i \in 1 .. 7
      PROVE  After(Order[i]) = Order[i + 1]
  <2>1. (CHOOSE j \in DOMAIN Order : Order[j] = Order[i]) = i
    BY <1>1, <1>3
  <2> QED
    BY <2>1 DEF After
<1>5. \A i \in 1 .. 7 : After(Order[i]) = Order[i + 1]
  BY <1>4
<1> QED
  BY <1>2, <1>5

Early == {"open_rom", "set_cart_data", "system_reset"} \cup Levels

(* The callbacks that are set when main is at a place.                     *)
SetBefore(p) ==
  CASE p = "open_rom" -> {} [] p = "INFO" -> {} [] p = "WARNING" -> {"INFO"}
    [] p = "CRITICAL" -> {"INFO", "WARNING"} [] OTHER -> Levels

MainInv ==
  /\ callbacks \in [Levels -> {NULL} \cup {HandlerOf(level) : level \in Levels}]
  /\ place \in Early \cup {"fopen", "while"} =>
       \A level \in SetBefore(place) : callbacks[level] # NULL
  /\ place \in Early \cup {"fopen"} => running /\ ~critical /\ calls = <<>>
  /\ place = "while" /\ critical => ~running
  /\ place = "while" /\ ~running => critical \/ reg["PC"] = 51376
  /\ place = "crashed" => NULL \in {rom_data, trace_file}
  /\ place = "while" => trace_file \in {NULL, "stream"}
  /\ ~AtRest => place = "while" /\ trace_file = "stream"

LEMMA HandlersAreSet == \A level \in Levels : HandlerOf(level) # NULL
BY DEF Levels, HandlerOf, NULL

LEMMA MainInitOK == MainInit => MainInv
BY DEF MainInit, SystemInit, T!Init, MainInv, Early, SetBefore, Levels, AtRest, NULL

LEMMA SettingUpKeepsMain ==
  ASSUME MainInv, OpenFails \/ ReadIntoNull \/ OpenRom \/ SetLogLevelCb \/ SetCart
                    \/ ResetSystem \/ OpenTrace
  PROVE  MainInv'
<1> USE DEF MainInv, Early, SetBefore, Levels, AtRest
<1>1. CASE OpenFails \/ ReadIntoNull
  BY <1>1 DEF OpenFails, ReadIntoNull, systemVars, timerVars, control
<1>2. CASE OpenRom
  BY <1>2, MainOrder DEF OpenRom, systemVars, timerVars, control, vars, cpuVars
<1>3. CASE SetLogLevelCb
  <2>1. callbacks' = [callbacks EXCEPT ![place] = HandlerOf(place)]
    BY <1>3 DEF SetLogLevelCb
  <2>2. callbacks'[place] # NULL
    BY <1>3, <2>1, HandlersAreSet DEF SetLogLevelCb
  <2>3. place' = After(place) /\ UNCHANGED <<systemVars, running, rom_data, trace_file>>
    BY <1>3 DEF SetLogLevelCb
  <2>4. place \in Levels
    BY <1>3 DEF SetLogLevelCb
  <2> QED
    BY <2>1, <2>2, <2>3, <2>4, MainOrder DEF systemVars, timerVars, control, vars, cpuVars
<1>4. CASE SetCart
  BY <1>4, MainOrder DEF SetCart, timerVars, control, cpuVars
<1>5. CASE ResetSystem
  BY <1>5, MainOrder
  DEF ResetSystem, Log, SystemReset, CpuReset, Finish, T!SystemReset, T!Reset, T!control
<1>6. CASE OpenTrace
  BY <1>6, MainOrder DEF OpenTrace, systemVars, timerVars, control, vars, cpuVars
<1> QED
  BY <1>1, <1>2, <1>3, <1>4, <1>5, <1>6

(* The CPU stands still while an instruction goes on outside of it.        *)
LEMMA CpuStandsStill ==
  ASSUME InstructionGoesOn
  PROVE  UNCHANGED cpuVars /\ ~AtRest
<1> USE DEF CpuWaits, vars, AtRest
<1>1. CASE WriteElsewhere \/ WriteTima \/ WriteTma \/ WriteTacEnabling
           \/ WriteTacDisabling \/ WriteTacIgnored \/ ReportCycles
  BY <1>1 DEF WriteElsewhere, WriteTima, WriteTma, WriteTacEnabling, WriteTacDisabling,
              WriteTacIgnored, ReportCycles, Calls
<1>2. CASE TacInsertsOverflow \/ TacIsSet \/ TimaIncrements
  BY <1>2 DEF TacInsertsOverflow, TacIsSet, TimaIncrements, T!TacInsertOverflow,
              T!insert_timer_event, T!InsertEvent, T!TacSet, T!HandleTimaIncrement
<1>3. CASE TimaOverflows
  BY <1>3 DEF TimaOverflows, T!ReloadTima
<1>4. CASE SchedulerGoesOn
  BY <1>4 DEF SchedulerGoesOn, T!DeleteMin, T!Machinery, T!SiftUp, T!SiftUpRoot,
              T!SiftUpFront, T!CallCallback, T!SiftDown, T!StepReturns
<1> QED
  BY <1>1, <1>2, <1>3, <1>4 DEF InstructionGoesOn

LEMMA RunningKeepsMain ==
  ASSUME MainInv, TraceIntoNull \/ KnownEnd \/ StepSystem \/ StepGoesOn \/ Exit
  PROVE  MainInv'
<1> USE DEF MainInv, Early, SetBefore, Levels, LoopRuns
<1>1. CASE TraceIntoNull
  BY <1>1 DEF TraceIntoNull, systemVars, timerVars, control, AtRest
<1>2. CASE KnownEnd
  BY <1>2 DEF KnownEnd, systemVars, timerVars, control, vars, cpuVars, AtRest
<1>3. CASE StepSystem
  <2>1. \A level \in Levels : callbacks[level] # NULL
    BY <1>3 DEF StepSystem
  <2>2. place' = "while" /\ running' = IF critical' THEN FALSE ELSE running
    BY <1>3, <2>1 DEF StepSystem
  <2>3. /\ running /\ place = "while" /\ trace_file # NULL
        /\ UNCHANGED <<callbacks, rom_data, trace_file>>
    BY <1>3 DEF StepSystem
  <2> QED
    BY <2>1, <2>2, <2>3
<1>4. CASE StepGoesOn
  BY <1>4, CpuStandsStill DEF StepGoesOn, mainVars, cpuVars
<1>5. CASE Exit
  BY <1>5 DEF Exit, systemVars, timerVars, control, AtRest
<1> QED
  BY <1>1, <1>2, <1>3, <1>4, <1>5

LEMMA MainStays == MainSpec => []MainInv
<1>1. MainInv /\ UNCHANGED runnerVars => MainInv'
  BY DEF MainInv, Early, SetBefore, Levels, AtRest, runnerVars,
         mainVars, systemVars, timerVars, control, vars, cpuVars
<1>2. MainInv /\ [MainNext]_runnerVars => MainInv'
  BY <1>1, SettingUpKeepsMain, RunningKeepsMain DEF MainNext
<1> QED
  BY <1>2, MainInitOK, PTL DEF MainSpec

(* The step that logs a critical message is the last one, and its calls are*)
(* over when main ends.                                                    *)
THEOREM NothingFollowsCritical == MainSpec => CriticalIsLast
<1> DEFINE Last ==
      /\ critical => UNCHANGED reg
      /\ place' = "exited" => calls = <<>> /\ (critical \/ reg["PC"] = 51376)
<1>1. MainInv /\ [MainNext]_runnerVars => [Last]_runnerVars
  <2> SUFFICES ASSUME MainInv, MainNext
               PROVE  Last
    OBVIOUS
  <2> USE DEF MainInv, Early, Levels
  <2>1. CASE OpenFails \/ ReadIntoNull \/ OpenTrace
    BY <2>1, MainOrder
    DEF OpenFails, ReadIntoNull, OpenTrace, systemVars, vars, cpuVars
  <2>2. CASE OpenRom \/ SetLogLevelCb
    BY <2>2, MainOrder DEF OpenRom, SetLogLevelCb, systemVars, vars, cpuVars
  <2>3. CASE SetCart
    BY <2>3, MainOrder DEF SetCart, cpuVars
  <2>4. CASE ResetSystem
    BY <2>4, MainOrder DEF ResetSystem, Log
  <2>5. CASE TraceIntoNull \/ KnownEnd
    BY <2>5 DEF TraceIntoNull, KnownEnd, LoopRuns, systemVars, vars, cpuVars
  <2>6. CASE StepSystem
    BY <2>6 DEF StepSystem, LoopRuns
  <2>7. CASE StepGoesOn
    BY <2>7, CpuStandsStill DEF StepGoesOn, mainVars, cpuVars
  <2>8. CASE Exit
    BY <2>8 DEF Exit, AtRest, systemVars, vars, cpuVars
  <2> QED
    BY <2>1, <2>2, <2>3, <2>4, <2>5, <2>6, <2>7, <2>8 DEF MainNext
<1> QED
  BY <1>1, MainStays, PTL DEF MainSpec, CriticalIsLast

-----------------------------------------------------------------------------
(* The registers and the memory, under main.                               *)
LEMMA SystemInitTyped ==
  ASSUME SystemInit
  PROVE  TypedAndFetched
<1>1. 0 \in Byte /\ 0 \in Word
  BY WordIs DEF Byte
<1>2. RegOK(reg)
  <2>1. reg = [r \in R8 \cup R16 |-> 0]
    BY DEF SystemInit
  <2> QED
    BY <1>1, <2>1 DEF RegOK, R8
<1>3. MemoryOK
  BY BusInitOK DEF SystemInit, MemoryOK, FramesHeld
<1>4. cycles = 0 /\ instruction = 0
  BY Zenon DEF SystemInit
<1>5. critical \in BOOLEAN
  BY Zenon DEF SystemInit
<1> QED
  BY <1>1, <1>2, <1>3, <1>4, <1>5 DEF CpuInv, TypedAndFetched

LEMMA SameCpuTyped ==
  ASSUME TypedAndFetched, UNCHANGED vars
  PROVE  TypedAndFetched'
<1>1. FramesHeld'
  BY SameFramesHeld DEF TypedAndFetched, CpuInv, MemoryOK, vars, busVars, cpuVars
<1> QED
  BY <1>1 DEF TypedAndFetched, CpuInv, MemoryOK, BusTypeOK, vars, busVars, cpuVars, Cells,
              Cell, RegOK

LEMMA NewBusTyped ==
  ASSUME TypedAndFetched, UNCHANGED <<cpuVars, ram>>, BusTypeOK'
  PROVE  TypedAndFetched'
<1>1. FramesHeld'
  BY SameFramesHeld DEF TypedAndFetched, CpuInv, MemoryOK, cpuVars
<1> QED
  BY <1>1 DEF TypedAndFetched, CpuInv, MemoryOK, cpuVars, RegOK

LEMMA CartTyped ==
  ASSUME TypedAndFetched, SetCartData, UNCHANGED cpuVars
  PROVE  TypedAndFetched'
<1>1. BusTypeOK
  BY DEF TypedAndFetched, CpuInv, MemoryOK
<1>2. \A a \in DOMAIN cart_data' : cart_data'[a] \in Byte
  BY RomAssumption DEF SetCartData
<1>3. UNCHANGED <<ram, interrupt_flag, interrupt_enable, written>>
  BY DEF SetCartData
<1>4. BusTypeOK'
  BY <1>1, <1>2, <1>3 DEF BusTypeOK, Cells, Cell
<1> QED
  BY <1>3, <1>4, NewBusTyped

(* An interrupt sets its bit in a flag that is a byte, whatever it holds.  *)
LEMMA InterruptSets ==
  ASSUME NEW flag \in Byte
  PROVE  WithTimerInterrupt(flag) \in Byte /\ TimerBit(WithTimerInterrupt(flag))
<1>1. CASE (flag \div 4) % 2 = 1
  BY <1>1 DEF WithTimerInterrupt, TimerBit
<1>2. CASE (flag \div 4) % 2 # 1
  BY <1>2 DEF WithTimerInterrupt, TimerBit, Byte
<1> QED
  BY <1>1, <1>2

LEMMA InterruptTyped ==
  ASSUME TypedAndFetched, SetInterrupt, UNCHANGED cpuVars
  PROVE  TypedAndFetched' /\ TimerBit(interrupt_flag')
<1>1. BusTypeOK
  BY DEF TypedAndFetched, CpuInv, MemoryOK
<1>2. interrupt_flag' \in Byte /\ TimerBit(interrupt_flag')
  BY <1>1, InterruptSets DEF SetInterrupt, BusTypeOK
<1>3. UNCHANGED <<ram, interrupt_enable, cart_data, written>>
  BY DEF SetInterrupt
<1>4. BusTypeOK'
  BY <1>1, <1>2, <1>3 DEF BusTypeOK, Cells, Cell
<1> QED
  BY <1>2, <1>3, <1>4, NewBusTyped

LEMMA MainKeepsTyped ==
  ASSUME Address = Word, TypedAndFetched, [MainNext]_runnerVars
  PROVE  TypedAndFetched'
<1>1. Ready
  BY DEF Ready, TypedAndFetched
<1>2. CASE OpenFails \/ ReadIntoNull \/ OpenRom \/ SetLogLevelCb \/ OpenTrace
  BY <1>2, SameCpuTyped
  DEF OpenFails, ReadIntoNull, OpenRom, SetLogLevelCb, OpenTrace, systemVars
<1>3. CASE SetCart
  BY <1>3, CartTyped DEF SetCart
<1>4. CASE ResetSystem
  BY <1>1, <1>4, CpuResetOK DEF ResetSystem, SystemReset, TypedAndFetched
<1>5. CASE TraceIntoNull \/ KnownEnd \/ Exit
  BY <1>5, SameCpuTyped DEF TraceIntoNull, KnownEnd, Exit, systemVars
<1>6. CASE StepSystem
  BY <1>1, <1>6, StepOK DEF StepSystem, Step, TypedAndFetched
<1>7. CASE StepGoesOn
  <2>1. CASE TimaOverflows
    BY <2>1, InterruptTyped DEF TimaOverflows
  <2>2. CASE UNCHANGED vars
    BY <2>2, SameCpuTyped
  <2>3. TimaOverflows \/ UNCHANGED vars
    BY <1>7 DEF StepGoesOn, InstructionGoesOn, WriteElsewhere, WriteTima, WriteTma,
       WriteTacEnabling, WriteTacDisabling, WriteTacIgnored, ReportCycles, Calls,
       TacInsertsOverflow, TacIsSet, TimaIncrements, SchedulerGoesOn, CpuWaits
  <2> QED
    BY <2>1, <2>2, <2>3
<1>8. CASE UNCHANGED runnerVars
  BY <1>8, SameCpuTyped DEF runnerVars, systemVars
<1> QED
  BY <1>2, <1>3, <1>4, <1>5, <1>6, <1>7, <1>8 DEF MainNext

LEMMA RunnerIsTyped == Address = Word => (MainSpec => []TypedAndFetched)
<1> SUFFICES ASSUME Address = Word
             PROVE  MainSpec => []TypedAndFetched
  OBVIOUS
<1>1. MainInit => TypedAndFetched
  BY SystemInitTyped DEF MainInit
<1>2. TypedAndFetched /\ [MainNext]_runnerVars => TypedAndFetched'
  BY MainKeepsTyped
<1> QED
  BY <1>1, <1>2, PTL DEF MainSpec

-----------------------------------------------------------------------------
(* The program as the timer sees it.  Until main resets the system nothing *)
(* has touched the timer, so that the reset changes nothing of it.         *)
TimerIsFresh == place \in Early => T!TimerInit

LEMMA TimerUnseen ==
  ASSUME UNCHANGED <<timerVars, interrupt_flag>>
  PROVE  UNCHANGED T!timerVars
BY DEF timerVars, queue, clock, control, registers, T!timerVars, T!vars, T!queue,
       T!clock, T!control, T!registers, TimerBit

LEMMA FreshStays ==
  ASSUME TimerIsFresh, UNCHANGED T!timerVars, place \in Early
  PROVE  TimerIsFresh'
<1>1. T!TimerInit
  BY DEF TimerIsFresh
<1>2. T!TimerInit'
  BY <1>1 DEF T!TimerInit, T!Init, T!timerVars, T!vars, T!queue, T!clock, T!control,
              T!registers, T!Cells, T!Front, T!Slots, T!ZeroEvent, T!NullFunction, T!FirstType
<1> QED
  BY <1>2 DEF TimerIsFresh

LEMMA SettingUpUnseen ==
  ASSUME TimerIsFresh,
         OpenFails \/ ReadIntoNull \/ OpenRom \/ SetLogLevelCb \/ SetCart
           \/ ResetSystem \/ OpenTrace
  PROVE  TimerIsFresh' /\ UNCHANGED T!timerVars
<1>1. CASE OpenFails \/ ReadIntoNull \/ OpenRom \/ SetLogLevelCb \/ SetCart
  <2>1. place \in Early
    BY <1>1 DEF OpenFails, ReadIntoNull, OpenRom, SetLogLevelCb, SetCart, Early
  <2>2. UNCHANGED <<timerVars, interrupt_flag>>
    BY <1>1 DEF OpenFails, ReadIntoNull, OpenRom, SetLogLevelCb, SetCart, SetCartData,
       systemVars, vars, busVars
  <2> QED
    BY <2>1, <2>2, TimerUnseen, FreshStays
<1>2. CASE ResetSystem
  <2>1. T!TimerInit
    BY <1>2 DEF ResetSystem, TimerIsFresh, Early
  <2>2. T!SystemReset /\ place \in Early
    BY <1>2 DEF ResetSystem, SystemReset, Early
  <2>3. UNCHANGED T!timerVars
    BY <2>1, <2>2 DEF T!SystemReset, T!Reset, T!TimerInit, T!Init, T!timerVars, T!vars,
       T!Cells, T!queue, T!clock, T!control, T!registers
  <2> QED
    BY <2>2, <2>3, FreshStays
<1>3. CASE OpenTrace
  <2>1. place' = "while"
    BY <1>3, MainOrder DEF OpenTrace
  <2>2. UNCHANGED <<timerVars, interrupt_flag>>
    BY <1>3 DEF OpenTrace, systemVars, vars, busVars
  <2> QED
    BY <2>1, <2>2, TimerUnseen DEF TimerIsFresh, Early, Levels
<1> QED
  BY <1>1, <1>2, <1>3

(* A call of a device is a write to the register of Timer, or unseen.      *)
LEMMA CallsMap ==
  ASSUME WriteElsewhere \/ WriteTima \/ WriteTma \/ WriteTacEnabling
           \/ WriteTacDisabling \/ WriteTacIgnored \/ ReportCycles
  PROVE  T!RunnerNext \/ UNCHANGED T!timerVars
<1>1. UNCHANGED interrupt_flag
  BY DEF WriteElsewhere, WriteTima, WriteTma, WriteTacEnabling, WriteTacDisabling,
         WriteTacIgnored, ReportCycles, Calls, vars, busVars
<1>2. CASE WriteElsewhere \/ WriteTacIgnored
  BY <1>1, <1>2, TimerUnseen DEF WriteElsewhere, WriteTacIgnored
<1>3. CASE WriteTima
  BY <1>3 DEF WriteTima, T!RunnerNext
<1>4. CASE WriteTma
  BY <1>4 DEF WriteTma, T!RunnerNext
<1>5. CASE WriteTacEnabling
  BY <1>5 DEF WriteTacEnabling, T!RunnerNext
<1>6. CASE WriteTacDisabling
  BY <1>6 DEF WriteTacDisabling, T!RunnerNext
<1>7. CASE ReportCycles
  BY <1>1, <1>7 DEF ReportCycles, registers, T!RunnerNext, T!SchedulerSteps, T!registers,
     TimerBit
<1> QED
  BY <1>2, <1>3, <1>4, <1>5, <1>6, <1>7

LEMMA HandlersMapToTimer ==
  ASSUME TypedAndFetched,
         TacInsertsOverflow \/ TacIsSet \/ TimaIncrements \/ TimaOverflows \/ SchedulerGoesOn
  PROVE  T!RunnerNext
<1>1. CASE TacInsertsOverflow \/ TacIsSet \/ TimaIncrements
  BY <1>1 DEF TacInsertsOverflow, TacIsSet, TimaIncrements, T!RunnerNext
<1>2. CASE TimaOverflows
  <2>1. TimerBit(interrupt_flag')
    BY <1>2, InterruptTyped DEF TimaOverflows
  <2>2. TimerBit(interrupt_flag)' = TRUE
    BY <2>1 DEF TimerBit
  <2> QED
    BY <1>2, <2>2 DEF TimaOverflows, T!HandleTimaOverflow, T!RunnerNext
<1>3. CASE SchedulerGoesOn
  BY <1>3 DEF SchedulerGoesOn, CpuWaits, vars, busVars, registers, T!RunnerNext,
     T!SchedulerSteps, T!registers, TimerBit
<1> QED
  BY <1>1, <1>2, <1>3

LEMMA RunningMaps ==
  ASSUME TypedAndFetched, TimerIsFresh,
         TraceIntoNull \/ KnownEnd \/ StepSystem \/ StepGoesOn \/ Exit
  PROVE  TimerIsFresh' /\ (T!RunnerNext \/ UNCHANGED T!timerVars)
<1>1. TimerIsFresh'
  <2>1. CASE TraceIntoNull \/ Exit
    BY <2>1 DEF TraceIntoNull, Exit, TimerIsFresh, Early, Levels
  <2>2. CASE KnownEnd \/ StepGoesOn
    <3>1. place' = "while"
      BY <2>2 DEF KnownEnd, StepGoesOn, LoopRuns, mainVars
    <3> QED
      BY <3>1 DEF TimerIsFresh, Early, Levels
  <2>3. CASE StepSystem
    <3>1. place' \in {"crashed", "while"}
      BY <2>3 DEF StepSystem
    <3> QED
      BY <3>1 DEF TimerIsFresh, Early, Levels
  <2> QED
    BY <2>1, <2>2, <2>3
<1>2. CASE TraceIntoNull \/ KnownEnd \/ Exit
  <2>1. UNCHANGED <<timerVars, interrupt_flag>>
    BY <1>2 DEF TraceIntoNull, KnownEnd, Exit, systemVars, vars, busVars
  <2> QED
    BY <1>1, <2>1, TimerUnseen
<1>3. CASE StepSystem
  <2>1. pc = "idle" /\ UNCHANGED timerVars
    BY <1>3 DEF StepSystem, Step, AtRest, LoopRuns
  <2>2. TimerBit(interrupt_flag)' \in BOOLEAN
    BY DEF TimerBit
  <2>3. T!InterruptFlagWrite
    BY <2>1, <2>2 DEF T!InterruptFlagWrite, timerVars, queue, clock, control, registers,
       T!vars, T!queue, T!clock, T!control
  <2> QED
    BY <1>1, <2>3 DEF T!RunnerNext
<1>4. CASE StepGoesOn
  BY <1>1, <1>4, CallsMap, HandlersMapToTimer DEF StepGoesOn, InstructionGoesOn
<1> QED
  BY <1>2, <1>3, <1>4

LEMMA FreshInit == MainInit => TimerIsFresh /\ T!TimerInit
<1> SUFFICES ASSUME MainInit
             PROVE  T!TimerInit
  BY DEF TimerIsFresh
<1>1. TimerBit(interrupt_flag) = FALSE
  <2>1. interrupt_flag = 0
    BY DEF MainInit, SystemInit, BusInit
  <2> QED
    BY <2>1 DEF TimerBit
<1> QED
  BY <1>1 DEF MainInit, SystemInit, T!TimerInit

LEMMA MainMaps ==
  ASSUME TypedAndFetched, TimerIsFresh, [MainNext]_runnerVars
  PROVE  TimerIsFresh' /\ [T!RunnerNext]_(T!timerVars)
<1>1. CASE UNCHANGED runnerVars
  <2>1. UNCHANGED <<timerVars, interrupt_flag>> /\ place' = place
    BY <1>1 DEF runnerVars, systemVars, vars, busVars, mainVars
  <2> QED
    BY <2>1, TimerUnseen, FreshStays DEF TimerIsFresh
<1>2. CASE OpenFails \/ ReadIntoNull \/ OpenRom \/ SetLogLevelCb \/ SetCart
             \/ ResetSystem \/ OpenTrace
  BY <1>2, SettingUpUnseen
<1>3. CASE TraceIntoNull \/ KnownEnd \/ StepSystem \/ StepGoesOn \/ Exit
  BY <1>3, RunningMaps
<1> QED
  BY <1>1, <1>2, <1>3 DEF MainNext

LEMMA FreshUntilReset == Address = Word => (MainSpec => []TimerIsFresh)
<1> SUFFICES ASSUME Address = Word
             PROVE  MainSpec => []TimerIsFresh
  OBVIOUS
<1>1. TypedAndFetched /\ TimerIsFresh /\ [MainNext]_runnerVars => TimerIsFresh'
  BY MainMaps
<1> QED
  BY <1>1, FreshInit, RunnerIsTyped, PTL DEF MainSpec

(* The CPU, the bus and main are a program as Timer allows it, whatever the*)
(* cartridge makes the CPU do: registers are written between two calls of  *)
(* add_cycles, and only an overflow raises the interrupt by itself.        *)
THEOREM SystemImplementsTimer == Address = Word => (MainSpec => ImplementsTimer)
<1> SUFFICES ASSUME Address = Word
             PROVE  MainSpec => ImplementsTimer
  OBVIOUS
<1>1. TypedAndFetched /\ TimerIsFresh /\ [MainNext]_runnerVars =>
        [T!RunnerNext]_(T!timerVars)
  BY MainMaps
<1>2. (MainSpec => []TypedAndFetched) /\ (MainSpec => []TimerIsFresh)
  BY RunnerIsTyped, FreshUntilReset
<1> QED
  BY <1>1, <1>2, FreshInit, PTL DEF MainSpec, ImplementsTimer, T!RunnerSpec

-----------------------------------------------------------------------------
(* TimerProofs, for this timer.                                            *)
TP == INSTANCE TimerProofs WITH
  Cycles <- CycleCounts, Callbacks <- Handlers, BYTE <- 256,
  interrupt_timer <- TimerBit(interrupt_flag)

LEMMA ConstantsFit ==
  /\ MAX_EVENTS \in Nat /\ MAX_EVENTS >= 2
  /\ Wrap \in Nat \ {0} /\ CycleCounts \subseteq Nat /\ Addresses \subseteq TP!Time
  /\ TP!NullFunction \in Words \ Handlers
  /\ TP!FirstType \in Types
  /\ StaleWords \subseteq [cb : Words, type : Types]
  /\ Foreign \subseteq TP!Event /\ Foreign # {}
  /\ 256 \in Nat \ {0}
  /\ timing \in [TP!Clock -> Nat]
  /\ Handlers = {TP!handle_tima_increment, TP!handle_tima_overflow}
<1>1. CycleCounts \subseteq Nat
  BY DEF CycleCounts
<1>2. timing \in [TP!Clock -> Nat]
  BY DEF timing, TP!Clock
<1>3. Handlers = {TP!handle_tima_increment, TP!handle_tima_overflow}
  BY DEF Handlers, TP!handle_tima_increment, TP!handle_tima_overflow
<1>4. /\ TP!NullFunction \in Words \ Handlers
      /\ TP!FirstType \in Types
      /\ Foreign \subseteq TP!Event
      /\ Addresses \subseteq TP!Time
  BY MemoryAssumption, WrapAssumption
  DEF TP!NullFunction, TP!FirstType, TP!Event, TP!Time, T!NullFunction, T!FirstType
<1> QED
  BY <1>1, <1>2, <1>3, <1>4, QueueAssumption, WrapAssumption, MemoryAssumption

LEMMA SameInsertion ==
  ASSUME NEW from, NEW to, T!insert_timer_event(from, to)
  PROVE  TP!insert_timer_event(from, to)
BY DEF T!insert_timer_event, T!InsertEvent, T!AssertFails, T!CopyParameter, T!queue, T!clock,
       TP!insert_timer_event, TP!InsertEvent, TP!AssertFails, TP!CopyParameter, TP!queue,
       TP!clock

LEMMA SameTimerMachinery == T!Machinery => TP!Machinery
<1>1. T!SiftUp => TP!SiftUp
  BY DEF T!SiftUp, T!InsertReturns, T!SwapWith, T!get_parent_node, T!Slots, T!clock,
         TP!SiftUp, TP!InsertReturns, TP!SwapWith, TP!get_parent_node, TP!Slots, TP!clock
<1>2. T!SiftUpRoot => TP!SiftUpRoot
  BY DEF T!SiftUpRoot, T!InsertReturns, T!ContentsOf, T!SwapWith, T!Front, T!Slots, T!clock,
         TP!SiftUpRoot, TP!InsertReturns, TP!ContentsOf, TP!SwapWith, TP!Front, TP!Slots,
         TP!clock
<1>3. T!SiftUpFront => TP!SiftUpFront
  BY DEF T!SiftUpFront, T!InsertReturns, T!Front, T!clock,
         TP!SiftUpFront, TP!InsertReturns, TP!Front, TP!clock
<1>4. T!CallCallback => TP!CallCallback
  BY DEF T!CallCallback, T!EventIsDue, T!queue, T!clock,
         TP!CallCallback, TP!EventIsDue, TP!queue, TP!clock
<1>5. T!SiftDown => TP!SiftDown
  BY DEF T!SiftDown, T!DeleteReturns, T!ContentsOf, T!SwapWith, T!get_left_child_of_node,
         T!get_right_child_of_node, T!Slots, T!clock, TP!SiftDown, TP!DeleteReturns,
         TP!ContentsOf, TP!SwapWith, TP!get_left_child_of_node, TP!get_right_child_of_node, TP!Slots,
         TP!clock
<1>6. T!StepReturns => TP!StepReturns
  BY DEF T!StepReturns, T!EventIsDue, T!queue, TP!StepReturns, TP!EventIsDue, TP!queue
<1> QED
  BY <1>1, <1>2, <1>3, <1>4, <1>5, <1>6 DEF T!Machinery, TP!Machinery

LEMMA SameTimerSteps == T!RunnerNext => TP!RunnerNext
<1>1. T!TacEnable => TP!TacEnable
  BY SameInsertion DEF T!TacEnable, T!Clock, TP!TacEnable, TP!Clock
<1>2. T!TacInsertOverflow => TP!TacInsertOverflow
  BY SameInsertion
  DEF T!TacInsertOverflow, T!registers, TP!TacInsertOverflow, TP!registers
<1>3. T!TacSet => TP!TacSet
  BY DEF T!TacSet, T!queue, T!clock, TP!TacSet, TP!queue, TP!clock
<1>4. T!TacDisable => TP!TacDisable
  BY DEF T!TacDisable, T!Clock, T!vars, T!queue, T!clock, T!control,
         TP!TacDisable, TP!Clock, TP!vars, TP!queue, TP!clock, TP!control
<1>5. /\ T!TimaWrite => TP!TimaWrite
      /\ T!TmaWrite => TP!TmaWrite
      /\ T!InterruptFlagWrite => TP!InterruptFlagWrite
  BY DEF T!TimaWrite, T!TmaWrite, T!InterruptFlagWrite, T!Byte, T!vars, T!queue, T!clock,
         T!control, TP!TimaWrite, TP!TmaWrite, TP!InterruptFlagWrite, TP!Byte, TP!vars,
         TP!queue, TP!clock, TP!control
<1>6. T!InsertAgainIfEnabled => TP!InsertAgainIfEnabled
  BY SameInsertion DEF T!InsertAgainIfEnabled, T!queue, T!clock,
     TP!InsertAgainIfEnabled, TP!queue, TP!clock
<1>7. T!HandleTimaIncrement => TP!HandleTimaIncrement
  BY <1>6 DEF T!HandleTimaIncrement, T!handle_tima_increment,
     TP!HandleTimaIncrement, TP!handle_tima_increment
<1>8. T!HandleTimaOverflow => TP!HandleTimaOverflow
  BY <1>6 DEF T!HandleTimaOverflow, T!ReloadTima, T!handle_tima_overflow,
     TP!HandleTimaOverflow, TP!ReloadTima, TP!handle_tima_overflow
<1>9. T!AddCycles => TP!AddCycles
  BY DEF T!AddCycles, T!queue, TP!AddCycles, TP!queue
<1>10. T!DeleteMin("returned") => TP!DeleteMin("returned")
  BY DEF T!DeleteMin, TP!DeleteMin
<1>11. T!SchedulerSteps => TP!SchedulerSteps
  BY <1>9, <1>10, SameTimerMachinery
  DEF T!SchedulerSteps, T!registers, TP!SchedulerSteps, TP!registers
<1> QED
  BY <1>1, <1>2, <1>3, <1>4, <1>5, <1>7, <1>8, <1>11 DEF T!RunnerNext, TP!RunnerNext

LEMMA SameTimer == T!RunnerSpec => TP!RunnerSpec /\ TP!ApiSpec
<1>1. T!TimerInit => TP!TimerInit
  BY DEF T!TimerInit, T!Init, T!Cells, T!Front, T!Slots, T!ZeroEvent, T!NullFunction,
         T!FirstType, TP!TimerInit, TP!Init, TP!Cells, TP!Front, TP!Slots, TP!ZeroEvent, TP!NullFunction, TP!FirstType
<1>2. UNCHANGED T!timerVars => UNCHANGED TP!timerVars
  BY DEF T!timerVars, T!vars, T!queue, T!clock, T!control, T!registers,
         TP!timerVars, TP!vars, TP!queue, TP!clock, TP!control, TP!registers
<1>3. [T!RunnerNext]_(T!timerVars) => [TP!RunnerNext]_(TP!timerVars)
  BY <1>2, SameTimerSteps
<1>4. [TP!RunnerNext]_(TP!timerVars) => [TP!ApiNext]_(TP!timerVars)
  BY DEF TP!ApiNext
<1> QED
  BY <1>1, <1>3, <1>4, PTL DEF T!RunnerSpec, TP!RunnerSpec, TP!ApiSpec

LEMMA TimerIsTyped == T!RunnerSpec => [](TP!TimerTypeOK /\ TP!ClockAtRest /\ TP!TimerInv)
<1>1. TP!ApiSpec => []TP!TimerTypeOK
  BY TP!TimerTypeCorrect, ConstantsFit
<1>2. TP!ApiSpec => []TP!ClockAtRest
  BY TP!TimerLeavesTheClockExact, ConstantsFit
<1>3. TP!RunnerSpec => []TP!TimerInv
  BY TP!TimerInvariance, ConstantsFit
<1> QED
  BY <1>1, <1>2, <1>3, SameTimer, PTL

(* Every end of main without an exit code has a cause: the callbacks of the*)
(* logger are set before the reset logs the first message, and inside of an*)
(* instruction it is the queue that is full or an event that no function   *)
(* goes with, as the timer's own invariant has it for every program.       *)
THEOREM EveryCrashHasACause == Address = Word => (MainSpec => []CrashesAreExplained)
<1> SUFFICES ASSUME Address = Word
             PROVE  MainSpec => []CrashesAreExplained
  OBVIOUS
<1>1. MainSpec => []TP!TimerInv
  BY SystemImplementsTimer, TimerIsTyped, PTL DEF ImplementsTimer
<1>2. TP!TimerInv => T!StopsAreExplained
  BY DEF TP!TimerInv, TP!StopsAreExplained, TP!EventIsDue, T!StopsAreExplained, T!EventIsDue
<1>3. MainInv /\ TP!TimerInv => CrashesAreExplained
  BY <1>2 DEF MainInv, AtRest, T!Stopped, CrashesAreExplained
<1> QED
  BY <1>1, <1>3, MainStays, PTL

-----------------------------------------------------------------------------
(* What an instruction has still to call: bytes for devices, and the report*)
(* of its cycles at the end or not at all.                                 *)
Devices == {"putchar", "handle_tima_write", "handle_tma_write", "handle_tac_write", "none"}
CallRecords == [to : Devices \cup {"add_cycles"}, argument : Nat]

CallsInv ==
  /\ calls \in Seq(CallRecords)
  /\ \A i \in 1 .. Len(calls) :
       /\ calls[i].to = "add_cycles" => calls[i].argument \in CycleCounts /\ i = Len(calls)
       /\ calls[i].to # "add_cycles" => calls[i].argument \in Byte

Reports == calls # <<>> /\ calls[Len(calls)].to = "add_cycles"

LEMMA PortsAreDevices == \A a : Port(a) \in Devices
BY Zenon DEF Port, Devices

LEMMA DeviceCalls ==
  ASSUME NEW ws \in Seq(Writes), NEW cs,
         cs = [i \in 1 .. Len(ws) |-> [to |-> Port(ws[i].address), argument |-> ws[i].data]]
  PROVE  /\ cs \in Seq(CallRecords) /\ Len(cs) = Len(ws) /\ Len(ws) \in Nat
         /\ \A i \in 1 .. Len(cs) :
              cs[i].to # "add_cycles" /\ cs[i].argument \in Byte
<1>1. Len(ws) \in Nat /\ \A i \in 1 .. Len(ws) : ws[i] \in Writes
  BY LenProperties
<1>2. \A i \in 1 .. Len(ws) : ws[i].data \in Byte /\ ws[i].data \in Nat
  BY <1>1, Bytes DEF Writes
<1>3. cs \in [1 .. Len(ws) -> CallRecords]
  BY <1>2, PortsAreDevices DEF CallRecords, Devices
<1>4. cs \in Seq(CallRecords) /\ Len(cs) = Len(ws)
  BY <1>1, <1>3
<1>5. \A i \in 1 .. Len(ws) : cs[i].to # "add_cycles" /\ cs[i].argument \in Byte
  BY <1>2, PortsAreDevices DEF Devices
<1> QED
  BY <1>1, <1>4, <1>5

LEMMA NewCalls ==
  ASSUME NEW ws \in Seq(Writes), NEW t \in 0 .. 24, calls' = CallsOf(ws, t)
  PROVE  /\ CallsInv'
         /\ t = 0 => ~Reports'
         /\ t # 0 => Reports' /\ calls'[Len(calls')].argument = t
<1> DEFINE cs == [i \in 1 .. Len(ws) |->
                    [to |-> Port(ws[i].address), argument |-> ws[i].data]]
           report == [to |-> "add_cycles", argument |-> t]
<1>1. /\ cs \in Seq(CallRecords) /\ Len(cs) \in Nat
      /\ \A i \in 1 .. Len(cs) : cs[i].to # "add_cycles" /\ cs[i].argument \in Byte
  BY DeviceCalls
<1>2. calls' = cs \o (IF t = 0 THEN <<>> ELSE <<report>>)
  BY DEF CallsOf
<1> HIDE DEF cs
<1>3. CASE t = 0
  <2>1. calls' = cs
    BY <1>1, <1>2, <1>3, ConcatEmptySeq
  <2> QED
    BY <1>1, <1>3, <2>1, EmptySeq DEF CallsInv, Reports
<1>4. CASE t # 0
  <2>1. t \in CycleCounts /\ t \in Nat
    BY <1>4 DEF CycleCounts
  <2>a. report \in CallRecords
    BY <2>1 DEF CallRecords
  <2>3. calls' = cs \o <<report>>
    BY <1>2, <1>4
  <2> HIDE DEF report
  <2>2. <<report>> \in Seq(CallRecords) /\ Len(<<report>>) = 1 /\ <<report>>[1] = report
    BY <2>a
  <2>4. /\ calls' \in Seq(CallRecords)
        /\ Len(calls') = Len(cs) + 1
        /\ \A i \in 1 .. Len(cs) + 1 :
             calls'[i] = IF i <= Len(cs) THEN cs[i] ELSE <<report>>[i - Len(cs)]
    BY <1>1, <2>2, <2>3, ConcatProperties
  <2>5. \A i \in 1 .. Len(cs) : calls'[i] = cs[i]
    BY <1>1, <2>4
  <2>6. calls'[Len(cs) + 1] = report
    BY <1>1, <2>2, <2>4
  <2>7. report.to = "add_cycles" /\ report.argument = t
    BY DEF report
  <2>8. CallsInv'
    BY <1>1, <2>1, <2>4, <2>5, <2>6, <2>7 DEF CallsInv
  <2>9. calls' # <<>>
    BY <1>1, <2>4, EmptySeq
  <2> QED
    BY <1>4, <2>4, <2>6, <2>7, <2>8, <2>9 DEF Reports
<1> QED
  BY <1>3, <1>4

LEMMA NextCall ==
  ASSUME CallsInv, NEW name, Calls(name)
  PROVE  /\ CallsInv'
         /\ name # "add_cycles" =>
              /\ Reports' <=> Reports
              /\ Reports => calls'[Len(calls')].argument = calls[Len(calls)].argument
              /\ Argument \in Byte
         /\ name = "add_cycles" =>
              /\ Reports /\ Argument = calls[Len(calls)].argument /\ calls' = <<>>
              /\ Argument \in CycleCounts
<1>1. calls \in Seq(CallRecords) /\ calls # <<>> /\ calls' = Tail(calls)
  BY DEF CallsInv, Calls
<1>2. /\ Len(calls) \in Nat \ {0}
      /\ Tail(calls) \in Seq(CallRecords)
      /\ Len(Tail(calls)) = Len(calls) - 1
      /\ \A i \in 1 .. Len(Tail(calls)) : Tail(calls)[i] = calls[i + 1]
      /\ Head(calls) = calls[1]
  BY <1>1, EmptySeq, HeadTailProperties
<1>a. \A i \in 1 .. Len(calls) :
       /\ calls[i].to = "add_cycles" => calls[i].argument \in CycleCounts /\ i = Len(calls)
       /\ calls[i].to # "add_cycles" => calls[i].argument \in Byte
  BY DEF CallsInv
<1>b. 1 \in 1 .. Len(calls)
  BY <1>2
<1>3. CallsInv'
  <2>1. Len(calls') = Len(calls) - 1 /\ calls' \in Seq(CallRecords)
    BY <1>1, <1>2
  <2>2. ASSUME NEW i \in 1 .. Len(calls')
        PROVE  calls'[i] = calls[i + 1] /\ i + 1 \in 1 .. Len(calls)
    BY <1>1, <1>2, <2>1
  <2>3. ASSUME NEW i \in 1 .. Len(calls')
        PROVE  /\ calls'[i].to = "add_cycles" =>
                    calls'[i].argument \in CycleCounts /\ i = Len(calls')
               /\ calls'[i].to # "add_cycles" => calls'[i].argument \in Byte
    <3>1. i \in Nat /\ i <= Len(calls) - 1 /\ Len(calls) \in Nat
      BY <1>2, <2>1
    <3> DEFINE c == calls'[i]
    <3>2. /\ c.to = "add_cycles" => c.argument \in CycleCounts /\ i + 1 = Len(calls)
          /\ c.to # "add_cycles" => c.argument \in Byte
      BY <1>a, <2>2
    <3> HIDE DEF c
    <3>3. i + 1 = Len(calls) => i = Len(calls')
      BY <2>1, <3>1
    <3> QED
      BY <3>2, <3>3 DEF c
  <2> QED
    BY <2>1, <2>3 DEF CallsInv
<1>4. calls[1].to = name /\ Argument = calls[1].argument
  BY <1>2 DEF Calls, Argument
<1>5. ASSUME name # "add_cycles"
      PROVE  /\ Reports' => Reports
             /\ Reports => Reports'
             /\ Reports => calls'[Len(calls')].argument = calls[Len(calls)].argument
             /\ Argument \in Byte
  <2>1. Argument \in Byte
    BY <1>a, <1>b, <1>4, <1>5
  <2>2. CASE Len(calls) = 1
    <3>1. ~Reports
      BY <1>4, <1>5, <2>2 DEF Reports
    <3>2. calls' = <<>>
      BY <1>1, <1>2, <2>2, EmptySeq
    <3> QED
      BY <2>1, <3>1, <3>2 DEF Reports
  <2>3. CASE Len(calls) > 1
    <3>1. Len(calls') \in Nat \ {0} /\ calls'[Len(calls')] = calls[Len(calls)]
      BY <1>1, <1>2, <2>3
    <3>2. calls' # <<>>
      BY <3>1, EmptySeq
    <3> QED
      BY <1>1, <2>1, <3>1, <3>2 DEF Reports
  <2> QED
    BY <1>2, <2>2, <2>3
<1>6. ASSUME name = "add_cycles"
      PROVE  /\ Reports /\ Argument = calls[Len(calls)].argument /\ calls' = <<>>
             /\ Argument \in CycleCounts
  <2>1. Len(calls) = 1 /\ Argument \in CycleCounts
    BY <1>a, <1>b, <1>4, <1>6
  <2>2. calls' = <<>>
    BY <1>1, <1>2, <2>1, EmptySeq
  <2> QED
    BY <1>1, <1>4, <1>6, <2>1, <2>2 DEF Reports
<1> QED
  BY <1>3, <1>5, <1>6

-----------------------------------------------------------------------------
(* The clock is behind the cycles reported by the report still to be made. *)
ClockInv ==
  /\ CallsInv
  /\ elapsed \in 0 .. Wrap - 1
  /\ Reports => elapsed = (timestamp_next + calls[Len(calls)].argument) % Wrap
  /\ ~Reports => elapsed = timestamp_next

LEMMA WrapsAround ==
  /\ \A n \in 0 .. Wrap - 1, t \in 0 .. 24 : (n + t) % Wrap \in 0 .. Wrap - 1
  /\ \A n \in 0 .. Wrap - 1 : (n + 0) % Wrap = n
BY WrapAssumption

LEMMA SameClock ==
  ASSUME ClockInv, UNCHANGED <<calls, elapsed, timestamp_next>>
  PROVE  ClockInv'
BY DEF ClockInv, CallsInv, Reports

LEMMA NoCalls ==
  ASSUME calls = <<>>
  PROVE  CallsInv /\ ~Reports
<1>1. <<>> \in Seq(CallRecords) /\ Len(<<>>) = 0
  BY EmptySeq
<1> QED
  BY <1>1 DEF CallsInv, Reports

LEMMA NoCallsNext ==
  ASSUME calls' = <<>>
  PROVE  CallsInv' /\ ~Reports'
<1>1. <<>> \in Seq(CallRecords) /\ Len(<<>>) = 0
  BY EmptySeq
<1> QED
  BY <1>1 DEF CallsInv, Reports

LEMMA StepCounts ==
  ASSUME ClockInv, Step, writes' \in Seq(Writes), cycles' \in 0 .. 24
  PROVE  ClockInv'
<1>1. calls = <<>> /\ timestamp_next' = timestamp_next
  BY DEF Step, AtRest, timerVars, clock
<1>2. elapsed = timestamp_next /\ elapsed \in 0 .. Wrap - 1
  BY <1>1, NoCalls DEF ClockInv
<1>3. elapsed' = (elapsed + cycles') % Wrap /\ calls' = CallsOf(writes', cycles')
  BY DEF Step
<1>4. /\ CallsInv'
      /\ cycles' = 0 => ~Reports'
      /\ cycles' # 0 => Reports' /\ calls'[Len(calls')].argument = cycles'
  BY <1>3, NewCalls
<1>5. elapsed' \in 0 .. Wrap - 1
  BY <1>2, <1>3, WrapsAround
<1>6. cycles' = 0 => elapsed' = elapsed
  BY <1>2, <1>3, WrapsAround
<1> QED
  BY <1>1, <1>2, <1>3, <1>4, <1>5, <1>6 DEF ClockInv

LEMMA CallCounts ==
  ASSUME ClockInv, NEW name, Calls(name), name # "add_cycles", UNCHANGED timestamp_next
  PROVE  ClockInv'
<1>1. /\ CallsInv' /\ (Reports' => Reports) /\ (Reports => Reports')
      /\ Reports => calls'[Len(calls')].argument = calls[Len(calls)].argument
  BY NextCall DEF ClockInv
<1>2. elapsed' = elapsed
  BY DEF Calls
<1> QED
  BY <1>1, <1>2 DEF ClockInv

LEMMA GoingOnCounts ==
  ASSUME ClockInv, TP!ClockAtRest, InstructionGoesOn
  PROVE  ClockInv'
<1>1. CASE WriteElsewhere
  <2>1. \E name \in {"putchar", "none"} : Calls(name)
    BY <1>1 DEF WriteElsewhere
  <2>2. UNCHANGED timestamp_next
    BY <1>1 DEF WriteElsewhere, timerVars, clock
  <2> QED
    BY <2>1, <2>2, CallCounts
<1>2. CASE WriteTima \/ WriteTma
  <2>1. UNCHANGED timestamp_next
    BY <1>2 DEF WriteTima, WriteTma, T!TimaWrite, T!TmaWrite, T!vars, T!clock
  <2> QED
    BY <1>2, <2>1, CallCounts DEF WriteTima, WriteTma
<1>3. CASE WriteTacEnabling
  <2>1. UNCHANGED timestamp_next
    BY <1>3 DEF WriteTacEnabling, T!TacEnable, T!insert_timer_event, T!InsertEvent,
       T!AssertFails, T!clock
  <2> QED
    BY <1>3, <2>1, CallCounts DEF WriteTacEnabling
<1>4. CASE WriteTacDisabling \/ WriteTacIgnored
  <2>1. UNCHANGED timestamp_next
    BY <1>4 DEF WriteTacDisabling, WriteTacIgnored, T!TacDisable, T!vars, T!clock,
       timerVars, clock
  <2> QED
    BY <1>4, <2>1, CallCounts DEF WriteTacDisabling, WriteTacIgnored
<1>5. CASE ReportCycles
  <2>1. /\ Reports /\ Argument = calls[Len(calls)].argument /\ calls' = <<>>
        /\ Argument \in CycleCounts
    BY <1>5, NextCall DEF ReportCycles, ClockInv
  <2>2. timestamp_now = timestamp_next /\ elapsed' = elapsed
    BY <1>5 DEF ReportCycles, Calls, TP!ClockAtRest
  <2>3. timestamp_next' = elapsed
    BY <1>5, <2>1, <2>2 DEF ReportCycles, ClockInv
  <2> QED
    BY <2>1, <2>2, <2>3, NoCallsNext DEF ClockInv
<1>6. CASE TacInsertsOverflow
  <2>1. UNCHANGED timestamp_next
    BY <1>6 DEF TacInsertsOverflow, T!TacInsertOverflow, T!insert_timer_event,
       T!InsertEvent, T!AssertFails, T!clock
  <2> QED
    BY <1>6, <2>1, SameClock DEF TacInsertsOverflow, CpuWaits
<1>7. CASE TacIsSet
  BY <1>7, SameClock DEF TacIsSet, CpuWaits, T!TacSet, T!clock
<1>8. CASE TimaIncrements \/ TimaOverflows
  <2>1. T!InsertAgainIfEnabled /\ UNCHANGED <<calls, elapsed>>
    BY <1>8 DEF TimaIncrements, TimaOverflows, T!HandleTimaIncrement, T!ReloadTima, CpuWaits
  <2>2. UNCHANGED timestamp_next
    BY <2>1 DEF T!InsertAgainIfEnabled, T!insert_timer_event, T!InsertEvent,
       T!AssertFails, T!clock
  <2> QED
    BY <2>1, <2>2, SameClock
<1>9. CASE SchedulerGoesOn
  <2>1. T!DeleteMin("returned") => UNCHANGED timestamp_next
    BY DEF T!DeleteMin
  <2>2. T!SiftUp \/ T!SiftUpRoot \/ T!SiftUpFront \/ T!CallCallback =>
          UNCHANGED timestamp_next
    BY DEF T!SiftUp, T!SiftUpRoot, T!SiftUpFront, T!CallCallback, T!clock
  <2>3. T!SiftDown \/ T!StepReturns => UNCHANGED timestamp_next
    BY DEF T!SiftDown, T!StepReturns, T!clock
  <2> QED
    BY <1>9, <2>1, <2>2, <2>3, SameClock DEF SchedulerGoesOn, CpuWaits, T!Machinery
<1> QED
  BY <1>1, <1>2, <1>3, <1>4, <1>5, <1>6, <1>7, <1>8, <1>9 DEF InstructionGoesOn

LEMMA MainCounts ==
  ASSUME Address = Word, TypedAndFetched, ClockInv, TP!ClockAtRest, [MainNext]_runnerVars
  PROVE  ClockInv'
<1>1. CASE OpenFails \/ ReadIntoNull \/ OpenRom \/ SetLogLevelCb \/ SetCart \/ OpenTrace
  <2>1. UNCHANGED <<calls, elapsed, timestamp_next>>
    BY <1>1 DEF OpenFails, ReadIntoNull, OpenRom, SetLogLevelCb, SetCart, OpenTrace,
       systemVars, timerVars, clock
  <2> QED
    BY <2>1, SameClock
<1>2. CASE ResetSystem
  <2>1. calls' = <<>> /\ elapsed' = 0 /\ timestamp_next' = 0
    BY <1>2 DEF ResetSystem, SystemReset, T!SystemReset, T!Reset
  <2>2. 0 \in 0 .. Wrap - 1
    BY WrapAssumption
  <2> QED
    BY <2>1, <2>2, NoCallsNext DEF ClockInv
<1>3. CASE TraceIntoNull \/ KnownEnd \/ Exit
  <2>1. UNCHANGED <<calls, elapsed, timestamp_next>>
    BY <1>3 DEF TraceIntoNull, KnownEnd, Exit, systemVars, timerVars, clock
  <2> QED
    BY <2>1, SameClock
<1>4. CASE StepSystem
  <2>1. TypedAndFetched'
    BY MainKeepsTyped
  <2>2. writes' \in Seq(Writes) /\ cycles' \in 0 .. 24
    BY <2>1 DEF TypedAndFetched, CpuInv, MemoryOK, Writes
  <2> QED
    BY <1>4, <2>2, StepCounts DEF StepSystem
<1>5. CASE StepGoesOn
  BY <1>5, GoingOnCounts DEF StepGoesOn
<1>6. CASE UNCHANGED runnerVars
  BY <1>6, SameClock DEF runnerVars, systemVars, timerVars, clock
<1> QED
  BY <1>1, <1>2, <1>3, <1>4, <1>5, <1>6 DEF MainNext

LEMMA RunnerCounts == Address = Word => (MainSpec => [](ClockInv /\ TP!ClockAtRest))
<1> SUFFICES ASSUME Address = Word
             PROVE  MainSpec => [](ClockInv /\ TP!ClockAtRest)
  OBVIOUS
<1>1. MainSpec => []TP!ClockAtRest
  BY SystemImplementsTimer, TimerIsTyped, PTL DEF ImplementsTimer
<1>2. MainInit => ClockInv
  <2> SUFFICES ASSUME MainInit
               PROVE  ClockInv
    OBVIOUS
  <2>1. calls = <<>> /\ elapsed = 0 /\ timestamp_next = 0
    BY DEF MainInit, SystemInit, T!Init
  <2>2. 0 \in 0 .. Wrap - 1
    BY WrapAssumption
  <2> QED
    BY <2>1, <2>2, NoCalls DEF ClockInv
<1>3. TypedAndFetched /\ ClockInv /\ TP!ClockAtRest /\ [MainNext]_runnerVars => ClockInv'
  BY MainCounts
<1> QED
  BY <1>1, <1>2, <1>3, RunnerIsTyped, PTL DEF MainSpec

(* The clock counts every cycle that an instruction reports once, modulo   *)
(* its width, whatever add_cycles and the handlers do to it in between.    *)
THEOREM ClockIsRight == Address = Word => (MainSpec => []ClockCountsCycles)
<1>1. ClockInv /\ TP!ClockAtRest => ClockCountsCycles
  <2> SUFFICES ASSUME ClockInv, TP!ClockAtRest, AtRest
               PROVE  timestamp_now = elapsed
    BY DEF ClockCountsCycles
  <2>1. elapsed = timestamp_next
    BY NoCalls DEF ClockInv, AtRest
  <2> QED
    BY <2>1 DEF TP!ClockAtRest, AtRest
<1> QED
  BY <1>1, RunnerCounts, PTL

(* The types of all of it.  The guards of Timer that bound what is written *)
(* to its registers and what is reported hold of every call the CPU makes. *)
THEOREM SystemTypeCorrect == Address = Word => (MainSpec => []SystemTypeOK)
<1> SUFFICES ASSUME Address = Word
             PROVE  MainSpec => []SystemTypeOK
  OBVIOUS
<1>1. MainSpec => []TP!TimerTypeOK
  BY SystemImplementsTimer, TimerIsTyped, PTL DEF ImplementsTimer
<1>2. TP!TimerTypeOK => T!TimerTypeOK
  BY DEF TP!TimerTypeOK, TP!Cells, TP!Front, TP!Event, TP!Time, TP!Byte, TP!Tac, TP!Clock,
         T!TimerTypeOK, T!Cells, T!Front, T!Event, T!Time, T!Byte, T!Tac, T!Clock
<1>3. TypedAndFetched => CpuTypeOK
  BY DEF TypedAndFetched, CpuInv, MemoryOK, RegOK, CpuTypeOK, Writes
<1>4. ClockInv /\ TP!ClockAtRest =>
        /\ timestamp_now \in 0 .. Wrap - 1
        /\ elapsed \in 0 .. Wrap - 1
  BY DEF ClockInv, TP!ClockAtRest, TP!Time
<1>5. ClockInv =>
        \A i \in DOMAIN calls :
          calls[i].argument \in IF calls[i].to = "add_cycles" THEN CycleCounts ELSE Byte
  <2> SUFFICES ASSUME ClockInv, NEW i \in DOMAIN calls
               PROVE  calls[i].argument \in
                        IF calls[i].to = "add_cycles" THEN CycleCounts ELSE Byte
    OBVIOUS
  <2>1. i \in 1 .. Len(calls)
    BY LenProperties DEF ClockInv, CallsInv
  <2> QED
    BY <2>1 DEF ClockInv, CallsInv
<1>6. TypedAndFetched /\ TP!TimerTypeOK /\ ClockInv /\ TP!ClockAtRest => SystemTypeOK
  BY <1>2, <1>3, <1>4, <1>5 DEF SystemTypeOK
<1> QED
  BY <1>1, <1>6, RunnerIsTyped, RunnerCounts, PTL
=============================================================================
