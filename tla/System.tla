------------------------------- MODULE System -------------------------------
(***************************************************************************)
(* gb.c: the CPU on its bus, with the timer and the scheduler behind it.   *)
(*                                                                         *)
(* An instruction does all of its writes, and then reports its cycles; it  *)
(* reads nothing after that.  So Step is Cpu's whole instruction, and calls*)
(* holds what it has still to do outside of the CPU's own state, in the    *)
(* order the code does it: write_memory passes a byte to a device, and     *)
(* add_cycles runs the handlers of the timer, which raise an interrupt in  *)
(* the bus.  The next instruction starts when all of that is over.         *)
(***************************************************************************)
EXTENDS Cpu

CONSTANTS  \* those of Scheduler
  MAX_EVENTS, Wrap, Words, Types, Addresses, StaleWords, Foreign

VARIABLES
  \* those of Scheduler and Timer
  events, heap_size, timestamp_now, timestamp_next, pc, at, ret, ordered,
  tima, tma, tac, new_tac,
  calls,   \* what the instruction under way still has to call
  elapsed  \* history: the cycles reported since the reset, modulo Wrap

queue == <<events, heap_size>>
clock == <<timestamp_now, timestamp_next>>
control == <<pc, at, ret, ordered>>
registers == <<tima, tma, tac, new_tac>>
timerVars == <<queue, clock, control, registers>>
systemVars == <<vars, timerVars, calls, elapsed>>

Handlers == {"handle_tima_increment", "handle_tima_overflow"}
timing ==
  [c \in 0 .. 3 |-> CASE c = 0 -> 1024 [] c = 1 -> 256 [] c = 2 -> 16 [] c = 3 -> 8]

(* What an instruction may report, see the tables of Cpu.                  *)
CycleCounts == 1 .. 24

(* Bit LIBYAGBE_BUS_IF_TIMER of the interrupt flag.                        *)
TimerBit(flag) == (flag \div 4) % 2 = 1

T == INSTANCE Timer WITH
  Cycles <- CycleCounts, Callbacks <- Handlers, BYTE <- 256,
  interrupt_timer <- TimerBit(interrupt_flag)

ASSUME QueueAssumption == MAX_EVENTS \in Nat /\ MAX_EVENTS >= 2
ASSUME WrapAssumption == Wrap \in Nat \ {0} /\ Addresses \subseteq 0 .. Wrap - 1
ASSUME MemoryAssumption ==
  /\ T!NullFunction \in Words \ Handlers
  /\ T!FirstType \in Types
  /\ StaleWords \subseteq [cb : Words, type : Types]
  /\ Foreign \subseteq [timestamp : 0 .. Wrap - 1, cb : Words, type : Types]
  /\ Foreign # {}
ASSUME NoCartridgeAssumption == <<>> \in Roms

-----------------------------------------------------------------------------
(* All of it is static data, zero until the reset, and the pointer to the  *)
(* cartridge is NULL: nothing can be said of what is read through it.      *)
SystemInit ==
  /\ BusInit
  /\ cart_data = <<>>
  /\ reg = [r \in R8 \cup R16 |-> 0]
  /\ instruction = 0
  /\ cycles = 0
  /\ critical = FALSE
  /\ writes = <<>>
  /\ frames = {}
  /\ T!Init
  /\ tima = 0
  /\ tma = 0
  /\ tac = [enabled |-> FALSE, clock |-> 0]
  /\ new_tac = tac
  /\ calls = <<>>
  /\ elapsed = 0

(* libyagbe_system_reset: the timer and the bus keep what they hold.       *)
SystemReset ==
  /\ CpuReset
  /\ T!SystemReset
  /\ elapsed' = 0
  /\ calls' = <<>>

CallsOf(ws, t) ==
  [i \in 1 .. Len(ws) |-> [to |-> Port(ws[i].address), argument |-> ws[i].data]]
    \o (IF t = 0 THEN <<>> ELSE <<[to |-> "add_cycles", argument |-> t]>>)

AtRest == pc = "idle" /\ calls = <<>>

(* libyagbe_system_step, as far as the CPU and the arrays of the bus go.   *)
Step ==
  /\ AtRest
  /\ CpuStep
  /\ calls' = CallsOf(writes', cycles')
  /\ elapsed' = (elapsed + cycles') % Wrap
  /\ UNCHANGED timerVars

(* The next call the instruction makes, of the function called name.       *)
Calls(name) ==
  /\ pc = "idle"
  /\ calls # <<>>
  /\ Head(calls).to = name
  /\ calls' = Tail(calls)
  /\ UNCHANGED <<vars, elapsed>>

Argument == Head(calls).argument

(* The serial port prints the byte; the rest ended in the arrays.          *)
WriteElsewhere ==
  /\ \E name \in {"putchar", "none"} : Calls(name)
  /\ UNCHANGED timerVars

WriteTima ==
  /\ Calls("handle_tima_write")
  /\ tima' = Argument
  /\ T!TimaWrite

WriteTma ==
  /\ Calls("handle_tma_write")
  /\ tma' = Argument
  /\ T!TmaWrite

TacOf(d) == [enabled |-> (d \div 4) % 2 = 1, clock |-> d % 4]

WriteTacEnabling ==
  /\ Calls("handle_tac_write")
  /\ TacOf(Argument).enabled
  /\ new_tac' = TacOf(Argument)
  /\ T!TacEnable

WriteTacDisabling ==
  /\ Calls("handle_tac_write")
  /\ ~TacOf(Argument).enabled
  /\ tac' = TacOf(Argument)
  /\ T!TacDisable

(* The enable bit stays as it is: neither test of the handler succeeds.    *)
WriteTacIgnored ==
  /\ Calls("handle_tac_write")
  /\ TacOf(Argument).enabled = tac.enabled
  /\ UNCHANGED timerVars

ReportCycles ==
  /\ Calls("add_cycles")
  /\ timestamp_next' = (timestamp_now + Argument) % Wrap
  /\ T!AddCycles
  /\ UNCHANGED registers

-----------------------------------------------------------------------------
(* Inside of add_cycles and of the write to TAC the CPU waits.             *)
CpuWaits == UNCHANGED <<vars, calls, elapsed>>

TacInsertsOverflow == CpuWaits /\ T!TacInsertOverflow
TacIsSet == CpuWaits /\ T!TacSet
TimaIncrements == CpuWaits /\ T!HandleTimaIncrement

(* The handler of the overflow calls the bus for its interrupt.            *)
TimaOverflows ==
  /\ T!ReloadTima
  /\ SetInterrupt
  /\ UNCHANGED <<cpuVars, calls, elapsed>>

SchedulerGoesOn ==
  /\ CpuWaits
  /\ T!DeleteMin("returned") \/ T!Machinery
  /\ UNCHANGED registers

InstructionGoesOn ==
  \/ WriteElsewhere \/ WriteTima \/ WriteTma
  \/ WriteTacEnabling \/ WriteTacDisabling \/ WriteTacIgnored
  \/ ReportCycles
  \/ TacInsertsOverflow \/ TacIsSet
  \/ TimaIncrements \/ TimaOverflows
  \/ SchedulerGoesOn

-----------------------------------------------------------------------------
SystemTypeOK ==
  /\ CpuTypeOK
  /\ T!TimerTypeOK
  /\ timestamp_now \in 0 .. Wrap - 1
  /\ \A i \in DOMAIN calls :
       calls[i].argument \in IF calls[i].to = "add_cycles" THEN CycleCounts ELSE Byte
  /\ elapsed \in 0 .. Wrap - 1

(* Between two instructions the clock of the scheduler is the cycles that  *)
(* the CPU reported, each once, though the loop of add_cycles sets it back *)
(* to every event it runs and the handlers insert more of them.            *)
ClockCountsCycles == AtRest => timestamp_now = elapsed

(* Seen from the timer, the CPU is one of the programs that Timer allows:  *)
(* writes reach it between two calls of add_cycles only, a handler is over *)
(* before the next instruction, and bit 2 of IF in the bus is raised by an *)
(* overflow, again if it is set already, and lowered by nothing but a      *)
(* write of the program.                                                   *)
ImplementsTimer == T!RunnerSpec
=============================================================================
