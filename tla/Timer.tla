------------------------------- MODULE Timer --------------------------------
(***************************************************************************)
(* timer.c: the registers TIMA, TMA and TAC and the only client of the     *)
(* scheduler.  Enabling the timer inserts an increment and an overflow     *)
(* event; each handler inserts its event again while the timer is enabled. *)
(*                                                                         *)
(* The scheduler calls the handlers back in the middle of add_cycles and   *)
(* the handlers call insert_event, so the steps of both are interleaved    *)
(* here: pc has, besides the values of Scheduler, "tac_overflow" and       *)
(* "tac_set" inside handle_tac_write and "returned" when a handler is over.*)
(* The CPU writes to the registers between two calls of add_cycles.        *)
(***************************************************************************)
EXTENDS Scheduler

CONSTANTS
  BYTE,   \* number of values of a uint8_t, 256
  timing  \* cycles between two events for each value of the clock bits

VARIABLES
  tima,            \* timer.tima
  tma,             \* timer.tma
  tac,             \* timer.tac: its enable bit and its clock bits
  new_tac,         \* the argument of handle_tac_write, tac when it is over
  interrupt_timer  \* bit LIBYAGBE_BUS_IF_TIMER of bus.interrupt_flag

registers == <<tima, tma, tac, new_tac, interrupt_timer>>
timerVars == <<vars, registers>>

Byte == 0 .. BYTE - 1
Clock == 0 .. 3
Tac == [enabled : BOOLEAN, clock : Clock]
handle_tima_increment == "handle_tima_increment"
handle_tima_overflow == "handle_tima_overflow"

ASSUME ByteAssumption == BYTE \in Nat \ {0}
ASSUME TimingAssumption == timing \in [Clock -> Nat]
ASSUME HandlerAssumption == Callbacks = {handle_tima_increment, handle_tima_overflow}

-----------------------------------------------------------------------------
(* The registers are static data: zero, since nothing in the library calls *)
(* libyagbe_timer_reset.                                                   *)
TimerInit ==
  /\ Init
  /\ tima = 0
  /\ tma = 0
  /\ tac = [enabled |-> FALSE, clock |-> 0]
  /\ new_tac = tac
  /\ interrupt_timer = FALSE

(* Both events are inserted before TAC is set, and the object they are     *)
(* described in lies somewhere on the stack.                               *)
insert_timer_event(from, to) ==
  \E address \in Addresses : InsertEvent(address, from, to)

TacEnable ==
  /\ ~tac.enabled
  /\ \E clock_bits \in Clock : new_tac' = [enabled |-> TRUE, clock |-> clock_bits]
  /\ insert_timer_event("idle", "tac_overflow")
  /\ UNCHANGED <<tima, tma, tac, interrupt_timer>>

TacInsertOverflow ==
  /\ insert_timer_event("tac_overflow", "tac_set")
  /\ UNCHANGED registers

(* Slip: set_tac_value is forgotten.                                       *)
TacNotSet ==
  /\ pc = "tac_set"
  /\ pc' = "idle"
  /\ UNCHANGED <<queue, clock, at, ret, ordered, registers>>

TacSet ==
  /\ pc = "tac_set"
  /\ tac' = new_tac
  /\ pc' = "idle"
  /\ UNCHANGED <<queue, clock, at, ret, ordered, tima, tma, new_tac, interrupt_timer>>

(* libyagbe_scheduler_delete_event_group looks at every event and deletes  *)
(* none.  A write that leaves the enable bit as it is changes nothing, so  *)
(* it is no action: the clock bits it brings are dropped.                  *)
TacDisable ==
  /\ pc = "idle"
  /\ tac.enabled
  /\ \E clock_bits \in Clock : tac' = [enabled |-> FALSE, clock |-> clock_bits]
  /\ new_tac' = tac'
  /\ UNCHANGED <<vars, tima, tma, interrupt_timer>>

TimaWrite ==
  /\ pc = "idle"
  /\ tima' \in Byte
  /\ UNCHANGED <<vars, tma, tac, new_tac, interrupt_timer>>

TmaWrite ==
  /\ pc = "idle"
  /\ tma' \in Byte
  /\ UNCHANGED <<vars, tima, tac, new_tac, interrupt_timer>>

(* The CPU writes IF through the bus.                                      *)
InterruptFlagWrite ==
  /\ pc = "idle"
  /\ interrupt_timer' \in BOOLEAN
  /\ UNCHANGED <<vars, tima, tma, tac, new_tac>>

-----------------------------------------------------------------------------
(* Slips: the enable bit is tested the wrong way, or not at all.           *)
InsertAgainIfDisabled ==
  \/ ~tac.enabled /\ insert_timer_event("callback", "returned")
  \/ /\ tac.enabled
     /\ pc' = "returned"
     /\ UNCHANGED <<queue, clock, at, ret, ordered>>

InsertAgainAlways == insert_timer_event("callback", "returned")

InsertAgainIfEnabled ==
  \/ tac.enabled /\ insert_timer_event("callback", "returned")
  \/ /\ ~tac.enabled
     /\ pc' = "returned"
     /\ UNCHANGED <<queue, clock, at, ret, ordered>>

(* Slip: TIMA counts on in a type wider than a byte.                       *)
HandleTimaIncrementUnwrapped ==
  /\ pc = "callback"
  /\ events[0].cb = handle_tima_increment
  /\ tima' = tima + 1
  /\ InsertAgainIfEnabled
  /\ UNCHANGED <<tma, tac, new_tac, interrupt_timer>>

HandleTimaIncrement ==
  /\ pc = "callback"
  /\ events[0].cb = handle_tima_increment
  /\ tima' = (tima + 1) % BYTE
  /\ InsertAgainIfEnabled
  /\ UNCHANGED <<tma, tac, new_tac, interrupt_timer>>

(* handle_tima_overflow without its call of the bus.                       *)
ReloadTima ==
  /\ pc = "callback"
  /\ events[0].cb = handle_tima_overflow
  /\ tima' = tma
  /\ InsertAgainIfEnabled
  /\ UNCHANGED <<tma, tac, new_tac>>

HandleTimaOverflow == ReloadTima /\ interrupt_timer' = TRUE

SchedulerSteps ==
  /\ \/ AddCycles
     \/ DeleteMin("returned")
     \/ Machinery
  /\ UNCHANGED registers

(* libyagbe_system_reset (gb.c) resets the scheduler and leaves the timer. *)
SystemReset ==
  /\ Reset
  /\ UNCHANGED registers

(* Slip: resetting the timer empties the queue and leaves its clock.       *)
TimerResetEmptiesQueue ==
  /\ pc = "idle"
  /\ tima' = 0
  /\ tma' = 0
  /\ tac' = [enabled |-> FALSE, clock |-> 0]
  /\ new_tac' = tac'
  /\ heap_size' = 0
  /\ UNCHANGED <<events, clock, control, ordered, interrupt_timer>>

TimerReset ==
  /\ pc = "idle"
  /\ tima' = 0
  /\ tma' = 0
  /\ tac' = [enabled |-> FALSE, clock |-> 0]
  /\ new_tac' = tac'
  /\ UNCHANGED <<vars, interrupt_timer>>

-----------------------------------------------------------------------------
(* What the runner's program can do: main.c resets the system only once.   *)
RunnerNext ==
  \/ TacEnable \/ TacInsertOverflow \/ TacSet \/ TacDisable
  \/ TimaWrite \/ TmaWrite \/ InterruptFlagWrite
  \/ HandleTimaIncrement \/ HandleTimaOverflow
  \/ SchedulerSteps

(* What the public headers allow.                                          *)
ApiNext == RunnerNext \/ SystemReset \/ TimerReset

RunnerSpec == TimerInit /\ [][RunnerNext]_timerVars
ApiSpec == TimerInit /\ [][ApiNext]_timerVars

(* A call that has begun goes on: the program is one sequential thread.    *)
CallGoesOn ==
  \/ TacInsertOverflow \/ TacSet
  \/ HandleTimaIncrement \/ HandleTimaOverflow
  \/ (DeleteMin("returned") \/ Machinery) /\ UNCHANGED registers

FairSpec == ApiSpec /\ WF_timerVars(CallGoesOn)

-----------------------------------------------------------------------------
Enabling == pc \in {"tac_overflow", "tac_set"} \/
            (pc = "up" /\ ret \in {"tac_overflow", "tac_set"})
Firing == pc \in {"callback", "returned"} \/ (pc = "up" /\ ret = "returned")

TimerTypeOK ==
  /\ events \in [Cells -> Event]
  /\ heap_size \in 0 .. MAX_EVENTS - 1
  /\ pc \in {"idle", "up", "loop", "callback", "down", "aborted", "crashed",
             "tac_overflow", "tac_set", "returned"}
  /\ ret \in {"idle", "tac_overflow", "tac_set", "returned"}
  /\ tima \in Byte
  /\ tma \in Byte
  /\ tac \in Tac
  /\ new_tac \in Tac
  /\ interrupt_timer \in BOOLEAN

(* An enabled timer keeps two events: each handler puts one back before    *)
(* its own is deleted (timer.c:79-89).                                     *)
TimerKeepsItsEvents ==
  tac.enabled /\ ~Stopped =>
    heap_size >= 2 + (IF pc = "returned" THEN 1 ELSE 0)

(* TAC, the argument of its write and the events inserted so far agree at  *)
(* each place of the code.                                                 *)
PlacesAgree ==
  /\ Enabling => ~tac.enabled /\ new_tac.enabled
  /\ ~Enabling /\ ~Stopped => new_tac = tac
  /\ pc = "tac_overflow" \/ (pc = "up" /\ ret = "tac_set") => heap_size >= 1
  /\ pc = "tac_set" => heap_size >= 2
  /\ Firing => heap_size >= 1
  /\ pc = "up" /\ ret = "returned" => tac.enabled
  /\ pc = "up" => ret \in {"tac_overflow", "tac_set", "returned"}

(* What stops the program inside of the library: an insertion by a timer   *)
(* that is enabled or being enabled into a full queue (scheduler.c:129),   *)
(* or a due event that carries no function (scheduler.c:115).              *)
StopsAreExplained ==
  /\ pc = "aborted" => new_tac.enabled /\ heap_size = MAX_EVENTS - 1
  /\ pc = "crashed" => EventIsDue /\ events[0].cb \notin Callbacks

TimerInv ==
  /\ heap_size \in Nat /\ tac \in Tac /\ new_tac \in Tac
  /\ PlacesAgree
  /\ StopsAreExplained
  /\ TimerKeepsItsEvents

(* A timer that stays disabled gains no event, whatever handlers run.      *)
DisabledTimerDrains ==
  [][~tac.enabled /\ ~new_tac'.enabled => heap_size' <= heap_size]_timerVars

(* add_cycles returns, unless a garbage callback ends the program, if the  *)
(* handlers sooner or later put back only events that are not due yet: the *)
(* stale slots that deletions bring back (scheduler.c:72-76) cannot keep   *)
(* step going.                                                             *)
LoopEnds ==
  <>[][pc # "up" /\ pc' = "up" => events'[heap_size].timestamp > timestamp_next]_timerVars
    => (pc = "loop" ~> pc = "idle" \/ Stopped)

-----------------------------------------------------------------------------
SchedulerPlace(place) ==
  IF place \in {"tac_overflow", "tac_set"} THEN "idle"
  ELSE IF place = "returned" THEN "callback" ELSE place

Sched == INSTANCE Scheduler WITH
  pc <- SchedulerPlace(pc), ret <- SchedulerPlace(ret)

(* The timer uses the scheduler as Scheduler's open caller does.           *)
ImplementsScheduler == Sched!Spec

-----------------------------------------------------------------------------
(* scheduler.c:129: there is room for every event that is inserted.        *)
InsertionsFit == pc # "aborted"

(* timer.c:100: "The timer is enabled, which means a TIMA overflow event   *)
(* is already present"; here only some event, of whatever type.            *)
SomeEventIsPresent == tac.enabled /\ pc = "idle" => heap_size > 0

(* scheduler.h:45: a timestamp says how many cycles in the future an event *)
(* is called.                                                              *)
EventsAreInTheFuture ==
  [][pc # "up" /\ pc' = "up" =>
       events'[heap_size].timestamp
         = (timestamp_now + timing[tac.clock]) % Wrap]_timerVars
=============================================================================
