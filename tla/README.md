# Verification of libyagbe

libyagbe (`src/libyagbe`) is a Game Boy emulator library in C90, and `basic_runner`
(`src/frontend/basic_runner`) a program that loads a cartridge and steps it. This directory
holds TLA+ modules for its scheduler, timer, bus and CPU, for the system they make up and for
the program that runs it, the TLC configurations that check them on small instances, and TLAPS
proofs of the theorems that matter most. Source paths below
are relative to the repository; `private/` stands for `src/libyagbe/src/private/` and `public/`
for `src/libyagbe/src/public/libyagbe/`.

Everything in the library is static data and runs in one thread. What makes it hard is not
threads but callbacks that change the queue that is calling them, C objects copied by hand, an
array used as a heap, a hand-written address decoder, and arithmetic of bytes and words that
wraps.

## Inventory

| component | state | operations | hard because | must hold |
|---|---|---|---|---|
| scheduler (`scheduler.c`) | array of events, `heap_size`, `timestamp_now` | reset, insert_event, add_cycles (and the loop, delete_min and both heapify functions under it), delete_event_group | callbacks insert during the loop; wrong bounds in the heap; a copy of the wrong object; clock wrap | each call touches only the cells it may, delete_min finds an event, clock exact; while no deletion or foreign cell has disturbed the heap: root earliest, nothing due left behind |
| timer (`timer.c`) | TIMA, TMA, TAC | three register writes, two event handlers, reset | two insertions before one register is set; handlers insert again from inside the loop | an enabled timer keeps its events, a disabled one gains none, the loop ends when handlers insert no event that is due |
| bus (`bus.c`) | wram0, wram1, hram, IF, IE, cartridge pointer | read, write, set_interrupt, set_cart_data | three nested switches on nibbles | no two addresses share a cell, no cell past its array |
| CPU (`cpu.c`) | six register pairs, current opcode | reset, step (96 opcodes and the CB prefix) | carry between instructions, signed offsets, byte order on the stack, wrap of PC and SP | programs compute what arithmetic says; what is pushed is what is popped |
| system (`gb.c`) | none | reset (scheduler, CPU), step | the reset leaves the timer and the bus; a step calls the timer and, through the scheduler, is called back by it | the clock counts the cycles once, the timer sees writes only between two calls of add_cycles, what is written is what the device holds |
| basic_runner (`main.c`) | `running`, the buffer, the trace file | open_rom, set-up, loop, log handlers | stops only at a critical message, from inside an instruction, or at PC $C8B0; no test of malloc and of the trace's fopen | no NULL is used but for these two, no instruction after a critical message |
| logger (`logger.c`) | three callbacks | set, log | callbacks NULL until set, called untested | set before the first call |
| apu, ppu, disasm, compat | none | none | no code | |

Interaction: the runner calls `system_step`, which is `cpu_step`; the CPU reads and writes
through the bus and reports cycles to the scheduler; the bus passes writes to $FF05 to $FF07
to the timer; the timer inserts events; the scheduler calls the timer's handlers from inside
`add_cycles`, and they insert events again and raise a bit of IF through the bus.

Every exposure to a bug that a test would hardly meet is listed in `PROJECT.json` under
`hazards`, with the line where it bites and the properties that cover it.

## Modules

| module | what it is |
|---|---|
| `EventQueue` | abstract: a bag of pending events, a clock, phases of a call |
| `Scheduler` | `scheduler.c` with an open caller; refines `EventQueue` |
| `SchedulerProofs` | inductive invariant and the safety theorems of `Scheduler` |
| `EventQueueProofs` | the refinement of `EventQueue` |
| `Timer` | `timer.c`; EXTENDS `Scheduler` and interleaves the two; refines `Scheduler` |
| `TimerProofs` | the refinement, the types and the invariants of `Timer` |
| `Memory` | abstract: a flat memory with one location where devices raise bits |
| `Bus` | `bus.c`; refines `Memory` |
| `BusProofs` | type, bounds and refinement for all addresses |
| `Alu` | the `alu_*` helpers as pure operators |
| `Cpu` | `cpu.c`; EXTENDS `Bus` and `Alu` |
| `CpuProofs` | the helpers as arithmetic and their carry; types, unused flags and the stack, for every cartridge; what a single instruction leaves |
| `CpuPrograms` | nine machine-code programs and the results they must have |
| `CpuProgramsProofs` | the nine programs have their results, for all input bytes |
| `System` | `gb.c`; EXTENDS `Cpu`, INSTANCE `Timer`, whose actions it composes with the CPU's; refines `Timer` |
| `Runner` | `main.c` and `logger.c`; EXTENDS `System` |
| `RunnerPrograms` | seven cartridges that use the timer, and what the devices hold at their end |
| `RunnerProofs` | types, clock and refinement of `System`, the crashes and the end of `Runner` |
| `RunnerProgramsProofs` | the seven cartridges leave the devices as they were to leave them |
| `MCScheduler`, `MCTimer`, `MCBus`, `MCCpu`, `MCRunner` | values of the constants for TLC |

Operators commented `Slip:` are deliberate mistakes next to the definition they distort; nothing
uses them. Substituting one for its neighbour must break the property `PROJECT.json` pairs it
with, which shows that the property looks at the code.

### Scheduler

An action is one call of a function of `scheduler.c`, or one iteration of one of the two
recursive heapify functions, so a callback can insert between any two steps of the loop. `pc`
says where control is, `at` is the argument of the running heapify, `ret` where an insertion
returns to.

| code | action |
|---|---|
| `insert_event` up to `heapify_bottom_top` | `InsertEvent` (with `AssertFails`) |
| `heapify_bottom_top` | `SiftUp`, at index 0 `SiftUpRoot`, in front of the array `SiftUpFront`; the last one performs `heap_size++` |
| `add_cycles` up to the loop | `AddCycles` |
| loop condition and `cb_func()` | `CallCallback` |
| rest of the loop body, `delete_min` | `DeleteMin` |
| `heapify_top_bottom` | `SiftDown` |
| end of the loop, last assignment of `add_cycles` | `StepReturns` |

Things the model takes from the code as it is:

- `insert_event` does `memcpy(..., &event, sizeof ...)` where `event` is the pointer parameter.
  The timestamp of the stored event is thus the address of the caller's object (`Addresses`),
  and the other fields are the words after the parameter on the stack (`StaleWords`, any of
  `Words`). Reading past the parameter is undefined behaviour; the choice is over what a build can
  leave there. On a 64-bit host addresses are beyond any clock a program reaches; under C90 with
  a 32-bit `unsigned long` (`compat_stdint.h`), deadlines and clock meet. The model leaves
  `Addresses` open, so both are covered.
- The parent of index 0 is `(0 - 1) / 2` of a `size_t`, which scaled by the size of an event wraps to the
  cell just before the array; the parent of that index designates the same cell. So `events` has the
  cells `Front` (-1) to `2 * MAX_EVENTS`, the ones the code may reach, and `SiftUpRoot` compares with cell -1,
  swaps with it when it is larger, and goes on there, where `SiftUpFront` finds nothing larger and returns.
- The cells outside the array belong to other variables. A read there returns what the scheduler wrote there
  last or any event of `Foreign`. The cell just past the array overlaps `heap_size` and
  `timestamp_now`, but with the 10 slots of `scheduler.h` (or any even number) no access falls on it: left
  children have odd indices, and right ones are tested against `heap_size`.
- `heapify_top_bottom` bounds the left child by its parent. `ordered` is a history variable that
  says that nothing has disturbed the heap yet: a deletion that leaves two or more events behind
  may disturb it, and so does a swap with the cell in front of a non-empty heap. The promises
  about order are stated under it; those about bounds and clock are not.
- The default build keeps assertions; a failed one stops the program (`"aborted"`), as does a
  call of a word that is no function (`"crashed"`). That is why runs say `CHECK_DEADLOCK FALSE`.
- The event field `group` only chooses what `delete_event_group` would delete, and it deletes
  nothing, so the field is dropped. `find_event` is called only under `#if 0`. That a stored event
  does not carry the type it was given either is the same copy as in `timer_future`.

### Timer

`Timer` adds the registers and three places: `"tac_overflow"` and `"tac_set"` between the calls
inside `handle_tac_write`, and `"returned"` after a handler. `TacEnable`, `TacInsertOverflow` and
`TacSet` are the three parts of the write that enables; a write that keeps the enable bit falls
through both tests and changes nothing, so it is no action (the clock bits are dropped by the
code too). `SchedulerSteps` are the steps of the loop; register writes happen only between two
calls of `add_cycles`, as the CPU does them. `RunnerSpec` is what a program under `basic_runner`
can do (the system is reset once, before it); `ApiSpec` adds `SystemReset` and `TimerReset`, that
the public headers offer and no code of the library calls in mid-program.

### Bus

The arrays are one function from cells `<<array, index>>`. `Cell`, `IsWram0`, `Register`, ... follow
the nested switches nibble by nibble; the abstract `Memory` is stated over ranges of addresses, so
the refinement compares two independent descriptions. A cartridge shorter than the
address reads whatever follows it (`Beyond`). The warnings for unhandled addresses are left out.
Of the 128 bytes of HRAM (`bus.h:30`) the decoder has the first 16 only; the others are swallowed and read
as $FF, which needs no run to see.
`Port` names the call that a write to a device register makes; `System` carries it out.

### CPU

One action per family of instructions; the tables at the top name the opcodes of a family and what
differs between them (registers, condition, operand, cycles reported). `Execute` is their
disjunction and `CpuStep` a call of `libyagbe_cpu_step`. `cycles` records what the step passed
to `add_cycles`, 0 when it does not call it; sixteen opcodes never do. The unsequenced
`pc += (int8_t)read_imm8()` of JR is read call-first: the order is the compiler's choice, and gcc 12
evaluates the call first from `-O0` to `-O3`. `Double16` uses that opcode, forwards and backwards, and the slip
`JumpRelativeStale` is the other order.
`frames` is a history variable: the words pushed that no write has touched since, with their
addresses; `writes` lists the calls of `write_memory` that the step made. The runner stops after a
critical message or at $C8B0; `ApiSpec` is a client that stops where the runner would and resets
whenever it likes.

### System

One state holds the CPU, the bus, the timer, the scheduler and its heap. An instruction of `cpu.c`
does all of its writes and reports its cycles last; it reads nothing after its first write or
after the report. So `Step` is the CPU's part of the whole instruction, and `calls` the rest of it in
the order of the code: one entry for each write, named by `Port`, then `add_cycles`. Each entry is
carried out by an action that fixes the argument and takes the step from `Timer` (`T!TacEnable`, `T!AddCycles`, ...);
within `add_cycles` and within a write to TAC the steps of `Timer` go on one at a time while the
CPU waits. The next `Step` needs `AtRest`. `TimaOverflows` is the place where the call graph
turns around: the handler, called by the scheduler, called by the CPU, raises its bit in the bus.
`Timer`'s `interrupt_timer` is bit 2 of `interrupt_flag` here, so `ImplementsTimer` says that both
see the same bit, that it is raised only by an overflow and lowered only by a write of the program.
`elapsed` is a history variable that adds up the cycles each step reports.

The reset, as `gb.c` composes it, leaves the timer and the bus; main calls it once, and what more
resets do is explored by `Timer` (`timer_reset`, `timer_live`) and `Cpu`.

### Runner

`place` is the call that main is at; `Order` lists them. `Log` is `libyagbe_log`: it calls the
callback untested, so `place` becomes `"crashed"` if it is NULL. Which messages an instruction
logs is not modelled, apart from the critical one: a step needs all three callbacks, which is more than the code asks.
`OpenFails`, `ReadIntoNull` and `OpenRom` are the outcomes of `open_rom` and of the test of `argc`;
`OpenTrace` opens the file or gets NULL, which `fprintf` is then given (`TraceIntoNull`).
`rom_data` and `trace_file` are locals that hold nothing until they are assigned (`"unset"`).
An empty cartridge is `<<>>`, every byte of which is `Beyond`.

main ends without an exit code in three ways, and `CrashesAreExplained` has one part for each. In `main.c` and
`logger.c` it is a NULL that `malloc` or `fopen` left (`place` is `"crashed"`); the callbacks of the logger are set
in time. Inside a step, with `place` still `"while"`, it is the scheduler that stops: either the assertion of
`insert_event`, which finds the queue full while the timer is enabled or being enabled (`ToggleAndPoll`), or the
call of a due event whose word is no function.

Two behaviours of the composition are worth knowing. A loop made of instructions that report no
cycles, such as a poll with `AND` and `JP Z`, stops the clock, and the interrupt it waits for
never comes; `PendingEventsAreServed` therefore has `[]<>(cycles > 0)` as its hypothesis, and
`PollSilently` is a program that does not satisfy it. And `add_cycles` never returns when the timer is
enabled and an event it inserts is due at once: the handler puts the event back and the loop calls it again.

## Runs

| run | module, cfg | result | question |
|---|---|---|---|
| `scheduler` | `MCScheduler` | holds | cells touched, clock, order, `NoneLeftBehind`, refinement of `EventQueue` (2.7 million states) |
| `timer` | `MCTimer` | holds | an enabled timer keeps its events, a disabled one gains none (3.7 million states) |
| `timer_live` | `MCTimerLive.cfg` | holds | refinement of `Scheduler` with resets; the loop ends when handlers insert no event that is due (931 000 states) |
| `bus` | `MCBus` | holds | refinement of `Memory`, array bounds |
| `cpu_steps` | `MCCpu.cfg` | holds | every opcode: widths, unused flags, stack discipline |
| `cpu_programs` | `MCCpuPrograms.cfg` | holds | exact results and termination of nine programs |
| `runner` | `MCRunner` | holds | the whole program on seven cartridges and an empty one: clock, devices, refinement of `Timer`, causes of every crash, end, events served (296 000 states) |
| `scheduler_expired` | `MCSchedulerExpired.cfg` | violated | `scheduler.h:48`: an expired event is called |
| `scheduler_called` | `MCSchedulerCalled.cfg` | violated | `scheduler.h:48`: the event that is deleted is the one that was called |
| `timer_future` | `MCTimerFuture.cfg` | violated | `scheduler.h:45`: the timestamp is a number of cycles ahead |
| `timer_reset` | `MCTimerReset.cfg` | violated | `timer.c:100`: an enabled timer has an event present |
| `timer_full` | `MCTimerFull.cfg` | violated | `scheduler.c:129`: there is room for an insertion |

The violated properties are findings; `PROJECT.json` says what each counterexample shows.
`scheduler_expired` and `scheduler_called` isolate the heap: every stored event has a good callback and the
memory around the array is zero, so the order is lost to `heapify_top_bottom` alone, and the wrong event is
deleted because a callback inserted an earlier one.

Bounds, and why they are enough:

- `MAX_EVENTS` 6 (scheduler), 5 and 4 (timer): the heap has three levels, so a sift makes two
  moves, and it fills. `timer_full`, `timer_reset` and `timer_future` use the 10 of `scheduler.h`.
- `Wrap` 2 to 6 with `Cycles` of 1 and 2: the clock wraps in every run, also in the middle of pending events.
- `Addresses` of one to three values, below and above the clock; `StaleWords` include good
  handlers and a wild word; `Foreign` a zero cell and one above every address,
  or zero cells alone (`timer_live` and the runs with a counterexample).
- `BYTE` 2: TIMA overflows and its two values are distinguished. `BYTE` 1 in `timer_full`, which
  does not look at TIMA.
- Bus addresses are the first or last of every decoded area and their neighbours; two data values.
  The proof removes this bound.
- CPU: `MCCpu` runs each opcode after a prefix that sets all registers, with four values of AF
  and four tails of operand bytes, on a stack at the end of WRAM. The byte behind a cartridge (`Beyond`) is
  fixed to 118, an opcode that is invalid, which ends the run; `Data`, the bytes of arbitrary
  bus writes, is not used by the CPU's specifications. Programs are given 0, 1, 127, 128 and 255; `ProgramsAreExact` removes this bound.
- `runner`: `Wrap` 160 and `Addresses` 90 and 114. The longest instruction reports 24 cycles, so both
  are more than an instruction short of the wrap and no event is stepped over by a wrapping
  clock; that is what `PendingEventsAreServed` needs, and what a 64-bit clock gives. The clock wraps in the polling loops. Every program
  meets all the values that its stored events may have: either handler, or a word that is none.
  `MAX_EVENTS` 5
  is full after enabling twice, so a handler of `ToggleAndPoll` meets the assertion; `DevicesAreRight` also covers larger queues,
  in which that program ends.
- After reset SP is $FFFE, which is HRAM the decoder does not know. `PopsReturnWhatWasPushed`
  is therefore about stacks in decoded RAM.

Fairness: `Timer!FairSpec` asks that a call under way goes on (`CallGoesOn`), `Cpu!FairSpec`
that the runner's loop goes on, and `FairMainSpec` that main does. Each is one sequential thread without a blocking call, so
weak fairness is what execution gives. No fairness is asked of the program that writes the registers.
`LoopEnds` has a hypothesis: from some point on, the events inserted are not due at once. With an enabled timer
that is the environment's doing, because a handler inserts its event again with a timestamp that is an address; where it is
always due, `add_cycles` does not return, by the code. Under the hypothesis the loop ends with the timer
enabled or not, although deletions bring stale slots back into the heap.

## Proofs

All for every value of the constants under the named assumptions of the modules
(`SizeAssumption`, `ClockAssumption`, `WordAssumption`, `ByteAssumption`, `TimingAssumption`,
`HandlerAssumption`, `AddressAssumption`, `DataAssumption`, `BeyondAssumption`, `RomAssumption`;
`System` has `QueueAssumption`, `WrapAssumption`, `MemoryAssumption` and `NoCartridgeAssumption`, which say the
same of its own constants).

- **Scheduler.** `IndInv` is inductive. Heap order by itself is not: while an insertion sifts up,
  the new event may be smaller than its parent, so `OnlyTheNewEventIsMisplaced` says that it is the only
  exception and that its children fit under its parent; `DeletionsDisturb` says that a deletion
  under way has given up `ordered` unless at most one event is left. `SchedulerProofs` has one
  lemma per action and under it one step per conjunct. From `Invariance` follow `TypeCorrect`,
  `BoundsHold` (in which cells each heapify function may look: `Accessed`), `ClockHolds`, `OrderHolds`; and `NothingDueIsLeftBehind`, because the loop ends only
  with a root that is not due or an empty heap.
- **Event queue.** `SchedulerImplementsEventQueue`: the bag of `EventQueue` counts the live slots.
  `BagAdds`, `BagLoses`, `BagMoves` and `BagSwaps` say what one slot more, one less, a move and a
  swap do to such a bag; each action of `Scheduler` is one of these, `InsertionCounts` the one
  in which an insertion becomes visible. A sift past the live events is `Replace`, which EventQueue
  allows only with two or more events: that needs `LastLeavesACopy`, an invariant of its own.
  `EventQueue` counts its events in `size`, because the cardinality of a bag is defined by recursion.
- **Timer.** `TimerImplementsScheduler` maps every step to a step of `Scheduler` or a
  stutter, mapping the places of the timer to those of the open caller. `TimerKeepsItsEvents` is inductive only
  with `PlacesAgree`: how many of the two insertions of an enabling write are done, and which
  value of TAC is on its way; `TimerInvariance` is the whole, with what can stop the program (`StopsAreExplained`). Through an instance of
  `SchedulerProofs` with the same mapping, `TimerTypeCorrect` and `TimerLeavesTheClockExact` inherit
  `IndInv` instead of proving it again.
- **Bus.** The lemmas turn nibbles into ranges by linear arithmetic (`PageIsRange`, `RowIsRange`,
  `ArraysByRange`); `CellsAreApart` is that `Cell` is injective; `BusImplementsMemory` is a write at one
  address and at all others, and the interrupt bit.
- **ALU** (in `CpuProofs`). `AddThenAdcIsExact` and `SrlThenRrIsExact` rest on `CarryHandedOn`: the carry a helper
  stores is the one the next helper reads, and the zero flag set between them leaves it alone.
  `LogicIsExact` splits a byte into its bits (`SumOfBits`) and compares bit by bit (`BitIdentities`).
- **CPU.** `CpuInv` has the registers (`RegOK`, with the unused flags), the memory, and
  `FramesHeld`: the two cells of every word in `frames` hold its bytes. There is a lemma for each
  family of instructions, on top of the lemmas about results and flags of the helpers and of those about a
  store and a push (`StoreKeepsFrames`, `PushKeepsFrames`). `CpuTypeCorrect` and
  `UnusedFlagsStayClear` follow. `PopsAreRight` needs besides that no other instruction is fetched
  as a return or a pop (`OnlyTheyPop`) and that `FramesHeld` is what the bus returns (`TopIsHeld`).
- **Programs.** `ProgramsAreExact` is about the nine cartridges of `CpuPrograms` with any input bytes; the
  run has 0, 1, 127, 128 and 255. Its hypotheses are that `Roms` holds such cartridges only and that `Inputs` are bytes.
  The invariant (`ProgramInv`) says for every value of the program counter what registers, flags, RAM and
  the words in `frames` are by then, as an assertion at each instruction (`Sum16Point` to
  `Double16Point`), and of an ended program that its result is exact. It rests on one lemma per instruction used
  (`AddAC`, `RraOnce`, `PushBC`, `Jumps`, `Returns` and so on, and `LdRImm8` or `JrIf` of `CpuProofs`), which says for the bytes at the program counter
  which registers may differ after the step (`Leaves`) and what they hold as numbers. The return address is
  where the call left it because `frames` still has it (`OnTop`, from `FramesHeld`). Loops are
  covered by their invariant: `Copying` and `Copied`, `Counted` and `Below`, `Upto` with the two counters of
  `Multiply`. `Turned` is the position of the nine bits in `Rotate9`.
- **System and runner.** `MainInv` says which callbacks are set at each place, that nothing has
  run before the loop, and why the loop ends; `EveryCrashHasACause` and `NothingFollowsCritical` follow, the first
  with `StopsAreExplained` of the timer, through the refinement.
  `SystemImplementsTimer` first shows that the bytes of the CPU are what the guards of `Timer` ask for,
  and that until the loop the timer is in an initial state (`TimerIsFresh`), where `Timer`
  starts; it needs `CpuInv` for the bus. `TimerProofs` is then instanced (`TP`), which gives the
  types and the exact clock of the scheduler under main. `ClockIsRight` adds `ClockInv`: only the last of the calls
  reports cycles, and until it is made the clock lags behind `elapsed` by its argument.
- **Cartridges of the runner.** `DevicesAreRight` is about the seven cartridges of `RunnerPrograms` under
  main, whatever the words of a stored event are. Its hypotheses are `Roms \subseteq RunnerRoms` and
  `FarAddresses`: what is passed to `insert_event` lies at an address past 84, and the clock is wider than
  that. 84 is the number of cycles that `PushAndDecrement` reports up to its end, more than any other program
  does before it waits; no object of a C program lies that low. Without it a handler could run between the
  writes of a program, and what it leaves would depend on the addresses.
  The invariant (`ProgramInv` of `RunnerProgramsProofs`) has an assertion at each instruction (`PollPoint` to
  `JumpPoint`), and each must also hold while the calls of the instruction are under way and
  handlers run inside them. So an assertion does not say what the registers hold but what they will hold
  when the calls left are over: `Outcome` replays them. `Before(t, d)` is that `t` cycles are reported, the
  outcome is `d`, and no event is due (`AllFar`), which lasts until the wait (`BeforeStays`). In a wait only
  what no handler undoes is known: the loop is left only if the bit is raised (`Waiting`); a disabled
  timer loses each of its two events, one of them with the bit, so that when the second wait of `PollTwice` is over
  nothing is pending and TIMA is TMA (`Draining`, `DrainingAgain`); and a handler that removes an event puts it back, so four stay four
  (`Four`, which also knows that a handler that put one back found the queue larger than five). `PollSilently` never leaves its
  wait, because no cycle is reported and its events stay far. A failed assertion and a jump to a word that is no
  function end in `Gone`, where nothing is left to show. One lemma per program and kind of step
  (`*Steps`, `*Waits`) is put together by `ProgramStays`; it needs the types, the clock and the
  invariant of the timer under main (`Sound`), which `RunnerProofs` proves.

The theorems about the CPU and above it are of the form `Address = Word => ...`: the arrays of the
bus as a whole, which is the program; an instance with fewer addresses lacks the cells it would write to.

Only model-checked: liveness (`LoopEnds`, `ProgramsEnd`, `PendingEventsAreServed`), which the
prover does not reach. Every invariant and every action property that a passing run checks is a theorem, and so is
every refinement.

## Not modelled

- The text of log messages and the 128 bytes that `libyagbe_log` formats them into; no message of
  the library is longer.
- The text of the trace and the bytes of the cartridge file: what `fread` did not fill is `Beyond`.
- `libyagbe_bus_get_data` and `libyagbe_cpu_get_data` hand out pointers. Only the second is used,
  by main, to read the registers.
- `libyagbe_scheduler_find_event` (called under `#if 0` only), `get_event_name` (never called) and
  `adjust_tima_overflow_timestamp` (under `#if 0`).
- `apu.c`, `ppu.c` and `disasm.c` hold no code. The CPU has no interrupt dispatch and no HALT.

## Plan

Done: every component with code has its module, its runs and its theorems, and each safety property,
action property and refinement of the passing runs is proved. Left: liveness, for TLC on larger instances.
