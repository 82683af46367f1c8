------------------------------- MODULE Runner -------------------------------
(***************************************************************************)
(* basic_runner (main.c) and the logger (logger.c): the program that sets  *)
(* the library up, steps it and stops.  The logger's three callbacks are   *)
(* NULL until they are set, and calling NULL ends the program; so do a     *)
(* trace file that was not opened and a buffer that was not allocated,     *)
(* for main.c checks neither.                                              *)
(***************************************************************************)
EXTENDS System

VARIABLES
  place,      \* where main is
  running,    \* running
  callbacks,  \* info_cb, warning_cb and critical_cb
  rom_data,   \* rom_data: not yet set, NULL or the buffer
  trace_file  \* trace_file: not yet set, NULL or the stream

mainVars == <<place, running, callbacks, rom_data, trace_file>>
runnerVars == <<systemVars, mainVars>>

NULL == "NULL"
Levels == {"INFO", "WARNING", "CRITICAL"}
HandlerOf(level) ==
  CASE level = "INFO" -> "info_log_handler"
    [] level = "WARNING" -> "warning_log_handler"
    [] level = "CRITICAL" -> "critical_log_handler"

(* Slip: the system is reset as soon as there is a cartridge.              *)
OrderResettingFirst ==
  <<"open_rom", "system_reset", "INFO", "WARNING", "CRITICAL", "set_cart_data",
    "fopen", "while">>

(* The calls of main in their order; a level stands for the call of        *)
(* set_log_level_cb that sets its callback.                                *)
Order ==
  <<"open_rom", "INFO", "WARNING", "CRITICAL", "set_cart_data", "system_reset",
    "fopen", "while">>

After(call) ==
  LET here == CHOOSE i \in DOMAIN Order : Order[i] = call IN Order[here + 1]

-----------------------------------------------------------------------------
MainInit ==
  /\ SystemInit
  /\ place = "open_rom"
  /\ running = TRUE
  /\ callbacks = [level \in Levels |-> NULL]
  /\ rom_data = "unset"
  /\ trace_file = "unset"

(* libyagbe_log, called by a function after which main goes on at next:    *)
(* the callback is called without a test.                                  *)
Log(level, next) ==
  place' = IF callbacks[level] = NULL THEN "crashed" ELSE next

(* No argument, no such file, or an empty one for which malloc gives NULL. *)
OpenFails ==
  /\ place = "open_rom"
  /\ place' = "failed"
  /\ rom_data' \in {rom_data, NULL}
  /\ UNCHANGED <<systemVars, running, callbacks, trace_file>>

(* malloc gives NULL for the size, which stat did not set if it failed:    *)
(* fread is called with it before main could test it.                      *)
ReadIntoNull ==
  /\ place = "open_rom"
  /\ place' = "crashed"
  /\ rom_data' = NULL
  /\ UNCHANGED <<systemVars, running, callbacks, trace_file>>

OpenRom ==
  /\ place = "open_rom"
  /\ place' = After(place)
  /\ rom_data' = "buffer"
  /\ UNCHANGED <<systemVars, running, callbacks, trace_file>>

SetLogLevelCb ==
  /\ place \in Levels
  /\ callbacks' = [callbacks EXCEPT ![place] = HandlerOf(place)]
  /\ place' = After(place)
  /\ UNCHANGED <<systemVars, running, rom_data, trace_file>>

(* What fread did not fill of the buffer, and what lies past it, reads as  *)
(* any byte of Beyond.                                                     *)
SetCart ==
  /\ place = "set_cart_data"
  /\ SetCartData
  /\ place' = After(place)
  /\ UNCHANGED <<cpuVars, timerVars, calls, elapsed>>
  /\ UNCHANGED <<running, callbacks, rom_data, trace_file>>

(* The scheduler logs that it is reset.                                    *)
ResetSystem ==
  /\ place = "system_reset"
  /\ SystemReset
  /\ Log("INFO", After(place))
  /\ UNCHANGED <<running, callbacks, rom_data, trace_file>>

OpenTrace ==
  /\ place = "fopen"
  /\ trace_file' \in {NULL, "stream"}
  /\ place' = After(place)
  /\ UNCHANGED <<systemVars, running, callbacks, rom_data>>

-----------------------------------------------------------------------------
LoopRuns == place = "while" /\ AtRest /\ running

TraceIntoNull ==
  /\ LoopRuns
  /\ trace_file = NULL
  /\ place' = "crashed"
  /\ UNCHANGED <<systemVars, running, callbacks, rom_data, trace_file>>

(* The loop ends at a program counter that main knows.                     *)
KnownEnd ==
  /\ LoopRuns
  /\ trace_file # NULL
  /\ reg["PC"] = 51376
  /\ running' = FALSE
  /\ UNCHANGED <<systemVars, place, callbacks, rom_data, trace_file>>

(* Slip: the critical handler prints and leaves running as it is.          *)
StepRunningOn ==
  /\ LoopRuns
  /\ trace_file # NULL
  /\ reg["PC"] # 51376
  /\ Step
  /\ place' = IF \E level \in Levels : callbacks[level] = NULL
              THEN "crashed" ELSE "while"
  /\ UNCHANGED <<running, callbacks, rom_data, trace_file>>

(* system_step.  An instruction may log at every level, here it needs all  *)
(* of the callbacks; critical_log_handler ends the loop.                   *)
StepSystem ==
  /\ LoopRuns
  /\ trace_file # NULL
  /\ reg["PC"] # 51376
  /\ Step
  /\ place' = IF \E level \in Levels : callbacks[level] = NULL
              THEN "crashed" ELSE "while"
  /\ running' = IF critical' THEN FALSE ELSE running
  /\ UNCHANGED <<callbacks, rom_data, trace_file>>

StepGoesOn ==
  /\ place = "while"
  /\ InstructionGoesOn
  /\ UNCHANGED mainVars

(* The end of the loop, fclose, EXIT_SUCCESS.                              *)
Exit ==
  /\ place = "while"
  /\ ~running
  /\ AtRest
  /\ place' = "exited"
  /\ UNCHANGED <<systemVars, running, callbacks, rom_data, trace_file>>

MainNext ==
  \/ OpenFails \/ ReadIntoNull \/ OpenRom \/ SetLogLevelCb \/ SetCart
  \/ ResetSystem \/ OpenTrace
  \/ TraceIntoNull \/ KnownEnd \/ StepSystem \/ StepGoesOn \/ Exit

MainSpec == MainInit /\ [][MainNext]_runnerVars

(* One sequential thread.  What fopen or an insertion finds is not chosen  *)
(* fairly, only that the program goes on.                                  *)
FairMainSpec == MainSpec /\ WF_runnerVars(MainNext)

-----------------------------------------------------------------------------
(* What ends main without an exit code.  In main.c and logger.c it is an   *)
(* allocation or a trace file that failed, never a callback of the logger: *)
(* that is set when the first message is logged.  Inside of an instruction *)
(* it is the assertion of insert_event, with the timer enabled or being    *)
(* enabled and the queue full, or a due event that carries no function.    *)
CrashesAreExplained ==
  /\ place = "crashed" => NULL \in {rom_data, trace_file}
  /\ T!Stopped => place = "while" /\ trace_file = "stream" /\ T!StopsAreExplained

(* No instruction runs after one that logged a critical message, and main  *)
(* does not stop in the middle of an instruction.                          *)
CriticalIsLast ==
  [][/\ critical => UNCHANGED reg
     /\ place' = "exited" => calls = <<>> /\ (critical \/ reg["PC"] = 51376)]_runnerVars

(* While cycles keep being reported, a pending event gets some handler     *)
(* called: the clock meets every timestamp that is more than an instruction*)
(* short of its wrap.  Loops made of the instructions that report none are *)
(* what the hypothesis leaves out: in them the clock stands still.         *)
PendingEventsAreServed ==
  []<>(cycles > 0) =>
    (AtRest /\ heap_size > 0 ~> pc \in {"callback", "crashed", "aborted"} \/ place = "exited")
=============================================================================
