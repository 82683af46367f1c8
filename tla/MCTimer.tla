------------------------------ MODULE MCTimer -------------------------------
(* Small values for the constants of Timer.                                *)
EXTENDS Timer

MCCallbacks == {handle_tima_increment, handle_tima_overflow}
MCWords == MCCallbacks \cup {"wild", NullFunction}
MCTypes == {FirstType, "TIMA_OVERFLOW"}
MCHandlers ==
  {[cb |-> handle_tima_increment, type |-> FirstType],
   [cb |-> handle_tima_overflow, type |-> "TIMA_OVERFLOW"]}
MCIncrement == {[cb |-> handle_tima_increment, type |-> FirstType]}
MCStaleWords == MCHandlers \cup {[cb |-> "wild", type |-> FirstType]}
MCForeign == {ZeroEvent, [timestamp |-> Wrap - 1, cb |-> "wild", type |-> FirstType]}
MCZeroes == {ZeroEvent}
MCTiming == [c \in Clock |-> c + 1]
=============================================================================
