---------------------------- MODULE MCScheduler -----------------------------
(* Small values for the constants of Scheduler.                            *)
EXTENDS Scheduler

MCWords == {"cb", "wild", NullFunction}
MCTypes == {FirstType}
MCStaleWords == {[cb |-> w, type |-> FirstType] : w \in {"cb", "wild"}}
MCFunctionsOnly == {[cb |-> "cb", type |-> FirstType]}
(* Cells around the array: zeroed memory, and a word above every address.  *)
MCForeign == {ZeroEvent, [timestamp |-> Wrap - 1, cb |-> "wild", type |-> FirstType]}
(* Zeroed memory all around: nothing is ever swapped in at the root.       *)
MCZeroes == {ZeroEvent}
=============================================================================
