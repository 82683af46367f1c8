------------------------------ MODULE MCRunner ------------------------------
(* Small values for the constants of Runner.                               *)
EXTENDS RunnerPrograms

MCAddress == {65281, 65285, 65286, 65287, 65295}
MCStaleWords ==
  {[cb |-> handler, type |-> "TIMA_INCREMENT"] :
     handler \in {"handle_tima_increment", "handle_tima_overflow", "wild"}}
MCForeign == {[timestamp |-> 0, cb |-> "NULL", type |-> "TIMA_INCREMENT"]}
MCWords == Handlers \cup {"wild", "NULL"}
=============================================================================
