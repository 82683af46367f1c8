------------------------------- MODULE Memory -------------------------------
(***************************************************************************)
(* What the bus promises of the writable memory: a location holds what was *)
(* written to its own address last, whatever was written elsewhere, and    *)
(* the only other change is that a device raises a bit of the interrupt    *)
(* flag.                                                                   *)
(***************************************************************************)
EXTENDS Naturals

CONSTANTS
  Address,       \* what a program may access
  Location,      \* the addresses that hold what is written to them
  Data,
  FlagLocation,  \* where the devices raise bits
  Raised(_)

VARIABLES contents, written

vars == <<contents, written>>

Init ==
  /\ contents = [l \in Location |-> 0]
  /\ written = [address |-> 0, data |-> 0]

Write ==
  \E a \in Address, d \in Data :
    /\ contents' = [l \in Location |-> IF l = a THEN d ELSE contents[l]]
    /\ written' = [address |-> a, data |-> d]

Raise ==
  /\ contents' = [l \in Location |->
                    IF l = FlagLocation THEN Raised(contents[l]) ELSE contents[l]]
  /\ UNCHANGED written

Next == Write \/ Raise

Spec == Init /\ [][Next]_vars
=============================================================================
