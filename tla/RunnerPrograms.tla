--------------------------- MODULE RunnerPrograms ---------------------------
(***************************************************************************)
(* Cartridges that use the timer, for basic_runner.  Byte 0 names the      *)
(* program; the code starts at $0100 and ends at $76, which cpu.c does not *)
(* have.                                                                   *)
(***************************************************************************)
EXTENDS Runner

Start == 256
Ldh(register, value) == <<62, value, 224, register>>   \* LD A,value; LDH (register),A
TIMA == 5
TMA == 6
TAC == 7
IF_ == 15

(* LDH A,($0F); AND 4; then back while the timer's bit is clear, with a JR *)
(* that reports its cycles or a JP that does not.                          *)
PollRelative == <<240, IF_, 230, 4, 40, 250>>
PollAbsolute(here) == <<240, IF_, 230, 4, 202, Lo(Start + here), Hi(Start + here)>>

Rom(name, code) ==
  LET end == Start + Len(code)
  IN  [a \in {0} \cup (Start .. end) |->
         IF a = 0 THEN name ELSE IF a = end THEN 118 ELSE code[a - Start + 1]]

(* The timer runs, and the program waits for its interrupt.                *)
Poll == Rom(1, Ldh(TMA, 7) \o Ldh(TAC, 5) \o PollRelative)

(* The same without a cycle reported while it waits.                       *)
PollSilently == Rom(2, Ldh(TAC, 5) \o PollAbsolute(4))

(* The timer is disabled again at once: its events come once more each.    *)
(* The program clears IF in between and waits again.                       *)
PollTwice ==
  Rom(3, Ldh(TMA, 7) \o Ldh(TAC, 5) \o Ldh(TAC, 0) \o PollRelative
           \o Ldh(IF_, 1) \o PollRelative)

(* PUSH BC writes TAC, then TMA; DEC (HL) reads TIMA and writes it back;   *)
(* $FF01 is the serial port.                                               *)
PushAndDecrement ==
  Rom(4, <<49, 8, 255, 1, 9, 5, 197, 33, 5, 255, 53>> \o Ldh(1, 65))

(* Enabled, written again with other clock bits, disabled, enabled.        *)
TogglingTac == Ldh(TAC, 5) \o Ldh(TAC, 6) \o Ldh(TAC, 2) \o Ldh(TAC, 7)
Toggle == Rom(5, TogglingTac)

(* The same, and a wait with four events pending: the assertion of         *)
(* insert_event fails in a handler if the queue holds no fifth.            *)
ToggleAndPoll == Rom(7, TogglingTac \o PollRelative)

(* A jump to the program counter at which main ends.                       *)
JumpToEnd == Rom(6, Ldh(TAC, 4) \o <<195, 176, 200>>)

RunnerRoms ==
  {<<>>, Poll, PollSilently, PollTwice, PushAndDecrement, Toggle, JumpToEnd,
   ToggleAndPoll}

Name == IF cart_data = <<>> THEN 0 ELSE cart_data[0]

(* A program that got to its end finds the timer as the bytes that it wrote*)
(* and the handlers that ran left it: each byte reached the register whose *)
(* address it was written to, in the order of the writes, the ignored write*)
(* of TAC left no trace, and the loop that waits for IF was left for an    *)
(* overflow that also reloaded TIMA, and not for the value read of $FF05.  *)
(* Programs 2 and 6 never get there: one loops, the other makes main end.  *)
(* Program 7 does only if a handler found room for its event.              *)
DevicesHoldWhatWasWritten ==
  critical =>
    /\ Name \notin {2, 6}
    /\ Name \in {1, 3, 7} => TimerBit(interrupt_flag)
    /\ Name = 1 => tma = 7
    /\ Name = 3 => /\ interrupt_flag % 2 = 1
                   /\ ~tac.enabled /\ heap_size = 0 /\ tima = tma
    /\ Name = 4 => tma = 9 /\ tima = 254 /\ tac = TacOf(5)
    /\ Name \in {5, 7} => tac = TacOf(7)
    /\ Name = 7 => heap_size = 4 /\ MAX_EVENTS > 5
=============================================================================
