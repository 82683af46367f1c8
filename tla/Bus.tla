-------------------------------- MODULE Bus ---------------------------------
(***************************************************************************)
(* bus.c: which device or array an address of the CPU belongs to, what a   *)
(* read of it returns and what a write to it changes.  The arrays are one  *)
(* function from their cells; an instance keeps the cells that the         *)
(* addresses in Address reach.  A write to one of the timer's registers or *)
(* to the serial port changes nothing here: Port says whom it calls.       *)
(***************************************************************************)
EXTENDS Naturals

CONSTANTS
  Address,  \* the addresses that are accessed, 0 .. 65535
  Data,     \* the bytes that are written, 0 .. 255
  Roms,     \* what the cartridge may hold, as functions of the address
  Beyond    \* what the memory behind the cartridge may hold: any byte

VARIABLES
  ram,              \* bus.wram0, bus.wram1 and bus.hram
  interrupt_flag,   \* bus.interrupt_flag
  interrupt_enable, \* bus.interrupt_enable
  cart_data,        \* the cartridge, given to set_cart_data
  written           \* the arguments of the last call of write_memory

busVars == <<ram, interrupt_flag, interrupt_enable, cart_data, written>>

WRAM_SIZE == 4096
HRAM_SIZE == 128
Byte == 0 .. 255
Word == 0 .. 65535

ASSUME AddressAssumption == Address \subseteq Word
ASSUME DataAssumption == Data \subseteq Byte
ASSUME BeyondAssumption == Beyond \subseteq Byte /\ Beyond # {}
ASSUME RomAssumption == \A rom \in Roms : \A a \in DOMAIN rom : rom[a] \in Byte

-----------------------------------------------------------------------------
(* The nibbles that the nested switch statements test.                     *)
page(a) == a \div 4096
subpage(a) == (a \div 256) % 16
row(a) == (a % 256) \div 16
column(a) == a % 16

InRow(a, r) == page(a) = 15 /\ subpage(a) = 15 /\ row(a) = r
Register(a, c) == InRow(a, 0) /\ column(a) = c

(* Slip: case 0xD falls into case 0xC.                                     *)
IsAnyWram(a) == page(a) \in {12, 13}

IsWram0(a) == page(a) = 12
IsWram1(a) == page(a) = 13
IsHram(a) == InRow(a, 8)
IsRam(a) == IsWram0(a) \/ IsWram1(a) \/ IsHram(a)
IsCart(a) == page(a) \in {0, 4}
IsInterruptFlag(a) == Register(a, 15)
IsInterruptEnable(a) == InRow(a, 15) /\ column(a) = 15

(* Slip: case 0xD uses wram0 too.                                          *)
CellOfOneBank(a) ==
  IF IsWram0(a) THEN <<"wram0", a - 49152>>
  ELSE IF IsWram1(a) THEN <<"wram0", a - 53248>>
  ELSE <<"hram", a - 65408>>

Cell(a) ==
  IF IsWram0(a) THEN <<"wram0", a - 49152>>
  ELSE IF IsWram1(a) THEN <<"wram1", a - 53248>>
  ELSE <<"hram", a - 65408>>

Cells == {Cell(a) : a \in {x \in Address : IsRam(x)}}

(* A cartridge is read at the address itself: past its last byte the read  *)
(* returns whatever memory follows.                                        *)
CartBytes(a) == IF a \in DOMAIN cart_data THEN {cart_data[a]} ELSE Beyond

(* read_memory: what a read may return.  An address without a device reads *)
(* as $FF, after a warning; so does the stubbed register LY.               *)
ReadMemory(a) ==
  IF IsCart(a) THEN CartBytes(a)
  ELSE IF IsRam(a) THEN {ram[Cell(a)]}
  ELSE IF IsInterruptFlag(a) THEN {interrupt_flag}
  ELSE IF IsInterruptEnable(a) THEN {interrupt_enable}
  ELSE {255}

(* write_memory: the arrays and registers after a write of d to a, given   *)
(* what they hold before it.  Stubbed registers and addresses without a    *)
(* device swallow it.                                                      *)
RamAfter(m, a, d) == IF IsRam(a) THEN [m EXCEPT ![Cell(a)] = d] ELSE m
FlagAfter(flag, a, d) == IF IsInterruptFlag(a) THEN d ELSE flag
EnableAfter(enable, a, d) == IF IsInterruptEnable(a) THEN d ELSE enable

(* Slip: the counter and its modulo change places.                         *)
PortSwapped(a) ==
  CASE Register(a, 1) -> "putchar"
    [] Register(a, 5) -> "handle_tma_write"
    [] Register(a, 6) -> "handle_tima_write"
    [] Register(a, 7) -> "handle_tac_write"
    [] OTHER -> "none"

(* The function that a write to a register of a device is passed to.       *)
Port(a) ==
  CASE Register(a, 1) -> "putchar"
    [] Register(a, 5) -> "handle_tima_write"
    [] Register(a, 6) -> "handle_tma_write"
    [] Register(a, 7) -> "handle_tac_write"
    [] OTHER -> "none"

(* Slip: the bit is added, whether it is set or not.                       *)
PlusTimerInterrupt(flag) == flag + 4

(* set_interrupt(LIBYAGBE_BUS_IF_TIMER): SET_BIT of bit 2.                 *)
WithTimerInterrupt(flag) == IF (flag \div 4) % 2 = 1 THEN flag ELSE flag + 4

-----------------------------------------------------------------------------
BusInit ==
  /\ ram = [c \in Cells |-> 0]
  /\ interrupt_flag = 0
  /\ interrupt_enable = 0
  /\ cart_data \in Roms
  /\ written = [address |-> 0, data |-> 0]

WriteMemory(a, d) ==
  /\ ram' = RamAfter(ram, a, d)
  /\ interrupt_flag' = FlagAfter(interrupt_flag, a, d)
  /\ interrupt_enable' = EnableAfter(interrupt_enable, a, d)
  /\ written' = [address |-> a, data |-> d]
  /\ UNCHANGED cart_data

SetInterrupt ==
  /\ interrupt_flag' = WithTimerInterrupt(interrupt_flag)
  /\ UNCHANGED <<ram, interrupt_enable, cart_data, written>>

SetCartData ==
  /\ cart_data' \in Roms
  /\ UNCHANGED <<ram, interrupt_flag, interrupt_enable, written>>

BusNext ==
  \/ \E a \in Address, d \in Data : WriteMemory(a, d)
  \/ SetInterrupt
  \/ SetCartData

BusSpec == BusInit /\ [][BusNext]_busVars

-----------------------------------------------------------------------------
BusTypeOK ==
  /\ ram \in [Cells -> Byte]
  /\ interrupt_flag \in Byte
  /\ interrupt_enable \in Byte
  /\ \A a \in DOMAIN cart_data : cart_data[a] \in Byte
  /\ written \in [address : Word, data : Byte]

(* The writable memory as ranges of addresses, as hardware manuals give it.*)
Writable ==
  {a \in Address : \/ a \in 49152 .. 57343   \* $C000 .. $DFFF
                   \/ a \in 65408 .. 65423   \* $FF80 .. $FF8F
                   \/ a = 65295 \/ a = 65535}

Mem == INSTANCE Memory WITH
  contents <- [a \in Writable |-> CHOOSE v \in ReadMemory(a) : TRUE],
  Location <- Writable, FlagLocation <- 65295, Raised <- WithTimerInterrupt

(* The decoding by nibbles keeps every writable address apart from every   *)
(* other: a write changes what is read back at its own address and nowhere *)
(* else, and a timer interrupt changes bit 2 of IF only.                   *)
ImplementsMemory == Mem!Spec

(* No array of struct libyagbe_bus is indexed past its end.                *)
CellsInBounds ==
  \A c \in DOMAIN ram :
    c[2] \in 0 .. (IF c[1] = "hram" THEN HRAM_SIZE ELSE WRAM_SIZE) - 1
=============================================================================
