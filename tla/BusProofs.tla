----------------------------- MODULE BusProofs ------------------------------
(***************************************************************************)
(* The bus keeps its writable addresses apart, for any set of addresses    *)
(* and any cartridge.  The argument has three parts: the nibble tests of   *)
(* the switch statements are the ranges of the memory map, two addresses   *)
(* in those ranges never reach the same cell, and so a write changes one   *)
(* location of Memory or none.                                             *)
(***************************************************************************)
EXTENDS Bus, TLAPS

(* A word is a number up to 65535: proved once for a bound that is not a   *)
(* numeral, so that no later step has to expand the range itself.          *)
LEMMA RangeIs == \A k \in Nat : \A w : w \in 0 .. k <=> w \in Nat /\ w <= k
OBVIOUS

LEMMA WordIs == \A w : w \in Word <=> w \in Nat /\ w <= 65535
<1>1. PICK k \in Nat : k = 65535
  OBVIOUS
<1>2. Word = 0 .. k
  BY <1>1 DEF Word
<1>3. \A w : w \in Word <=> w \in Nat /\ w <= k
  BY <1>2, RangeIs
<1> QED
  BY <1>1, <1>3

LEMMA AddressIsWord ==
  ASSUME NEW a \in Address
  PROVE  a \in Nat /\ a <= 65535
<1>1. a \in Word
  BY AddressAssumption
<1> QED
  BY <1>1, WordIs

-----------------------------------------------------------------------------
(* The nibble tests of read_memory and write_memory, as ranges.            *)
LEMMA PageIsRange ==
  ASSUME NEW a \in Nat, NEW p \in Nat
  PROVE  /\ page(a) = p => 4096 * p <= a /\ a <= 4096 * p + 4095
         /\ 4096 * p <= a /\ a <= 4096 * p + 4095 => page(a) = p
<1>1. ASSUME a \div 4096 = p
      PROVE  4096 * p <= a /\ a <= 4096 * p + 4095
  BY <1>1
<1>2. ASSUME 4096 * p <= a, a <= 4096 * p + 4095
      PROVE  a \div 4096 = p
  BY <1>2
<1> QED
  BY <1>1, <1>2 DEF page

(* $FF00 .. $FFFF is where both high nibbles are $F.                       *)
LEMMA HighPage ==
  ASSUME NEW a \in Nat, a <= 65535, page(a) = 15, subpage(a) = 15
  PROVE  65280 <= a
<1>1. a \div 256 = 16 * (a \div 4096) + ((a \div 256) % 16)
  OBVIOUS
<1>2. a \div 256 = 255
  BY <1>1 DEF page, subpage
<1> QED
  BY <1>2

LEMMA HighPageNibbles ==
  ASSUME NEW a \in Nat, 65280 <= a, a <= 65535
  PROVE  page(a) = 15 /\ subpage(a) = 15 /\ a % 256 = a - 65280
<1>1. a \div 256 = 255
  OBVIOUS
<1>2. a % 256 = a - 65280
  OBVIOUS
<1> QED
  BY <1>1, <1>2 DEF page, subpage

LEMMA RowIsRange ==
  ASSUME NEW a \in Nat, a <= 65535, NEW r \in {0, 8, 15}
  PROVE  /\ InRow(a, r) => 65280 + 16 * r <= a /\ a <= 65280 + 16 * r + 15
         /\ 65280 + 16 * r <= a /\ a <= 65280 + 16 * r + 15 => InRow(a, r)
<1>1. ASSUME InRow(a, r)
      PROVE  65280 + 16 * r <= a /\ a <= 65280 + 16 * r + 15
  <2>1. 65280 <= a
    BY <1>1, HighPage DEF InRow
  <2>2. a % 256 = a - 65280
    BY <2>1, HighPageNibbles
  <2>3. (a - 65280) \div 16 = r
    BY <1>1, <2>2 DEF InRow, row
  <2> QED
    BY <2>1, <2>3
<1>2. ASSUME 65280 + 16 * r <= a, a <= 65280 + 16 * r + 15
      PROVE  InRow(a, r)
  <2>1. page(a) = 15 /\ subpage(a) = 15 /\ a % 256 = a - 65280
    BY <1>2, HighPageNibbles
  <2>2. (a - 65280) \div 16 = r
    BY <1>2
  <2> QED
    BY <2>1, <2>2 DEF InRow, row
<1> QED
  BY <1>1, <1>2

LEMMA ArraysByRange ==
  ASSUME NEW a \in Nat, a <= 65535
  PROVE  /\ IsWram0(a) => 49152 <= a /\ a <= 53247
         /\ 49152 <= a /\ a <= 53247 => IsWram0(a)
         /\ IsWram1(a) => 53248 <= a /\ a <= 57343
         /\ 53248 <= a /\ a <= 57343 => IsWram1(a)
         /\ IsHram(a) => 65408 <= a /\ a <= 65423
         /\ 65408 <= a /\ a <= 65423 => IsHram(a)
         /\ IsCart(a) => a <= 20479
<1>1. /\ IsWram0(a) => 49152 <= a /\ a <= 53247
      /\ 49152 <= a /\ a <= 53247 => IsWram0(a)
  BY PageIsRange DEF IsWram0
<1>2. /\ IsWram1(a) => 53248 <= a /\ a <= 57343
      /\ 53248 <= a /\ a <= 57343 => IsWram1(a)
  BY PageIsRange DEF IsWram1
<1>3. /\ IsHram(a) => 65408 <= a /\ a <= 65423
      /\ 65408 <= a /\ a <= 65423 => IsHram(a)
  BY RowIsRange DEF IsHram
<1>4. IsCart(a) => a <= 20479
  BY PageIsRange DEF IsCart
<1> QED
  BY <1>1, <1>2, <1>3, <1>4

LEMMA RegistersByAddress ==
  ASSUME NEW a \in Nat, a <= 65535
  PROVE  /\ IsInterruptFlag(a) => a = 65295
         /\ a = 65295 => IsInterruptFlag(a)
         /\ IsInterruptEnable(a) => a = 65535
         /\ a = 65535 => IsInterruptEnable(a)
<1>1. ASSUME InRow(a, 0), column(a) = 15
      PROVE  a = 65295
  <2>1. 65280 <= a /\ a <= 65295
    BY <1>1, RowIsRange
  <2> QED
    BY <1>1, <2>1 DEF column
<1>2. ASSUME InRow(a, 15), column(a) = 15
      PROVE  a = 65535
  <2>1. 65520 <= a /\ a <= 65535
    BY <1>2, RowIsRange
  <2> QED
    BY <1>2, <2>1 DEF column
<1>3. ASSUME a = 65295
      PROVE  InRow(a, 0) /\ column(a) = 15
  <2>1. InRow(a, 0)
    BY <1>3, RowIsRange
  <2> QED
    BY <1>3, <2>1 DEF column
<1>4. ASSUME a = 65535
      PROVE  InRow(a, 15) /\ column(a) = 15
  <2>1. InRow(a, 15)
    BY <1>4, RowIsRange
  <2> QED
    BY <1>4, <2>1 DEF column
<1> QED
  BY <1>1, <1>2, <1>3, <1>4
  DEF IsInterruptFlag, IsInterruptEnable, Register

(* No two addresses of the arrays share a cell.                            *)
LEMMA CellsAreApart ==
  ASSUME NEW a \in Nat, a <= 65535, NEW b \in Nat, b <= 65535,
         IsRam(a), IsRam(b), Cell(a) = Cell(b)
  PROVE  a = b
<1>1. CASE IsWram0(a)
  BY <1>1, ArraysByRange DEF IsRam, Cell
<1>2. CASE ~IsWram0(a) /\ IsWram1(a)
  BY <1>2, ArraysByRange DEF IsRam, Cell
<1>3. CASE ~IsWram0(a) /\ ~IsWram1(a) /\ IsHram(a)
  BY <1>3, ArraysByRange DEF IsRam, Cell
<1> QED
  BY <1>1, <1>2, <1>3 DEF IsRam

(* The addresses a program can change are those of the memory map.         *)
LEMMA WritableIsDecoded ==
  ASSUME NEW a \in Address
  PROVE  /\ a \in Writable => IsRam(a) \/ IsInterruptFlag(a) \/ IsInterruptEnable(a)
         /\ IsRam(a) \/ IsInterruptFlag(a) \/ IsInterruptEnable(a) => a \in Writable
<1>1. a \in Nat /\ a <= 65535
  BY AddressIsWord
<1>2. a \in Writable => IsRam(a) \/ IsInterruptFlag(a) \/ IsInterruptEnable(a)
  BY <1>1, ArraysByRange, RegistersByAddress DEF Writable, IsRam
<1>3. IsRam(a) \/ IsInterruptFlag(a) \/ IsInterruptEnable(a) => a \in Writable
  BY <1>1, ArraysByRange, RegistersByAddress DEF Writable, IsRam
<1> QED
  BY <1>2, <1>3

-----------------------------------------------------------------------------
LEMMA InterruptIsTyped ==
  \A flag \in Byte : WithTimerInterrupt(flag) \in Byte
  BY DEF WithTimerInterrupt, Byte

(* Every cell of the arrays and both registers hold a byte, whatever is    *)
(* written.                                                                *)
THEOREM BusTypeCorrect == BusSpec => []BusTypeOK
<1>1. BusInit => BusTypeOK
  <2>1. 0 \in Byte /\ 0 \in Word
    BY WordIs DEF Byte
  <2> QED
    BY <2>1, RomAssumption DEF BusInit, BusTypeOK
<1>2. BusTypeOK /\ [BusNext]_busVars => BusTypeOK'
  <2> SUFFICES ASSUME BusTypeOK, [BusNext]_busVars
               PROVE  BusTypeOK'
    OBVIOUS
  <2>1. ASSUME NEW a \in Address, NEW d \in Data, WriteMemory(a, d)
        PROVE  BusTypeOK'
    <3>1. a \in Word /\ d \in Byte
      BY AddressAssumption, DataAssumption
    <3>2. ram' \in [Cells -> Byte]
      BY <2>1, <3>1 DEF WriteMemory, RamAfter, BusTypeOK
    <3>3. interrupt_flag' \in Byte /\ interrupt_enable' \in Byte
      BY <2>1, <3>1 DEF WriteMemory, FlagAfter, EnableAfter, BusTypeOK
    <3>4. written' \in [address : Word, data : Byte] /\ cart_data' = cart_data
      BY <2>1, <3>1 DEF WriteMemory, BusTypeOK
    <3> QED
      BY <3>2, <3>3, <3>4 DEF BusTypeOK
  <2>2. CASE SetInterrupt
    BY <2>2, InterruptIsTyped DEF SetInterrupt, BusTypeOK
  <2>3. CASE SetCartData
    BY <2>3, RomAssumption DEF SetCartData, BusTypeOK
  <2>4. CASE UNCHANGED busVars
    BY <2>4 DEF busVars, BusTypeOK
  <2> QED
    BY <2>1, <2>2, <2>3, <2>4 DEF BusNext
<1> QED
  BY <1>1, <1>2, PTL DEF BusSpec

(* No access of read_memory or write_memory leaves its array.              *)
THEOREM ArraysStayInBounds == BusSpec => []CellsInBounds
<1>1. BusTypeOK => CellsInBounds
  <2> SUFFICES ASSUME NEW a \in Address, IsRam(a)
               PROVE  Cell(a)[2] \in
                        0 .. (IF Cell(a)[1] = "hram" THEN HRAM_SIZE ELSE WRAM_SIZE) - 1
    BY DEF BusTypeOK, CellsInBounds, Cells
  <2>1. a \in Nat /\ a <= 65535
    BY AddressIsWord
  <2> QED
    BY <2>1, ArraysByRange DEF IsRam, Cell, HRAM_SIZE, WRAM_SIZE
<1> QED
  BY <1>1, BusTypeCorrect, PTL

-----------------------------------------------------------------------------
(* What is read back at a writable address, without CHOOSE.                *)
Held(a) ==
  IF IsRam(a) THEN ram[Cell(a)]
  ELSE IF IsInterruptFlag(a) THEN interrupt_flag ELSE interrupt_enable

Contents == [a \in Writable |-> CHOOSE v \in ReadMemory(a) : TRUE]

ReadsWhatIsHeld == Contents = [a \in Writable |-> Held(a)]

LEMMA ContentsAreHeld == ReadsWhatIsHeld
<1> SUFFICES ASSUME NEW a \in Writable
             PROVE  (CHOOSE v \in ReadMemory(a) : TRUE) = Held(a)
  BY DEF Contents, ReadsWhatIsHeld
<1>1. a \in Address /\ a \in Nat /\ a <= 65535
  BY AddressIsWord DEF Writable
<1>2. ~IsCart(a)
  <2>1. 49152 <= a
    BY <1>1 DEF Writable
  <2>2. IsCart(a) => a <= 20479
    BY <1>1, ArraysByRange
  <2> QED
    BY <1>1, <2>1, <2>2
<1>3. IsRam(a) \/ IsInterruptFlag(a) \/ IsInterruptEnable(a)
  BY <1>1, WritableIsDecoded
<1>4. ReadMemory(a) = {Held(a)}
  BY <1>2, <1>3 DEF ReadMemory, Held
<1> QED
  BY <1>4

(* A write to a writable address is read back there and nowhere else; any  *)
(* other write changes nothing that is read back.                          *)
LEMMA WriteChangesOneLocation ==
  ASSUME BusTypeOK, NEW a \in Address, NEW d \in Data, WriteMemory(a, d),
         NEW b \in Writable
  PROVE  Held(b)' = IF a = b THEN d ELSE Held(b)
<1>1. b \in Address /\ a \in Nat /\ a <= 65535 /\ b \in Nat /\ b <= 65535
  BY AddressIsWord DEF Writable
<1>2. IsRam(b) \/ IsInterruptFlag(b) \/ IsInterruptEnable(b)
  BY <1>1, WritableIsDecoded
<1>3. CASE IsRam(b)
  <2>1. Cell(b) \in Cells /\ (IsRam(a) => Cell(a) \in Cells)
    BY <1>1, <1>3 DEF Cells
  <2>2. ram' = RamAfter(ram, a, d) /\ ram \in [Cells -> Byte]
    BY DEF WriteMemory, BusTypeOK
  <2>3. IsRam(a) /\ Cell(a) = Cell(b) => a = b
    BY <1>1, <1>3, CellsAreApart
  <2>4. ram'[Cell(b)] = IF a = b THEN d ELSE ram[Cell(b)]
    BY <1>3, <2>1, <2>2, <2>3 DEF RamAfter
  <2> QED
    BY <1>3, <2>4 DEF Held
<1>4. CASE ~IsRam(b) /\ IsInterruptFlag(b)
  <2>1. b = 65295 /\ (IsInterruptFlag(a) => a = 65295)
    BY <1>1, <1>4, RegistersByAddress
  <2> QED
    BY <1>4, <2>1 DEF WriteMemory, FlagAfter, Held
<1>5. CASE ~IsRam(b) /\ ~IsInterruptFlag(b)
  <2>1. b = 65535 /\ IsInterruptEnable(b) /\ (IsInterruptEnable(a) => a = 65535)
    BY <1>1, <1>2, <1>5, RegistersByAddress
  <2> QED
    BY <1>5, <2>1 DEF WriteMemory, EnableAfter, Held
<1> QED
  BY <1>3, <1>4, <1>5

LEMMA ImplementationStep ==
  ASSUME BusTypeOK, [BusNext]_busVars
  PROVE  [Mem!Next]_<<Contents, written>>
<1> DEFINE Before == Contents = [a \in Writable |-> Held(a)]
           After == Contents' = [a \in Writable |-> Held(a)']
<1>a. Before
  BY ContentsAreHeld DEF ReadsWhatIsHeld
<1>b. ReadsWhatIsHeld'
  BY ContentsAreHeld, PTL
<1>c. After
  BY <1>b DEF ReadsWhatIsHeld
<1>1. ASSUME NEW a \in Address, NEW d \in Data, WriteMemory(a, d)
      PROVE  Mem!Next
  <2>1. \A b \in Writable : Held(b)' = IF a = b THEN d ELSE Held(b)
    BY <1>1, WriteChangesOneLocation
  <2>2. Contents' = [b \in Writable |-> IF b = a THEN d ELSE Contents[b]]
    BY <2>1, <1>a, <1>c
  <2>3. written' = [address |-> a, data |-> d]
    BY <1>1 DEF WriteMemory
  <2> QED
    BY <2>2, <2>3 DEF Mem!Next, Mem!Write, Contents
<1>2. ASSUME SetInterrupt
      PROVE  Mem!Next
  <2>1. \A b \in Writable :
          Held(b)' = IF b = 65295 THEN WithTimerInterrupt(Held(b)) ELSE Held(b)
    <3> SUFFICES ASSUME NEW b \in Writable
                 PROVE  Held(b)' = IF b = 65295 THEN WithTimerInterrupt(Held(b))
                                   ELSE Held(b)
      OBVIOUS
    <3>1. b \in Address /\ b \in Nat /\ b <= 65535
      BY AddressIsWord DEF Writable
    <3>2. b = 65295 <=> IsInterruptFlag(b)
      BY <3>1, RegistersByAddress
    <3>3. b = 65295 => ~IsRam(b)
      BY <3>1, ArraysByRange DEF IsRam
    <3> QED
      BY <1>2, <3>2, <3>3 DEF SetInterrupt, Held
  <2>2. Contents' = [b \in Writable |->
                       IF b = 65295 THEN WithTimerInterrupt(Contents[b])
                       ELSE Contents[b]]
    BY <2>1, <1>a, <1>c
  <2> QED
    BY <1>2, <2>2 DEF Mem!Next, Mem!Raise, Contents, SetInterrupt
<1>3. ASSUME ram' = ram, interrupt_flag' = interrupt_flag,
             interrupt_enable' = interrupt_enable, written' = written
      PROVE  UNCHANGED <<Contents, written>>
  <2>1. \A b \in Writable : Held(b)' = Held(b)
    BY <1>3 DEF Held
  <2> QED
    BY <2>1, <1>a, <1>c, <1>3
<1> QED
  BY <1>1, <1>2, <1>3 DEF BusNext, SetCartData, busVars

(* The nibble decoding of the two switch statements implements a memory    *)
(* whose locations are independent, for any set of accessed addresses.     *)
THEOREM BusImplementsMemory == BusSpec => ImplementsMemory
<1>1. BusInit => Mem!Init
  <2> SUFFICES ASSUME BusInit
               PROVE  Contents = [l \in Writable |-> 0]
    BY DEF BusInit, Mem!Init, Contents
  <2>1. ASSUME NEW a \in Writable
        PROVE  Held(a) = 0
    <3>1. IsRam(a) => Cell(a) \in Cells
      BY DEF Cells, Writable
    <3> QED
      BY <3>1 DEF Held, BusInit
  <2> QED
    BY <2>1, ContentsAreHeld DEF ReadsWhatIsHeld
<1>2. BusTypeOK /\ [BusNext]_busVars => [Mem!Next]_<<Contents, written>>
  BY ImplementationStep
<1> QED
  BY <1>1, <1>2, BusTypeCorrect, PTL
  DEF BusSpec, ImplementsMemory, Mem!Spec, Mem!vars, Contents
=============================================================================
