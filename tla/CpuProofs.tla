----------------------------- MODULE CpuProofs ------------------------------
(***************************************************************************)
(* Every instruction leaves registers, flags and memory well typed, for    *)
(* every cartridge, and what is popped is what was pushed, wherever the    *)
(* stack is.  The arrays of the bus are there as a whole: the theorems are *)
(* about instances whose Address is all of Word.                           *)
(***************************************************************************)
EXTENDS Cpu, BusProofs

-----------------------------------------------------------------------------
(* What the helpers of Alu keep, for every byte and every flag register: a *)
(* result is a byte, and the low nibble of the flags stays clear.          *)
AluByte == 0 .. 255
Flags == {f \in AluByte : f % 16 = 0}
Results == [value : AluByte, flags : Flags]

(* Setting or clearing Z or C touches no other flag.                       *)
LEMMA FlagsKept ==
  ASSUME NEW f \in Flags, NEW c \in BOOLEAN
  PROVE  SetBitIf(f, FLAG_Z, c) \in Flags /\ SetBitIf(f, FLAG_C, c) \in Flags
<1>1. f \in 0 .. 255 /\ f % 16 = 0
  BY DEF Flags, AluByte
<1>2. ASSUME NEW m \in {16, 128}, (f \div m) % 2 = 1
      PROVE  f - m \in Flags
  BY <1>1, <1>2 DEF Flags, AluByte
<1>3. ASSUME NEW m \in {16, 128}, (f \div m) % 2 = 0
      PROVE  f + m \in Flags
  BY <1>1, <1>3 DEF Flags, AluByte
<1>4. ASSUME NEW m \in {16, 128}
      PROVE  SetBitIf(f, m, c) \in Flags
  <2>1. CASE IsSet(f, m)
    BY <2>1, <1>2 DEF SetBitIf, IsSet
  <2>2. CASE ~IsSet(f, m)
    <3>1. (f \div m) % 2 = 0
      BY <1>1, <2>2 DEF IsSet
    <3>2. CASE c
      BY <3>1, <3>2, <2>2, <1>3 DEF SetBitIf
    <3>3. CASE ~c
      <4>1. c = IsSet(f, m)
        BY <3>3, <2>2 DEF IsSet
      <4> QED
        BY <4>1 DEF SetBitIf
    <3> QED
      BY <3>2, <3>3
  <2> QED
    BY <2>1, <2>2
<1> QED
  BY <1>4 DEF FLAG_Z, FLAG_C

LEMMA ZeroKept ==
  ASSUME NEW f \in Flags, NEW v \in Nat
  PROVE  SetZero(f, v) \in Flags
BY FlagsKept DEF SetZero

LEMMA CarryKept ==
  ASSUME NEW f \in Flags, NEW c \in BOOLEAN
  PROVE  SetCarry(f, c) \in Flags
BY FlagsKept DEF SetCarry

LEMMA CarryIsBit == \A f : CarryIn(f) \in {0, 1}
BY DEF CarryIn

-----------------------------------------------------------------------------
LEMMA ResultTyped ==
  ASSUME NEW v \in AluByte, NEW f \in Flags
  PROVE  Result(v, f) \in Results
BY DEF Result, Results

LEMMA IncDecTyped ==
  ASSUME NEW v \in AluByte, NEW f \in Flags
  PROVE  Inc(v, f) \in Results /\ Dec(v, f) \in Results
<1>1. (v + 1) % 256 \in AluByte /\ (v + 255) % 256 \in AluByte
  BY DEF AluByte
<1>2. (v + 1) % 256 \in Nat /\ (v + 255) % 256 \in Nat
  BY DEF AluByte
<1> QED
  BY <1>1, <1>2, ZeroKept, ResultTyped DEF Inc, Dec

(* The addend of ADC may be 256.                                           *)
LEMMA AddTyped ==
  ASSUME NEW a \in AluByte, NEW n \in Nat, NEW f \in Flags
  PROVE  Add(a, n, f) \in Results
<1>1. (a + n) % 256 \in AluByte /\ (a + n) % 256 \in Nat
  BY DEF AluByte
<1>2. (a + n > 255) \in BOOLEAN
  OBVIOUS
<1> DEFINE v == (a + n) % 256
           flags == SetCarry(SetZero(f, v), a + n > 255)
<1>3. SetZero(f, v) \in Flags
  BY <1>1, ZeroKept
<1>4. flags \in Flags
  BY <1>2, <1>3, CarryKept
<1>5. Add(a, n, f) = Result(v, flags)
  BY DEF Add
<1>6. v \in AluByte
  BY <1>1
<1> HIDE DEF v, flags
<1> QED
  BY <1>4, <1>5, <1>6, ResultTyped

LEMMA SubTyped ==
  ASSUME NEW a \in AluByte, NEW n \in AluByte, NEW f \in Flags
  PROVE  Sub(a, n, f) \in Results /\ Cp(a, n, f) \in Results
<1>1. (a + 256 - n) % 256 \in AluByte /\ (a + 256 - n) % 256 \in Nat
  BY DEF AluByte
<1>2. (a < n) \in BOOLEAN
  OBVIOUS
<1>3. Sub(a, n, f) \in Results
  <2> DEFINE v == (a + 256 - n) % 256
             flags == SetCarry(SetZero(f, v), a < n)
  <2>1. SetZero(f, v) \in Flags
    BY <1>1, ZeroKept
  <2>2. flags \in Flags
    BY <1>2, <2>1, CarryKept
  <2>3. Sub(a, n, f) = Result(v, flags)
    BY DEF Sub
  <2>4. v \in AluByte
    BY <1>1
  <2> HIDE DEF v, flags
  <2> QED
    BY <2>2, <2>3, <2>4, ResultTyped
<1>4. Sub(a, n, f).flags \in Flags
  BY <1>3 DEF Results
<1> QED
  BY <1>3, <1>4, ResultTyped DEF Cp

LEMMA ShiftTyped ==
  ASSUME NEW v \in AluByte, NEW f \in Flags
  PROVE  /\ Srl(v, f) \in Results
         /\ Rr(v, f) \in Results
         /\ Rra(v, f) \in Results
<1>1. v \div 2 \in AluByte /\ v \div 2 \in Nat
  BY DEF AluByte
<1>2. Rotated(v, f) \in AluByte /\ Rotated(v, f) \in Nat
  BY CarryIsBit DEF Rotated, AluByte
<1>3. (v % 2 = 1) \in BOOLEAN
  OBVIOUS
<1>4. SetCarry(f, v % 2 = 1) \in Flags
  BY <1>3, CarryKept
<1>5. Srl(v, f) \in Results
  BY <1>1, <1>4, ZeroKept, ResultTyped DEF Srl
<1>6. Rr(v, f) \in Results
  BY <1>2, <1>4, ZeroKept, ResultTyped DEF Rr
<1>7. SetBitIf(SetCarry(f, v % 2 = 1), FLAG_Z, FALSE) \in Flags
  BY <1>4, FlagsKept
<1> QED
  BY <1>2, <1>5, <1>6, <1>7, ResultTyped DEF Rra

-----------------------------------------------------------------------------
LEMMA BitIsBit == \A v \in AluByte, w \in {1, 2, 4, 8, 16, 32, 64, 128} : Bit(v, w) \in {0, 1}
BY DEF Bit, AluByte

LEMMA LogicTyped ==
  ASSUME NEW v \in AluByte, NEW others \in {0, 32}
  PROVE  Logic(v, others) \in Results
<1>1. \A f \in {0, 32, FLAG_Z + 0, FLAG_Z + 32} : f \in Flags
  BY DEF Flags, AluByte, FLAG_Z
<1> QED
  BY <1>1, ResultTyped DEF Logic

LEMMA BytewiseTyped ==
  ASSUME NEW a \in AluByte, NEW b \in AluByte
  PROVE  /\ Bytewise(a, b, BitAnd) \in AluByte
         /\ Bytewise(a, b, BitOr) \in AluByte
         /\ Bytewise(a, b, BitXor) \in AluByte
<1>1. \A x, y \in {0, 1} :
        BitAnd(x, y) \in {0, 1} /\ BitOr(x, y) \in {0, 1} /\ BitXor(x, y) \in {0, 1}
  BY DEF BitAnd, BitOr, BitXor
<1>2. \A w \in {1, 2, 4, 8, 16, 32, 64, 128} :
        /\ BitAnd(Bit(a, w), Bit(b, w)) \in {0, 1}
        /\ BitOr(Bit(a, w), Bit(b, w)) \in {0, 1}
        /\ BitXor(Bit(a, w), Bit(b, w)) \in {0, 1}
  BY <1>1, BitIsBit
<1>3. Bytewise(a, b, BitAnd) \in AluByte
  BY <1>2 DEF Bytewise, AluByte
<1>4. Bytewise(a, b, BitOr) \in AluByte
  BY <1>2 DEF Bytewise, AluByte
<1>5. Bytewise(a, b, BitXor) \in AluByte
  BY <1>2 DEF Bytewise, AluByte
<1> QED
  BY <1>3, <1>4, <1>5

Operations == {"ADD", "ADC", "SUB", "CP", "AND", "OR", "XOR"}

(* Every operation on A gives a byte and flags whose low nibble is clear.  *)
LEMMA OperationTyped ==
  ASSUME NEW name \in Operations, NEW a \in AluByte, NEW x \in AluByte,
         NEW f \in Flags
  PROVE  Operation(name, a, x, f) \in Results
<1>1. Add(a, x, f) \in Results /\ Adc(a, x, f) \in Results
  <2>1. x \in Nat /\ x + CarryIn(f) \in Nat
    BY CarryIsBit DEF AluByte
  <2> QED
    BY <2>1, AddTyped DEF Adc
<1>2. Sub(a, x, f) \in Results /\ Cp(a, x, f) \in Results
  BY SubTyped
<1>3. And(a, x) \in Results /\ Or(a, x) \in Results /\ Xor(a, x) \in Results
  BY BytewiseTyped, LogicTyped DEF And, Or, Xor
<1> QED
  BY <1>1, <1>2, <1>3 DEF Operation, Operations

-----------------------------------------------------------------------------
(* The carry that one helper leaves is the carry that the next one finds,  *)
(* and the zero flag between them does not disturb it.                     *)
LEMMA CarryHandedOn ==
  ASSUME NEW f \in Flags, NEW c \in BOOLEAN, NEW v \in Nat
  PROVE  /\ CarryIn(SetCarry(f, c)) = IF c THEN 1 ELSE 0
         /\ CarryIn(SetZero(f, v)) = CarryIn(f)
<1>1. f \in 0 .. 255
  BY DEF Flags, AluByte
<1>2. CarryIn(SetCarry(f, c)) = IF c THEN 1 ELSE 0
  <2>1. CASE c = IsSet(f, FLAG_C)
    BY <2>1 DEF SetCarry, SetBitIf, CarryIn
  <2>2. CASE c /\ ~IsSet(f, FLAG_C)
    <3>1. ((f + 16) \div 16) % 2 = 1
      BY <1>1, <2>2 DEF IsSet, FLAG_C
    <3>2. SetCarry(f, c) = f + 16
      BY <2>2 DEF SetCarry, SetBitIf, FLAG_C
    <3> QED
      BY <2>2, <3>1, <3>2 DEF CarryIn, IsSet, FLAG_C
  <2>3. CASE ~c /\ IsSet(f, FLAG_C)
    <3>1. ((f - 16) \div 16) % 2 # 1
      BY <1>1, <2>3 DEF IsSet, FLAG_C
    <3>2. SetCarry(f, c) = f - 16
      BY <2>3 DEF SetCarry, SetBitIf, FLAG_C
    <3> QED
      BY <2>3, <3>1, <3>2 DEF CarryIn, IsSet, FLAG_C
  <2>4. IsSet(f, FLAG_C) \in BOOLEAN
    BY DEF IsSet
  <2> QED
    BY <2>1, <2>2, <2>3, <2>4
<1>3. SetZero(f, v) \in {f, f + 128, f - 128}
  BY DEF SetZero, SetBitIf, FLAG_Z
<1>4. /\ ((f + 128) \div 16) % 2 = (f \div 16) % 2
      /\ ((f - 128) \div 16) % 2 = (f \div 16) % 2
  BY <1>1
<1>5. (SetZero(f, v) \div 16) % 2 = (f \div 16) % 2
  BY <1>3, <1>4
<1> QED
  BY <1>2, <1>5 DEF CarryIn, IsSet, FLAG_C

(* The operands alu_add is given: a byte, and its carry under ADC.          *)
Addends == 0 .. 256

(* ADD and ADC in terms of the integers: the byte and the carry they leave *)
(* are the sum.                                                            *)
LEMMA AddIsSum ==
  ASSUME NEW a \in AluByte, NEW n \in Addends, NEW f \in Flags
  PROVE  /\ Add(a, n, f).value + 256 * CarryIn(Add(a, n, f).flags) = a + n
         /\ Add(a, n, f).flags \in Flags
<1> DEFINE v == (a + n) % 256
           carry == a + n > 255
<1>1. a \in 0 .. 255 /\ n \in 0 .. 256 /\ v \in Nat /\ carry \in BOOLEAN
  BY DEF AluByte, Addends
<1>2. v + 256 * (IF carry THEN 1 ELSE 0) = a + n
  BY <1>1
<1>3. Add(a, n, f) = Result(v, SetCarry(SetZero(f, v), carry))
  BY DEF Add
<1>4. SetZero(f, v) \in Flags
  BY <1>1, ZeroKept
<1>5. /\ SetCarry(SetZero(f, v), carry) \in Flags
      /\ CarryIn(SetCarry(SetZero(f, v), carry)) = IF carry THEN 1 ELSE 0
  <2> HIDE DEF v, carry
  <2> QED
    BY <1>1, <1>4, CarryKept, CarryHandedOn
<1>6. /\ Add(a, n, f).value = v
      /\ Add(a, n, f).flags = SetCarry(SetZero(f, v), carry)
  BY <1>3 DEF Result
<1> HIDE DEF v, carry
<1> QED
  BY <1>2, <1>5, <1>6

(* An ADD of the low bytes and an ADC of the high bytes are an addition of *)
(* words: alu_adc passes 256 on when the operand is 255 and the carry is   *)
(* set, and alu_add still counts that carry.  No byte is lost, whatever    *)
(* the operands and the flags before.                                      *)
THEOREM AddThenAdcIsExact ==
  ASSUME NEW low1 \in AluByte, NEW low2 \in AluByte,
         NEW high1 \in AluByte, NEW high2 \in AluByte, NEW f \in Flags
  PROVE  LET low == Add(low1, low2, f)
             high == Adc(high1, high2, low.flags)
         IN  65536 * CarryIn(high.flags) + 256 * high.value + low.value =
               (256 * high1 + low1) + (256 * high2 + low2)
<1> DEFINE low == Add(low1, low2, f)
           c == CarryIn(low.flags)
           high == Add(high1, high2 + c, low.flags)
<1>1. low2 \in Addends /\ low2 \in Nat /\ high1 \in Nat /\ high2 \in 0 .. 255 /\ low1 \in Nat
  BY DEF AluByte, Addends
<1>2. low.value + 256 * c = low1 + low2 /\ low.flags \in Flags
  BY <1>1, AddIsSum
<1>3. c \in {0, 1}
  BY CarryIsBit
<1>4. high2 + c \in Addends /\ high2 + c \in Nat
  BY <1>1, <1>3 DEF Addends
<1>5. high.value + 256 * CarryIn(high.flags) = high1 + (high2 + c)
  <2>1. high1 \in AluByte
    OBVIOUS
  <2> HIDE DEF low, c
  <2>2. /\ Add(high1, high2 + c, low.flags).value
             + 256 * CarryIn(Add(high1, high2 + c, low.flags).flags) = high1 + (high2 + c)
        /\ Add(high1, high2 + c, low.flags).flags \in Flags
    BY <1>2, <1>4, <2>1, AddIsSum
  <2> QED
    BY <2>2
<1>6. Adc(high1, high2, low.flags) = high
  BY DEF Adc
<1>7. low.value \in Nat /\ high.value \in Nat /\ CarryIn(high.flags) \in {0, 1}
  <2>1. low \in Results
    BY <1>1, AddTyped
  <2>2. high2 + c \in Nat
    BY <1>4
  <2>3. high \in Results
    <3> HIDE DEF low, c
    <3> QED
      BY <1>2, <2>2, AddTyped
  <2> HIDE DEF low, high
  <2> QED
    BY <2>1, <2>3, CarryIsBit DEF Results, AluByte
<1> HIDE DEF low, c, high
<1>8. 65536 * CarryIn(high.flags) + 256 * high.value + low.value =
        (256 * high1 + low1) + (256 * high2 + low2)
  BY <1>1, <1>2, <1>3, <1>5, <1>7
<1> USE DEF low, c
<1> QED
  BY <1>6, <1>8

(* SRL and RR of one byte after the other shift a word of any length: the  *)
(* bit that leaves a byte enters the next, and the last one is the carry.  *)
THEOREM SrlThenRrIsExact ==
  ASSUME NEW high \in AluByte, NEW low \in AluByte, NEW f \in Flags
  PROVE  LET h == Srl(high, f)
             l == Rr(low, h.flags)
         IN  2 * (256 * h.value + l.value) + CarryIn(l.flags) = 256 * high + low
<1> DEFINE h == Srl(high, f)
           l == Rr(low, h.flags)
<1>1. high \in 0 .. 255 /\ low \in 0 .. 255
  BY DEF AluByte
<1>2. \A x \in 0 .. 255, g \in Flags, w \in Nat :
        CarryIn(SetZero(SetCarry(g, x % 2 = 1), w)) = x % 2
  <2> TAKE x \in 0 .. 255, g \in Flags, w \in Nat
  <2>1. (x % 2 = 1) \in BOOLEAN /\ x % 2 \in {0, 1}
    OBVIOUS
  <2>2. SetCarry(g, x % 2 = 1) \in Flags
    BY <2>1, CarryKept
  <2>3. CarryIn(SetCarry(g, x % 2 = 1)) = IF x % 2 = 1 THEN 1 ELSE 0
    BY <2>1, CarryHandedOn
  <2>4. CarryIn(SetZero(SetCarry(g, x % 2 = 1), w)) = CarryIn(SetCarry(g, x % 2 = 1))
    BY <2>2, CarryHandedOn
  <2> QED
    BY <2>1, <2>3, <2>4
<1>3. /\ h.value = high \div 2
      /\ CarryIn(h.flags) = high % 2
      /\ h.flags \in Flags
  <2>1. high \div 2 \in Nat
    BY <1>1
  <2>2. h \in Results
    BY ShiftTyped
  <2> QED
    BY <1>1, <1>2, <2>1, <2>2 DEF Srl, Result, Results
<1> HIDE DEF h
<1>4. /\ l.value = low \div 2 + 128 * (high % 2)
      /\ CarryIn(l.flags) = low % 2
  <2>1. Rotated(low, h.flags) = low \div 2 + 128 * (high % 2)
    BY <1>3 DEF Rotated
  <2>2. Rotated(low, h.flags) \in Nat
    BY <1>1, <2>1
  <2> QED
    BY <1>1, <1>2, <1>3, <2>1, <2>2 DEF Rr, Result
<1> HIDE DEF l
<1>5. 2 * (256 * h.value + l.value) + CarryIn(l.flags) = 256 * high + low
  <2>1. high = 2 * (high \div 2) + (high % 2) /\ low = 2 * (low \div 2) + (low % 2)
    BY <1>1
  <2>2. high \div 2 \in Nat /\ high % 2 \in Nat /\ low \div 2 \in Nat /\ low % 2 \in Nat
    BY <1>1
  <2> QED
    BY <1>3, <1>4, <2>1, <2>2
<1> QED
  BY <1>5 DEF h, l

-----------------------------------------------------------------------------
(* A byte is the sum of its bits by their weights.                         *)
LEMMA SumOfBits ==
  ASSUME NEW v \in AluByte
  PROVE  v = Bit(v, 1) + 2 * Bit(v, 2) + 4 * Bit(v, 4) + 8 * Bit(v, 8) + 16 * Bit(v, 16)
               + 32 * Bit(v, 32) + 64 * Bit(v, 64) + 128 * Bit(v, 128)
<1>1. v \in 0 .. 255
  BY DEF AluByte
<1> QED
  BY <1>1 DEF Bit

LEMMA BitIdentities ==
  \A x, y \in {0, 1} :
    /\ BitAnd(x, y) \in {0, 1} /\ BitOr(x, y) \in {0, 1} /\ BitXor(x, y) \in {0, 1}
    /\ BitAnd(x, y) + BitOr(x, y) = x + y
    /\ BitOr(x, y) = BitAnd(x, y) + BitXor(x, y)
    /\ BitXor(x, y) = 0 <=> x = y
    /\ BitOr(x, x) = x
BY DEF BitAnd, BitOr, BitXor

(* AND, OR and XOR in terms of the integers: what two bytes have in common *)
(* and what either has make up their sum, XOR is the difference of the two,*)
(* and its zero flag tells whether the bytes are equal.                    *)
THEOREM LogicIsExact ==
  ASSUME NEW a \in AluByte, NEW b \in AluByte
  PROVE  /\ And(a, b).value + Or(a, b).value = a + b
         /\ Or(a, b).value = And(a, b).value + Xor(a, b).value
         /\ IsSet(Xor(a, b).flags, FLAG_Z) <=> a = b
         /\ Or(a, a).value = a
<1> DEFINE Weights == {1, 2, 4, 8, 16, 32, 64, 128}
           and(w) == BitAnd(Bit(a, w), Bit(b, w))
           or(w) == BitOr(Bit(a, w), Bit(b, w))
           xor(w) == BitXor(Bit(a, w), Bit(b, w))
<1>1. \A w \in Weights :
        /\ and(w) \in {0, 1} /\ or(w) \in {0, 1} /\ xor(w) \in {0, 1}
        /\ Bit(a, w) \in {0, 1} /\ Bit(b, w) \in {0, 1}
        /\ and(w) + or(w) = Bit(a, w) + Bit(b, w)
        /\ or(w) = and(w) + xor(w)
        /\ xor(w) = 0 <=> Bit(a, w) = Bit(b, w)
        /\ BitOr(Bit(a, w), Bit(a, w)) = Bit(a, w)
  BY BitIsBit, BitIdentities
<1>2. /\ And(a, b).value = and(1) + 2 * and(2) + 4 * and(4) + 8 * and(8) + 16 * and(16)
                             + 32 * and(32) + 64 * and(64) + 128 * and(128)
      /\ Or(a, b).value = or(1) + 2 * or(2) + 4 * or(4) + 8 * or(8) + 16 * or(16)
                             + 32 * or(32) + 64 * or(64) + 128 * or(128)
      /\ Xor(a, b).value = xor(1) + 2 * xor(2) + 4 * xor(4) + 8 * xor(8) + 16 * xor(16)
                             + 32 * xor(32) + 64 * xor(64) + 128 * xor(128)
  <2>1. 1 * and(1) = and(1) /\ 1 * or(1) = or(1) /\ 1 * xor(1) = xor(1)
    BY <1>1
  <2> HIDE DEF and, or, xor
  <2> QED
    BY <2>1 DEF And, Or, Xor, Logic, Result, Bytewise, and, or, xor
<1>3. /\ a = Bit(a, 1) + 2 * Bit(a, 2) + 4 * Bit(a, 4) + 8 * Bit(a, 8) + 16 * Bit(a, 16)
               + 32 * Bit(a, 32) + 64 * Bit(a, 64) + 128 * Bit(a, 128)
      /\ b = Bit(b, 1) + 2 * Bit(b, 2) + 4 * Bit(b, 4) + 8 * Bit(b, 8) + 16 * Bit(b, 16)
               + 32 * Bit(b, 32) + 64 * Bit(b, 64) + 128 * Bit(b, 128)
  BY SumOfBits
<1>4. Or(a, a).value = a
  <2>1. \A w \in Weights : w * BitOr(Bit(a, w), Bit(a, w)) = w * Bit(a, w)
    BY <1>1
  <2>2. 1 * Bit(a, 1) = Bit(a, 1)
    BY <1>1
  <2> QED
    BY <1>3, <2>1, <2>2 DEF Or, Logic, Result, Bytewise
<1> HIDE DEF and, or, xor
<1>5. And(a, b).value + Or(a, b).value = a + b
  <2>1. \A w \in Weights : /\ or(w) = Bit(a, w) + Bit(b, w) - and(w)
                            /\ and(w) \in Nat /\ Bit(a, w) \in Nat /\ Bit(b, w) \in Nat
    BY <1>1
  <2>2. Or(a, b).value = a + b - And(a, b).value
    BY <1>2, <1>3, <2>1
  <2>3. a \in Nat /\ b \in Nat
    BY DEF AluByte
  <2>4. And(a, b).value \in Nat
    BY <1>2, <2>1
  <2> QED
    BY <2>2, <2>3, <2>4
<1>6. Or(a, b).value = And(a, b).value + Xor(a, b).value
  BY <1>1, <1>2
<1>7. Xor(a, b).value = 0 <=> a = b
  <2>1. Xor(a, b).value = 0 <=> \A w \in Weights : xor(w) = 0
    BY <1>1, <1>2
  <2>2. a = b <=> \A w \in Weights : Bit(a, w) = Bit(b, w)
    BY <1>3
  <2> QED
    BY <1>1, <2>1, <2>2
<1>8. IsSet(Xor(a, b).flags, FLAG_Z) <=> Xor(a, b).value = 0
  BY DEF Xor, Logic, Result, IsSet, FLAG_Z
<1> QED
  BY <1>4, <1>5, <1>6, <1>7, <1>8

-----------------------------------------------------------------------------
(* What every instruction keeps.                                           *)

RegOK(r) ==
  /\ r \in [R8 \cup R16 -> Word]
  /\ \A x \in R8 : r[x] \in Byte
  /\ r["F"] % 16 = 0

Writes == [address : Word, data : Byte]

(* The stack: a pushed word stays in the two cells of its addresses as     *)
(* long as frames says that nothing was written to them.                   *)
FramesHeld ==
  \A f \in frames :
    IsRam(f.at) /\ IsRam(Up(f.at)) =>
      ram[Cell(f.at)] = Lo(f.word) /\ ram[Cell(Up(f.at))] = Hi(f.word)

MemoryOK ==
  /\ BusTypeOK
  /\ writes \in Seq(Writes)
  /\ \A f \in frames : f.at \in Word /\ f.word \in Word
  /\ FramesHeld

(* What a step leaves, apart from the instruction that it fetched.         *)
CpuInv ==
  /\ RegOK(reg)
  /\ cycles \in 0 .. 24
  /\ critical \in BOOLEAN
  /\ MemoryOK

-----------------------------------------------------------------------------
LEMMA Bytes ==
  /\ \A b \in Byte : b \in Word /\ b \in AluByte /\ b \in Nat
  /\ \A b \in AluByte : b \in Byte
  /\ \A w \in Word : w \in Nat /\ w <= 65535
<1>1. \A b \in Byte : b \in Word
  BY WordIs DEF Byte
<1>2. \A b \in Byte : b \in AluByte
  BY DEF Byte, AluByte
<1>3. \A b \in AluByte : b \in Byte
  BY DEF Byte, AluByte
<1>4. \A w \in Word : w \in Nat /\ w <= 65535
  BY WordIs
<1> QED
  BY <1>1, <1>2, <1>3, <1>4

LEMMA Wrapped == \A n \in Nat : n % 65536 \in Word
<1>1. \A n \in Nat : n % 65536 \in Nat /\ n % 65536 <= 65535
  OBVIOUS
<1> QED
  BY <1>1, WordIs

LEMMA Halves ==
  ASSUME NEW w \in Word
  PROVE  /\ Hi(w) \in Byte
         /\ Lo(w) \in Byte
         /\ WordOf(Hi(w), Lo(w)) = w
<1>1. w \in Nat /\ w <= 65535
  BY WordIs
<1>2. Hi(w) \in Byte /\ Lo(w) \in Byte
  BY <1>1 DEF Hi, Lo, Byte
<1>3. WordOf(Hi(w), Lo(w)) = w
  BY <1>1 DEF Hi, Lo, WordOf
<1> QED
  BY <1>2, <1>3

LEMMA Joined ==
  ASSUME NEW hi \in Byte, NEW lo \in Byte
  PROVE  /\ WordOf(hi, lo) \in Word
         /\ Hi(WordOf(hi, lo)) = hi
         /\ Lo(WordOf(hi, lo)) = lo
<1>1. hi \in Nat /\ hi <= 255 /\ lo \in Nat /\ lo <= 255
  BY DEF Byte
<1>2. /\ 256 * hi + lo \in Nat /\ 256 * hi + lo <= 65535
      /\ (256 * hi + lo) \div 256 = hi /\ (256 * hi + lo) % 256 = lo
  BY <1>1
<1> QED
  BY <1>2, WordIs DEF Hi, Lo, WordOf

LEMMA Neighbours ==
  ASSUME NEW w \in Word
  PROVE  /\ Up(w) \in Word
         /\ Down(w) \in Word
         /\ Up(Down(w)) = w
         /\ Up(w) # w
         /\ Up(Up(w)) # w
         /\ Down(Down(w)) # w
<1>1. ASSUME NEW v \in Word
      PROVE  Up(v) = IF v = 65535 THEN 0 ELSE v + 1
  <2>1. v \in Nat /\ v <= 65535
    BY Bytes
  <2>2. (v + 1) % 65536 = IF v = 65535 THEN 0 ELSE v + 1
    BY <2>1
  <2> QED
    BY <2>2 DEF Up
<1>2. ASSUME NEW v \in Word
      PROVE  Down(v) = IF v = 0 THEN 65535 ELSE v - 1
  <2>1. v \in Nat /\ v <= 65535
    BY Bytes
  <2>2. (v + 65535) % 65536 = IF v = 0 THEN 65535 ELSE v - 1
    BY <2>1
  <2> QED
    BY <2>2 DEF Down
<1>3. 0 \in Word /\ 65535 \in Word
  BY WordIs
<1>a. \A v \in Word : v # 65535 => v + 1 \in Word
  BY WordIs
<1>b. \A v \in Word : v # 0 => v - 1 \in Word
  BY WordIs
<1>4. \A v \in Word : Up(v) \in Word /\ Down(v) \in Word
  BY <1>1, <1>2, <1>3, <1>a, <1>b
<1>5. w \in Nat /\ w <= 65535
  BY Bytes
<1>6. Up(Up(w)) = IF Up(w) = 65535 THEN 0 ELSE Up(w) + 1
  BY <1>1, <1>4
<1>7. Up(Down(w)) = IF Down(w) = 65535 THEN 0 ELSE Down(w) + 1
  BY <1>1, <1>4
<1>8. Down(Down(w)) = IF Down(w) = 0 THEN 65535 ELSE Down(w) - 1
  BY <1>2, <1>4
<1>9. Up(Down(w)) = w /\ Up(w) # w /\ Up(Up(w)) # w /\ Down(Down(w)) # w
  BY <1>1, <1>2, <1>5, <1>6, <1>7, <1>8
<1> QED
  BY <1>4, <1>9

-----------------------------------------------------------------------------
LEMMA SetByte ==
  ASSUME NEW r, RegOK(r), NEW x \in R8 \ {"F"}, NEW b \in Byte
  PROVE  RegOK([r EXCEPT ![x] = b])
BY Bytes DEF RegOK, R8, R16

LEMMA SetFlags ==
  ASSUME NEW r, RegOK(r), NEW f \in Flags
  PROVE  RegOK([r EXCEPT !["F"] = f])
<1>1. f \in Byte /\ f \in Word /\ f % 16 = 0
  BY Bytes DEF Flags
<1> QED
  BY <1>1 DEF RegOK, R8, R16

LEMMA SetWord ==
  ASSUME NEW r, RegOK(r), NEW x \in R16, NEW w \in Word
  PROVE  RegOK([r EXCEPT ![x] = w])
BY DEF RegOK, R8, R16

LEMMA FetchedOK ==
  ASSUME RegOK(reg), NEW n \in Nat
  PROVE  /\ RegOK(Fetched(n))
         /\ \A x \in R8 \cup {"SP"} : Fetched(n)[x] = reg[x]
         /\ Fetched(n)["PC"] \in Word
<1>1. reg["PC"] \in Nat
  BY Bytes DEF RegOK, R16
<1> DEFINE w == (reg["PC"] + n) % 65536
<1>2. w \in Word
  BY <1>1, Wrapped
<1>3. Fetched(n) = [reg EXCEPT !["PC"] = w]
  BY DEF Fetched
<1>4. RegOK(Fetched(n))
  <2> HIDE DEF w
  <2>1. "PC" \in R16
    BY DEF R16
  <2> QED
    BY <1>2, <1>3, <2>1, SetWord
<1> QED
  BY <1>3, <1>4 DEF RegOK, R8, R16

LEMMA RegistersOK ==
  ASSUME RegOK(reg)
  PROVE  /\ \A x \in R8 : reg[x] \in Byte
         /\ reg["F"] \in Flags
         /\ reg["SP"] \in Word /\ reg["PC"] \in Word
         /\ \A x, y \in R8 : Pair(x, y) \in Word
         /\ BC \in Word /\ DE \in Word /\ HL \in Word
<1>1. \A x \in R8 : reg[x] \in Byte
  BY DEF RegOK
<1>2. \A x, y \in R8 : Pair(x, y) \in Word
  BY <1>1, Joined DEF Pair
<1>3. reg["SP"] \in Word /\ reg["PC"] \in Word
  BY DEF RegOK, R16
<1>4. reg["F"] \in Flags
  BY <1>1, Bytes DEF RegOK, R8, Flags
<1> QED
  BY <1>1, <1>2, <1>3, <1>4 DEF BC, DE, HL, R8

LEMMA ReadsAreBytes ==
  ASSUME BusTypeOK, Address = Word, NEW a \in Word
  PROVE  ReadMemory(a) \subseteq Byte
<1>1. CartBytes(a) \subseteq Byte
  BY BeyondAssumption DEF CartBytes, BusTypeOK
<1>2. IsRam(a) => ram[Cell(a)] \in Byte
  BY DEF BusTypeOK, Cells
<1>3. 255 \in Byte
  BY DEF Byte
<1> QED
  BY <1>1, <1>2, <1>3 DEF ReadMemory, BusTypeOK

LEMMA OperandsOK ==
  ASSUME CpuInv, Address = Word
  PROVE  /\ Imm8 \subseteq Byte
         /\ Imm16 \subseteq Word
         /\ ReadMemory(HL) \subseteq Byte
         /\ ReadMemory(DE) \subseteq Byte
         /\ ReadMemory(reg["PC"]) \subseteq Byte
         /\ StackTop \subseteq Word
<1>1. RegOK(reg) /\ BusTypeOK
  BY DEF CpuInv, MemoryOK
<1>2. reg["PC"] \in Word /\ reg["SP"] \in Word /\ HL \in Word /\ DE \in Word
  BY <1>1, RegistersOK
<1>3. /\ Up(reg["PC"]) \in Word
      /\ Up(Up(reg["PC"])) \in Word
      /\ Up(reg["SP"]) \in Word
  BY <1>2, Neighbours
<1>4. Imm8 \subseteq Byte
  BY <1>1, <1>3, ReadsAreBytes DEF Imm8
<1>5. ReadMemory(Up(Up(reg["PC"]))) \subseteq Byte
  BY <1>1, <1>3, ReadsAreBytes
<1>6. ReadMemory(reg["SP"]) \subseteq Byte /\ ReadMemory(Up(reg["SP"])) \subseteq Byte
  BY <1>1, <1>2, <1>3, ReadsAreBytes
<1>7. Imm16 \subseteq Word
  BY <1>4, <1>5, Joined DEF Imm16
<1>8. StackTop \subseteq Word
  BY <1>6, Joined DEF StackTop
<1> QED
  BY <1>1, <1>2, <1>4, <1>7, <1>8, ReadsAreBytes

-----------------------------------------------------------------------------
(* The registers an instruction computes.                                  *)
LEMMA SetPair ==
  ASSUME NEW r, RegOK(r), NEW x \in R8 \ {"F"}, NEW y \in R8 \ {"F"},
         NEW b \in Byte, NEW c \in Byte
  PROVE  RegOK([r EXCEPT ![x] = b, ![y] = c])
<1> DEFINE s == [r EXCEPT ![x] = b]
<1>1. RegOK(s)
  BY SetByte
<1>2. [r EXCEPT ![x] = b, ![y] = c] = [s EXCEPT ![y] = c]
  OBVIOUS
<1> HIDE DEF s
<1> QED
  BY <1>1, <1>2, SetByte

LEMMA SetByteAndFlags ==
  ASSUME NEW r, RegOK(r), NEW x \in R8 \ {"F"}, NEW b \in Byte, NEW f \in Flags
  PROVE  RegOK([r EXCEPT ![x] = b, !["F"] = f])
<1> DEFINE s == [r EXCEPT ![x] = b]
<1>1. RegOK(s)
  BY SetByte
<1>2. [r EXCEPT ![x] = b, !["F"] = f] = [s EXCEPT !["F"] = f]
  OBVIOUS
<1> HIDE DEF s
<1> QED
  BY <1>1, <1>2, SetFlags

LEMMA SetThree ==
  ASSUME NEW r, RegOK(r), NEW a \in Byte, NEW b \in Byte, NEW c \in Byte
  PROVE  RegOK([r EXCEPT !["A"] = a, !["H"] = b, !["L"] = c])
<1> DEFINE s == [r EXCEPT !["A"] = a]
<1>1. RegOK(s)
  BY SetByte DEF R8
<1>2. [r EXCEPT !["A"] = a, !["H"] = b, !["L"] = c] = [s EXCEPT !["H"] = b, !["L"] = c]
  OBVIOUS
<1>3. "H" \in R8 \ {"F"} /\ "L" \in R8 \ {"F"}
  BY DEF R8
<1> HIDE DEF s
<1> QED
  BY <1>1, <1>2, <1>3, SetPair

LEMMA PushedOK ==
  ASSUME NEW r, RegOK(r)
  PROVE  RegOK(Pushed(r)) /\ RegOK(Popped(r))
<1>1. r["SP"] \in Word /\ "SP" \in R16
  BY DEF RegOK, R16
<1>2. Down(Down(r["SP"])) \in Word /\ Up(Up(r["SP"])) \in Word
  BY <1>1, Neighbours
<1>3. RegOK(Pushed(r))
  BY <1>1, <1>2, SetWord DEF Pushed
<1>4. RegOK(Popped(r))
  BY <1>1, <1>2, SetWord DEF Popped
<1> QED
  BY <1>3, <1>4

-----------------------------------------------------------------------------
(* What an instruction does to the memory.                                 *)
LEMMA CallTyped ==
  ASSUME NEW a \in Word, NEW d \in Byte
  PROVE  Call(a, d) \in Writes
BY DEF Call, Writes

LEMMA AfterTyped ==
  ASSUME NEW m \in [Cells -> Byte], NEW flag \in Byte, NEW enable \in Byte,
         NEW a \in Word, NEW d \in Byte
  PROVE  /\ RamAfter(m, a, d) \in [Cells -> Byte]
         /\ FlagAfter(flag, a, d) \in Byte
         /\ EnableAfter(enable, a, d) \in Byte
BY DEF RamAfter, FlagAfter, EnableAfter

LEMMA FramesHeldNext ==
  ASSUME ASSUME NEW f \in frames', IsRam(f.at), IsRam(Up(f.at))
         PROVE  /\ ram'[Cell(f.at)] = Lo(f.word)
                /\ ram'[Cell(Up(f.at))] = Hi(f.word)
  PROVE  FramesHeld'
BY DEF FramesHeld

LEMMA SameFramesHeld ==
  ASSUME FramesHeld, UNCHANGED <<ram, frames>>
  PROVE  FramesHeld'
BY FramesHeldNext DEF FramesHeld

LEMMA OtherCellsKept ==
  ASSUME NEW m, NEW a \in Word, NEW b \in Word, NEW d, a # b, IsRam(b)
  PROVE  RamAfter(m, a, d)[Cell(b)] = m[Cell(b)]
<1>1. IsRam(a) => Cell(a) # Cell(b)
  BY Bytes, CellsAreApart
<1> QED
  BY <1>1 DEF RamAfter

LEMMA CellWritten ==
  ASSUME NEW m \in [Cells -> Byte], NEW a \in Word, NEW d, IsRam(a), Address = Word
  PROVE  RamAfter(m, a, d)[Cell(a)] = d
BY DEF RamAfter, Cells

LEMMA RamIsRead ==
  ASSUME NEW a \in Word, IsRam(a)
  PROVE  ReadMemory(a) = {ram[Cell(a)]}
<1>1. a \in Nat /\ a <= 65535
  BY Bytes
<1>2. ~IsCart(a)
  BY <1>1, ArraysByRange DEF IsRam
<1> QED
  BY <1>2 DEF ReadMemory

LEMMA StoreKeepsFrames ==
  ASSUME MemoryOK, NEW a \in Word, NEW d, Store(a, d)
  PROVE  FramesHeld'
<1> SUFFICES ASSUME NEW f \in frames', IsRam(f.at), IsRam(Up(f.at))
             PROVE  /\ ram'[Cell(f.at)] = Lo(f.word)
                    /\ ram'[Cell(Up(f.at))] = Hi(f.word)
  BY FramesHeldNext
<1>1. f \in frames /\ a # f.at /\ a # Up(f.at)
  BY DEF Store, Untouched
<1>2. f.at \in Word /\ Up(f.at) \in Word
  BY <1>1, Neighbours DEF MemoryOK
<1>3. ram' = RamAfter(ram, a, d)
  BY DEF Store, WriteMemory
<1> QED
  BY <1>1, <1>2, <1>3, OtherCellsKept DEF MemoryOK, FramesHeld

LEMMA PushKeepsFrames ==
  ASSUME Address = Word, RegOK(reg), MemoryOK,
         NEW hi \in Byte, NEW lo \in Byte, StackPush(hi, lo)
  PROVE  FramesHeld'
<1> DEFINE first == Down(reg["SP"])
           second == Down(first)
<1>1. first \in Word /\ second \in Word /\ Up(second) = first /\ second # first
  BY RegistersOK, Neighbours
<1> HIDE DEF first, second
<1>2. /\ ram' = RamAfter(RamAfter(ram, first, hi), second, lo)
      /\ frames' = Untouched({first, second})
                     \cup {[at |-> second, word |-> WordOf(hi, lo)]}
  BY DEF StackPush, first, second
<1>3. RamAfter(ram, first, hi) \in [Cells -> Byte] /\ ram \in [Cells -> Byte]
  BY <1>1, AfterTyped DEF MemoryOK, BusTypeOK
<1> SUFFICES ASSUME NEW f \in frames', IsRam(f.at), IsRam(Up(f.at))
             PROVE  /\ ram'[Cell(f.at)] = Lo(f.word)
                    /\ ram'[Cell(Up(f.at))] = Hi(f.word)
  BY FramesHeldNext
<1>4. CASE f \in Untouched({first, second})
  <2>1. f \in frames /\ first \notin {f.at, Up(f.at)} /\ second \notin {f.at, Up(f.at)}
    BY <1>4 DEF Untouched
  <2>2. f.at \in Word /\ Up(f.at) \in Word
    BY <2>1, Neighbours DEF MemoryOK
  <2>3. /\ ram'[Cell(f.at)] = RamAfter(ram, first, hi)[Cell(f.at)]
        /\ ram'[Cell(Up(f.at))] = RamAfter(ram, first, hi)[Cell(Up(f.at))]
    BY <1>1, <1>2, <2>1, <2>2, OtherCellsKept
  <2>4. /\ RamAfter(ram, first, hi)[Cell(f.at)] = ram[Cell(f.at)]
        /\ RamAfter(ram, first, hi)[Cell(Up(f.at))] = ram[Cell(Up(f.at))]
    BY <1>1, <2>1, <2>2, OtherCellsKept
  <2> QED
    BY <2>1, <2>3, <2>4 DEF MemoryOK, FramesHeld
<1>5. CASE f = [at |-> second, word |-> WordOf(hi, lo)]
  <2>1. f.at = second /\ Up(f.at) = first /\ f.word = WordOf(hi, lo)
    BY <1>1, <1>5
  <2>2. ram'[Cell(second)] = lo
    BY <1>1, <1>2, <1>3, <2>1, CellWritten
  <2>3. ram'[Cell(first)] = RamAfter(ram, first, hi)[Cell(first)]
    BY <1>1, <1>2, <2>1, OtherCellsKept
  <2>4. RamAfter(ram, first, hi)[Cell(first)] = hi
    BY <1>1, <1>3, <2>1, CellWritten
  <2>5. Lo(f.word) = lo /\ Hi(f.word) = hi
    BY <2>1, Joined
  <2> QED
    BY <2>1, <2>2, <2>3, <2>4, <2>5
<1> QED
  BY <1>2, <1>4, <1>5

LEMMA NoWriteKeeps ==
  ASSUME MemoryOK, NoWrite
  PROVE  MemoryOK'
<1>1. FramesHeld'
  BY SameFramesHeld DEF MemoryOK, NoWrite, busVars
<1> QED
  BY <1>1 DEF MemoryOK, NoWrite, BusTypeOK, busVars, Cells, Cell, Writes

LEMMA StoreKeeps ==
  ASSUME MemoryOK, NEW a \in Word, NEW d \in Byte, Store(a, d)
  PROVE  MemoryOK'
<1>1. BusTypeOK
  BY DEF MemoryOK
<1>2. /\ ram' \in [Cells -> Byte]
      /\ interrupt_flag' \in Byte
      /\ interrupt_enable' \in Byte
  BY <1>1, AfterTyped DEF BusTypeOK, Store, WriteMemory
<1>3. cart_data' = cart_data /\ written' = Call(a, d)
  BY DEF Store, WriteMemory, Call
<1>4. written' \in Writes /\ writes' \in Seq(Writes)
  BY <1>3, CallTyped DEF Store
<1>5. BusTypeOK'
  BY <1>1, <1>2, <1>3, <1>4 DEF BusTypeOK, Writes
<1>6. \A f \in frames' : f \in frames
  BY DEF Store, Untouched
<1> QED
  BY <1>4, <1>5, <1>6, StoreKeepsFrames DEF MemoryOK

LEMMA PushKeeps ==
  ASSUME Address = Word, MemoryOK, RegOK(reg),
         NEW hi \in Byte, NEW lo \in Byte, StackPush(hi, lo)
  PROVE  MemoryOK'
<1> DEFINE first == Down(reg["SP"])
           second == Down(first)
<1>1. BusTypeOK
  BY DEF MemoryOK
<1>2. first \in Word /\ second \in Word
  BY RegistersOK, Neighbours
<1> HIDE DEF first, second
<1>3. /\ ram' = RamAfter(RamAfter(ram, first, hi), second, lo)
      /\ interrupt_flag' = FlagAfter(FlagAfter(interrupt_flag, first, hi), second, lo)
      /\ interrupt_enable' =
           EnableAfter(EnableAfter(interrupt_enable, first, hi), second, lo)
      /\ written' = Call(second, lo)
      /\ writes' = <<Call(first, hi), Call(second, lo)>>
      /\ frames' = Untouched({first, second})
                     \cup {[at |-> second, word |-> WordOf(hi, lo)]}
      /\ cart_data' = cart_data
  BY DEF StackPush, first, second
<1>4. /\ RamAfter(ram, first, hi) \in [Cells -> Byte]
      /\ FlagAfter(interrupt_flag, first, hi) \in Byte
      /\ EnableAfter(interrupt_enable, first, hi) \in Byte
  BY <1>1, <1>2, AfterTyped DEF BusTypeOK
<1>5. /\ ram' \in [Cells -> Byte]
      /\ interrupt_flag' \in Byte
      /\ interrupt_enable' \in Byte
  BY <1>2, <1>3, <1>4, AfterTyped
<1>6. Call(first, hi) \in Writes /\ Call(second, lo) \in Writes
  BY <1>2, CallTyped
<1>7. written' \in Writes /\ writes' \in Seq(Writes)
  BY <1>3, <1>6
<1>8. BusTypeOK'
  BY <1>1, <1>3, <1>5, <1>7 DEF BusTypeOK, Writes
<1>9. WordOf(hi, lo) \in Word
  BY Joined
<1> QED
  BY <1>2, <1>3, <1>7, <1>8, <1>9, PushKeepsFrames DEF MemoryOK, Untouched

LEMMA FinishOK ==
  ASSUME NEW r, RegOK(r), NEW t \in 0 .. 24, Finish(r, t), MemoryOK'
  PROVE  CpuInv'
BY DEF Finish, CpuInv, RegOK, R8, R16

-----------------------------------------------------------------------------
(* The families of instructions, one lemma each.                           *)
Ready == CpuInv /\ Address = Word

LEMMA FromReady ==
  ASSUME Ready
  PROVE  /\ RegOK(reg) /\ MemoryOK
         /\ RegOK(Fetched(1)) /\ RegOK(Fetched(2)) /\ RegOK(Fetched(3))
         /\ NoWrite => MemoryOK'
         /\ \A x \in R8 \cup {"SP"} :
              Fetched(1)[x] = reg[x] /\ Fetched(2)[x] = reg[x] /\ Fetched(3)[x] = reg[x]
<1>1. RegOK(reg) /\ MemoryOK
  BY DEF Ready, CpuInv
<1> QED
  BY <1>1, FetchedOK, NoWriteKeeps

LEMMA NopOK ==
  ASSUME Ready, NEW op, Nop(op)
  PROVE  CpuInv'
BY FromReady, FinishOK DEF Nop

LEMMA LoadPairImm16OK ==
  ASSUME Ready, NEW op, LoadPairImm16(op)
  PROVE  CpuInv'
<1>1. CASE \E t \in LD_RR_IMM16 : \E w \in Imm16 :
             Finish([Fetched(3) EXCEPT ![t[2]] = Hi(w), ![t[3]] = Lo(w)], 12)
  <2>1. PICK t \in LD_RR_IMM16, w \in Imm16 :
           Finish([Fetched(3) EXCEPT ![t[2]] = Hi(w), ![t[3]] = Lo(w)], 12)
    BY <1>1
  <2>2. t[2] \in R8 \ {"F"} /\ t[3] \in R8 \ {"F"}
    BY DEF LD_RR_IMM16, R8
  <2>3. Hi(w) \in Byte /\ Lo(w) \in Byte
    BY OperandsOK, Halves DEF Ready
  <2>4. RegOK([Fetched(3) EXCEPT ![t[2]] = Hi(w), ![t[3]] = Lo(w)])
    BY <2>2, <2>3, FromReady, SetPair
  <2> QED
    BY <2>1, <2>4, FromReady, FinishOK DEF LoadPairImm16
<1>2. CASE \E w \in Imm16 : Finish([Fetched(3) EXCEPT !["SP"] = w], 12)
  <2>1. PICK w \in Imm16 : Finish([Fetched(3) EXCEPT !["SP"] = w], 12)
    BY <1>2
  <2>2. w \in Word /\ "SP" \in R16
    BY OperandsOK DEF Ready, R16
  <2>3. RegOK([Fetched(3) EXCEPT !["SP"] = w])
    BY <2>2, FromReady, SetWord
  <2> QED
    BY <2>1, <2>3, FromReady, FinishOK DEF LoadPairImm16
<1> QED
  BY <1>1, <1>2 DEF LoadPairImm16

LEMMA IncPairOK ==
  ASSUME Ready, NEW op, IncPair(op)
  PROVE  CpuInv'
<1>1. PICK t \in INC_RR :
        LET w == Up(Pair(t[2], t[3])) IN
        /\ Finish([Fetched(1) EXCEPT ![t[2]] = Hi(w), ![t[3]] = Lo(w)], 8)
        /\ NoWrite
  BY DEF IncPair
<1> DEFINE w == Up(Pair(t[2], t[3]))
<1>2. t[2] \in R8 \ {"F"} /\ t[3] \in R8 \ {"F"}
  BY DEF INC_RR, R8
<1>3. w \in Word
  BY <1>2, FromReady, RegistersOK, Neighbours
<1>4. Finish([Fetched(1) EXCEPT ![t[2]] = Hi(w), ![t[3]] = Lo(w)], 8) /\ NoWrite
  BY <1>1
<1> HIDE DEF w
<1>5. RegOK([Fetched(1) EXCEPT ![t[2]] = Hi(w), ![t[3]] = Lo(w)])
  BY <1>2, <1>3, Halves, FromReady, SetPair
<1> QED
  BY <1>4, <1>5, FromReady, FinishOK

LEMMA ResultParts ==
  ASSUME NEW result \in Results
  PROVE  result.value \in Byte /\ result.flags \in Flags
BY Bytes DEF Results

LEMMA IncDecByteOK ==
  ASSUME Ready, NEW op, IncDecByte(op)
  PROVE  CpuInv'
<1>1. PICK r \in R8 :
        LET result == IF <<op, r>> \in INC_R THEN Inc(reg[r], reg["F"])
                      ELSE Dec(reg[r], reg["F"]) IN
        /\ <<op, r>> \in INC_R \cup DEC_R
        /\ Finish([Fetched(1) EXCEPT ![r] = result.value, !["F"] = result.flags], 4)
        /\ NoWrite
  BY DEF IncDecByte
<1> DEFINE result == IF <<op, r>> \in INC_R THEN Inc(reg[r], reg["F"])
                     ELSE Dec(reg[r], reg["F"])
<1>2. r \in R8 \ {"F"}
  BY <1>1 DEF INC_R, DEC_R
<1>3. result \in Results
  BY FromReady, RegistersOK, Bytes, IncDecTyped
<1>4. Finish([Fetched(1) EXCEPT ![r] = result.value, !["F"] = result.flags], 4) /\ NoWrite
  BY <1>1
<1> HIDE DEF result
<1>5. RegOK([Fetched(1) EXCEPT ![r] = result.value, !["F"] = result.flags])
  BY <1>2, <1>3, ResultParts, FromReady, SetByteAndFlags
<1> QED
  BY <1>4, <1>5, FromReady, FinishOK

LEMMA LoadImm8OK ==
  ASSUME Ready, NEW op, LoadImm8(op)
  PROVE  CpuInv'
<1>1. PICK r \in R8, x \in Imm8 :
        <<op, r>> \in LD_R_IMM8 /\ Finish([Fetched(2) EXCEPT ![r] = x], 8) /\ NoWrite
  BY DEF LoadImm8
<1>2. r \in R8 \ {"F"} /\ x \in Byte
  BY <1>1, OperandsOK DEF LD_R_IMM8, Ready
<1>3. RegOK([Fetched(2) EXCEPT ![r] = x])
  BY <1>2, FromReady, SetByte
<1> QED
  BY <1>1, <1>3, FromReady, FinishOK

LEMMA LoadByteOK ==
  ASSUME Ready, NEW op, LoadByte(op)
  PROVE  CpuInv'
<1>1. PICK t \in LD_R_R : Finish([Fetched(1) EXCEPT ![t[2]] = reg[t[3]]], 4) /\ NoWrite
  BY DEF LoadByte
<1>2. t[2] \in R8 \ {"F"} /\ t[3] \in R8
  BY DEF LD_R_R, R8
<1>3. reg[t[3]] \in Byte
  BY <1>2, FromReady, RegistersOK
<1>4. RegOK([Fetched(1) EXCEPT ![t[2]] = reg[t[3]]])
  BY <1>2, <1>3, FromReady, SetByte
<1> QED
  BY <1>1, <1>4, FromReady, FinishOK

LEMMA LoadFromHLOK ==
  ASSUME Ready, NEW op, LoadFromHL(op)
  PROVE  CpuInv'
<1>1. PICK r \in R8, x \in ReadMemory(HL) :
        <<op, r>> \in LD_R_MEM_HL /\ Finish([Fetched(1) EXCEPT ![r] = x], 8) /\ NoWrite
  BY DEF LoadFromHL
<1>2. r \in R8 \ {"F"} /\ x \in Byte
  BY <1>1, OperandsOK DEF LD_R_MEM_HL, Ready
<1>3. RegOK([Fetched(1) EXCEPT ![r] = x])
  BY <1>2, FromReady, SetByte
<1> QED
  BY <1>1, <1>3, FromReady, FinishOK

LEMMA StoreAtHLOK ==
  ASSUME Ready, NEW op, StoreAtHL(op)
  PROVE  CpuInv'
<1>1. PICK r \in R8 : Finish(Fetched(1), 8) /\ Store(HL, reg[r])
  BY DEF StoreAtHL
<1>2. reg[r] \in Byte /\ HL \in Word
  BY FromReady, RegistersOK
<1>3. MemoryOK'
  BY <1>1, <1>2, FromReady, StoreKeeps
<1> QED
  BY <1>1, <1>3, FromReady, FinishOK

LEMMA StoreAOK ==
  ASSUME Ready, NEW op, StoreA(op)
  PROVE  CpuInv'
<1>1. /\ reg["A"] \in Byte /\ HL \in Word /\ DE \in Word
      /\ "H" \in R8 \ {"F"} /\ "L" \in R8 \ {"F"}
  BY FromReady, RegistersOK DEF R8
<1>2. CASE Finish(Fetched(1), 8) /\ Store(DE, reg["A"])
  BY <1>1, <1>2, FromReady, StoreKeeps, FinishOK
<1>3. CASE \E w \in {Up(HL), Down(HL)} :
             /\ Finish([Fetched(1) EXCEPT !["H"] = Hi(w), !["L"] = Lo(w)], 8)
             /\ Store(HL, reg["A"])
  <2>1. PICK w \in {Up(HL), Down(HL)} :
          /\ Finish([Fetched(1) EXCEPT !["H"] = Hi(w), !["L"] = Lo(w)], 8)
          /\ Store(HL, reg["A"])
    BY <1>3
  <2>2. w \in Word
    BY <1>1, <2>1, Neighbours
  <2>3. RegOK([Fetched(1) EXCEPT !["H"] = Hi(w), !["L"] = Lo(w)])
    BY <1>1, <2>2, Halves, FromReady, SetPair
  <2>4. MemoryOK'
    BY <1>1, <2>1, FromReady, StoreKeeps
  <2> QED
    BY <2>1, <2>3, <2>4, FinishOK
<1> QED
  BY <1>2, <1>3 DEF StoreA

LEMMA LoadAOK ==
  ASSUME Ready, NEW op, LoadA(op)
  PROVE  CpuInv'
<1>1. CASE \E x \in ReadMemory(DE) : Finish([Fetched(1) EXCEPT !["A"] = x], 8)
  <2>1. PICK x \in ReadMemory(DE) : Finish([Fetched(1) EXCEPT !["A"] = x], 8)
    BY <1>1
  <2>2. x \in Byte /\ "A" \in R8 \ {"F"}
    BY OperandsOK DEF Ready, R8
  <2>3. RegOK([Fetched(1) EXCEPT !["A"] = x])
    BY <2>2, FromReady, SetByte
  <2> QED
    BY <2>1, <2>3, FromReady, FinishOK DEF LoadA
<1>2. CASE \E x \in ReadMemory(HL) :
             Finish([Fetched(1) EXCEPT !["A"] = x, !["H"] = Hi(Up(HL)),
                                       !["L"] = Lo(Up(HL))], 8)
  <2>1. PICK x \in ReadMemory(HL) :
          Finish([Fetched(1) EXCEPT !["A"] = x, !["H"] = Hi(Up(HL)),
                                    !["L"] = Lo(Up(HL))], 8)
    BY <1>2
  <2>2. x \in Byte /\ Up(HL) \in Word
    BY OperandsOK, FromReady, RegistersOK, Neighbours DEF Ready
  <2>3. RegOK([Fetched(1) EXCEPT !["A"] = x, !["H"] = Hi(Up(HL)), !["L"] = Lo(Up(HL))])
    BY <2>2, Halves, FromReady, SetThree
  <2> QED
    BY <2>1, <2>3, FromReady, FinishOK DEF LoadA
<1> QED
  BY <1>1, <1>2 DEF LoadA

LEMMA DecMemHLOK ==
  ASSUME Ready, NEW op, DecMemHL(op)
  PROVE  CpuInv'
<1>1. PICK x \in ReadMemory(HL) :
        /\ Finish([Fetched(1) EXCEPT !["F"] = Dec(x, reg["F"]).flags], 12)
        /\ Store(HL, Dec(x, reg["F"]).value)
  BY DEF DecMemHL
<1>2. x \in Byte /\ x \in AluByte /\ HL \in Word /\ reg["F"] \in Flags
  BY OperandsOK, FromReady, RegistersOK, Bytes DEF Ready
<1>3. Dec(x, reg["F"]).value \in Byte /\ Dec(x, reg["F"]).flags \in Flags
  BY <1>2, IncDecTyped, ResultParts
<1>4. RegOK([Fetched(1) EXCEPT !["F"] = Dec(x, reg["F"]).flags])
  BY <1>3, FromReady, SetFlags
<1>5. MemoryOK'
  BY <1>1, <1>2, <1>3, FromReady, StoreKeeps
<1> QED
  BY <1>1, <1>4, <1>5, FinishOK

LEMMA HighOrImm16OK ==
  ASSUME Ready, NEW high
  PROVE  HighOrImm16(high) \subseteq Word
<1>1. \A x \in Byte : 65280 + x \in Word
  BY WordIs DEF Byte
<1>2. Imm8 \subseteq Byte /\ Imm16 \subseteq Word
  BY OperandsOK DEF Ready
<1>3. {65280 + x : x \in Imm8} \subseteq Word
  BY <1>1, <1>2
<1> QED
  BY <1>2, <1>3 DEF HighOrImm16

LEMMA StoreAAtOK ==
  ASSUME Ready, NEW op, StoreAAt(op)
  PROVE  CpuInv'
<1>1. PICK a \in HighOrImm16(op = 224) : Store(a, reg["A"])
  BY DEF StoreAAt
<1>2. a \in Word /\ reg["A"] \in Byte
  BY HighOrImm16OK, FromReady, RegistersOK DEF R8
<1>3. MemoryOK'
  BY <1>1, <1>2, FromReady, StoreKeeps
<1> QED
  BY <1>3, FromReady, FinishOK DEF StoreAAt

LEMMA LoadAFromOK ==
  ASSUME Ready, NEW op, LoadAFrom(op)
  PROVE  CpuInv'
<1> PICK a \in HighOrImm16(op = 240) : \E x \in ReadMemory(a) :
      Finish([Fetched(IF op = 240 THEN 2 ELSE 3) EXCEPT !["A"] = x], 0)
  BY DEF LoadAFrom
<1>1. PICK x \in ReadMemory(a) :
        Finish([Fetched(IF op = 240 THEN 2 ELSE 3) EXCEPT !["A"] = x], 0)
  OBVIOUS
<1>2. a \in Word
  BY HighOrImm16OK
<1>3. x \in Byte /\ "A" \in R8 \ {"F"}
  BY <1>2, FromReady, ReadsAreBytes DEF Ready, MemoryOK, R8
<1>4. RegOK(Fetched(IF op = 240 THEN 2 ELSE 3))
  BY FromReady
<1>5. RegOK([Fetched(IF op = 240 THEN 2 ELSE 3) EXCEPT !["A"] = x])
  BY <1>3, <1>4, SetByte
<1>6. MemoryOK'
  BY FromReady DEF LoadAFrom
<1> QED
  BY <1>1, <1>5, <1>6, FinishOK

LEMMA ArithmeticOK ==
  ASSUME Ready, NEW op, Arithmetic(op)
  PROVE  CpuInv'
<1> PICK t \in ALU_A : \E x \in Operands(t[3]) :
        LET result == Operation(t[2], reg["A"], x, reg["F"])
            size == IF t[3] = "imm8" THEN 2 ELSE 1
        IN  Finish([Fetched(size) EXCEPT !["A"] = result.value,
                                         !["F"] = result.flags], t[4])
  BY DEF Arithmetic
<1>1. PICK x \in Operands(t[3]) :
        LET result == Operation(t[2], reg["A"], x, reg["F"])
            size == IF t[3] = "imm8" THEN 2 ELSE 1
        IN  Finish([Fetched(size) EXCEPT !["A"] = result.value,
                                         !["F"] = result.flags], t[4])
  OBVIOUS
<1> DEFINE result == Operation(t[2], reg["A"], x, reg["F"])
           size == IF t[3] = "imm8" THEN 2 ELSE 1
<1>2. /\ t[2] \in Operations
      /\ t[3] \in R8 \cup {"imm8", "mem_hl"}
      /\ t[4] \in 0 .. 24
  BY DEF ALU_A, Operations, R8
<1>3. x \in Byte
  BY <1>2, FromReady, RegistersOK, OperandsOK DEF Operands, Ready
<1>4. "A" \in R8 \ {"F"}
  BY DEF R8
<1>5. result \in Results
  BY <1>2, <1>3, <1>4, FromReady, RegistersOK, Bytes, OperationTyped
<1>6. Finish([Fetched(size) EXCEPT !["A"] = result.value, !["F"] = result.flags], t[4])
  BY <1>1
<1>7. RegOK(Fetched(size)) /\ MemoryOK'
  BY FromReady DEF Arithmetic
<1> HIDE DEF result, size
<1>8. RegOK([Fetched(size) EXCEPT !["A"] = result.value, !["F"] = result.flags])
  BY <1>4, <1>5, <1>7, ResultParts, SetByteAndFlags
<1> QED
  BY <1>2, <1>6, <1>7, <1>8, FinishOK

LEMMA AddHLHLOK ==
  ASSUME Ready, NEW op, AddHLHL(op)
  PROVE  CpuInv'
<1> DEFINE w == (HL + HL) % 65536
           c == HL + HL > 65535
           s == [Fetched(1) EXCEPT !["H"] = Hi(w), !["L"] = Lo(w)]
<1>1. HL \in Nat
  BY FromReady, RegistersOK, Bytes
<1>2. w \in Word /\ c \in BOOLEAN
  BY <1>1, Wrapped
<1>3. "H" \in R8 \ {"F"} /\ "L" \in R8 \ {"F"}
  BY DEF R8
<1>4. Finish([Fetched(1) EXCEPT !["H"] = Hi(w), !["L"] = Lo(w),
                                !["F"] = SetCarry(@, c)], 8) /\ NoWrite
  BY DEF AddHLHL
<1> HIDE DEF w, c
<1>5. RegOK(s)
  BY <1>2, <1>3, Halves, FromReady, SetPair
<1>6. s["F"] \in Flags
  BY <1>5, Bytes DEF RegOK, R8, Flags
<1>7. SetCarry(s["F"], c) \in Flags
  BY <1>2, <1>6, CarryKept
<1>8. [Fetched(1) EXCEPT !["H"] = Hi(w), !["L"] = Lo(w), !["F"] = SetCarry(@, c)]
        = [s EXCEPT !["F"] = SetCarry(s["F"], c)]
  OBVIOUS
<1> HIDE DEF s
<1>9. RegOK([s EXCEPT !["F"] = SetCarry(s["F"], c)])
  BY <1>5, <1>7, SetFlags
<1> QED
  BY <1>4, <1>8, <1>9, FromReady, FinishOK

LEMMA RotateAOK ==
  ASSUME Ready, NEW op, RotateA(op)
  PROVE  CpuInv'
<1> DEFINE result == Rra(reg["A"], reg["F"])
<1>1. "A" \in R8 \ {"F"}
  BY DEF R8
<1>2. result \in Results
  BY <1>1, FromReady, RegistersOK, Bytes, ShiftTyped
<1>3. Finish([Fetched(1) EXCEPT !["A"] = result.value, !["F"] = result.flags], 4)
        /\ NoWrite
  BY DEF RotateA
<1> HIDE DEF result
<1>4. RegOK([Fetched(1) EXCEPT !["A"] = result.value, !["F"] = result.flags])
  BY <1>1, <1>2, ResultParts, FromReady, SetByteAndFlags
<1> QED
  BY <1>3, <1>4, FromReady, FinishOK

LEMMA LogCriticalOK ==
  ASSUME NEW r, RegOK(r), LogCritical(r), MemoryOK'
  PROVE  CpuInv'
BY DEF LogCritical, CpuInv, RegOK, R8, R16

LEMMA PrefixCbOK ==
  ASSUME Ready, NEW op, PrefixCb(op)
  PROVE  CpuInv'
<1> PICK cb \in Imm8 :
      \/ \E t \in CB :
           LET result == IF cb = OP_SRL_B THEN Srl(reg[t[2]], reg["F"])
                         ELSE Rr(reg[t[2]], reg["F"]) IN
           Finish([Fetched(2) EXCEPT ![t[2]] = result.value, !["F"] = result.flags], 8)
      \/ LogCritical(Fetched(2))
  BY DEF PrefixCb
<1>1. MemoryOK'
  BY FromReady DEF PrefixCb
<1>2. CASE LogCritical(Fetched(2))
  BY <1>1, <1>2, FromReady, LogCriticalOK
<1>3. CASE \E t \in CB :
        LET result == IF cb = OP_SRL_B THEN Srl(reg[t[2]], reg["F"])
                      ELSE Rr(reg[t[2]], reg["F"]) IN
        Finish([Fetched(2) EXCEPT ![t[2]] = result.value, !["F"] = result.flags], 8)
  <2>1. PICK t \in CB :
          LET result == IF cb = OP_SRL_B THEN Srl(reg[t[2]], reg["F"])
                        ELSE Rr(reg[t[2]], reg["F"]) IN
          Finish([Fetched(2) EXCEPT ![t[2]] = result.value, !["F"] = result.flags], 8)
    BY <1>3
  <2> DEFINE result == IF cb = OP_SRL_B THEN Srl(reg[t[2]], reg["F"])
                       ELSE Rr(reg[t[2]], reg["F"])
  <2>2. t[2] \in R8 \ {"F"}
    BY DEF CB, R8
  <2>3. result \in Results
    BY <2>2, FromReady, RegistersOK, Bytes, ShiftTyped
  <2>4. Finish([Fetched(2) EXCEPT ![t[2]] = result.value, !["F"] = result.flags], 8)
    BY <2>1
  <2> HIDE DEF result
  <2>5. RegOK([Fetched(2) EXCEPT ![t[2]] = result.value, !["F"] = result.flags])
    BY <2>2, <2>3, ResultParts, FromReady, SetByteAndFlags
  <2> QED
    BY <1>1, <2>4, <2>5, FinishOK
<1> QED
  BY <1>2, <1>3

LEMMA JumpRelativeOK ==
  ASSUME Ready, NEW op, JumpRelative(op)
  PROVE  CpuInv'
<1> DEFINE offset(x) == IF x < 128 THEN x ELSE x + 65280
<1>1. PICK t \in JR, x \in Imm8 :
        IF Taken(t[2])
        THEN Finish([Fetched(2) EXCEPT !["PC"] = (@ + offset(x)) % 65536], t[3])
        ELSE Finish(Fetched(2), t[4])
  BY DEF JumpRelative
<1>2. t[3] \in 0 .. 24 /\ t[4] \in 0 .. 24
  BY DEF JR
<1>3. MemoryOK'
  BY FromReady DEF JumpRelative
<1>4. x \in Nat
  BY OperandsOK, Bytes DEF Ready
<1>5. Fetched(2)["PC"] \in Nat
  BY FromReady, Bytes DEF RegOK, R16
<1> DEFINE w == (Fetched(2)["PC"] + offset(x)) % 65536
<1>6. offset(x) \in Nat
  BY <1>4
<1>7. w \in Word /\ "PC" \in R16
  BY <1>5, <1>6, Wrapped DEF R16
<1>8. [Fetched(2) EXCEPT !["PC"] = (@ + offset(x)) % 65536] = [Fetched(2) EXCEPT !["PC"] = w]
  OBVIOUS
<1>9. CASE Taken(t[2])
  <2>1. Finish([Fetched(2) EXCEPT !["PC"] = w], t[3])
    BY <1>1, <1>8, <1>9
  <2> HIDE DEF w
  <2>2. RegOK([Fetched(2) EXCEPT !["PC"] = w])
    BY <1>7, FromReady, SetWord
  <2> QED
    BY <1>2, <1>3, <2>1, <2>2, FinishOK
<1>10. CASE ~Taken(t[2])
  <2>1. Finish(Fetched(2), t[4])
    BY <1>1, <1>10
  <2> QED
    BY <1>2, <1>3, <2>1, FromReady, FinishOK
<1> QED
  BY <1>9, <1>10

LEMMA JumpToOK ==
  ASSUME Ready, NEW op, JumpTo(op)
  PROVE  CpuInv'
<1>1. MemoryOK'
  BY FromReady DEF JumpTo
<1>2. CASE \E t \in JP : \E w \in Imm16 :
             IF Taken(t[2]) THEN Finish([Fetched(3) EXCEPT !["PC"] = w], t[3])
             ELSE Finish(Fetched(3), t[4])
  <2>1. PICK t \in JP, w \in Imm16 :
          IF Taken(t[2]) THEN Finish([Fetched(3) EXCEPT !["PC"] = w], t[3])
          ELSE Finish(Fetched(3), t[4])
    BY <1>2
  <2>2. t[3] \in 0 .. 24 /\ t[4] \in 0 .. 24
    BY DEF JP
  <2>3. w \in Word /\ "PC" \in R16
    BY OperandsOK DEF Ready, R16
  <2>4. RegOK([Fetched(3) EXCEPT !["PC"] = w])
    BY <2>3, FromReady, SetWord
  <2> QED
    BY <1>1, <2>1, <2>2, <2>4, FromReady, FinishOK
<1>3. CASE Finish([Fetched(1) EXCEPT !["PC"] = HL], 4)
  <2>1. HL \in Word /\ "PC" \in R16
    BY FromReady, RegistersOK DEF R16
  <2>2. RegOK([Fetched(1) EXCEPT !["PC"] = HL])
    BY <2>1, FromReady, SetWord
  <2> QED
    BY <1>1, <1>3, <2>2, FinishOK
<1> QED
  BY <1>2, <1>3 DEF JumpTo

LEMMA CallToOK ==
  ASSUME Ready, NEW op, CallTo(op)
  PROVE  CpuInv'
<1>1. PICK t \in CALL, w \in Imm16 :
        IF Taken(t[2])
        THEN /\ Finish([Pushed(reg) EXCEPT !["PC"] = w], t[3])
             /\ StackPush(Hi(Fetched(3)["PC"]), Lo(Fetched(3)["PC"]))
        ELSE Finish(Fetched(3), t[4]) /\ NoWrite
  BY DEF CallTo
<1>2. t[3] \in 0 .. 24 /\ t[4] \in 0 .. 24
  BY DEF CALL
<1>3. CASE Taken(t[2])
  <2>1. w \in Word /\ "PC" \in R16
    BY OperandsOK DEF Ready, R16
  <2>2. RegOK([Pushed(reg) EXCEPT !["PC"] = w])
    BY <2>1, FromReady, PushedOK, SetWord
  <2>3. Fetched(3)["PC"] \in Word
    BY FromReady, FetchedOK
  <2>4. MemoryOK'
    BY <1>1, <1>3, <2>3, Halves, FromReady, PushKeeps DEF Ready
  <2> QED
    BY <1>1, <1>2, <1>3, <2>2, <2>4, FinishOK
<1>4. CASE ~Taken(t[2])
  BY <1>1, <1>2, <1>4, FromReady, FinishOK
<1> QED
  BY <1>3, <1>4

LEMMA ReturnOK ==
  ASSUME Ready, NEW op, Return(op)
  PROVE  CpuInv'
<1>1. PICK t \in RET :
        IF Taken(t[2])
        THEN \E w \in StackTop : Finish([Popped(reg) EXCEPT !["PC"] = w], t[3])
        ELSE Finish(Fetched(1), t[4])
  BY DEF Return
<1>2. t[3] \in 0 .. 24 /\ t[4] \in 0 .. 24
  BY DEF RET
<1>3. MemoryOK'
  BY FromReady DEF Return
<1>4. CASE Taken(t[2])
  <2>1. PICK w \in StackTop : Finish([Popped(reg) EXCEPT !["PC"] = w], t[3])
    BY <1>1, <1>4
  <2>2. w \in Word /\ "PC" \in R16
    BY OperandsOK DEF Ready, R16
  <2>3. RegOK([Popped(reg) EXCEPT !["PC"] = w])
    BY <2>2, FromReady, PushedOK, SetWord
  <2> QED
    BY <1>2, <1>3, <2>1, <2>3, FinishOK
<1>5. CASE ~Taken(t[2])
  BY <1>1, <1>2, <1>3, <1>5, FromReady, FinishOK
<1> QED
  BY <1>4, <1>5

LEMMA PushPairOK ==
  ASSUME Ready, NEW op, PushPair(op)
  PROVE  CpuInv'
<1>1. PICK t \in PUSH : Finish(Pushed(Fetched(1)), t[4]) /\ StackPush(reg[t[2]], reg[t[3]])
  BY DEF PushPair
<1>2. t[2] \in R8 /\ t[3] \in R8 /\ t[4] \in 0 .. 24
  BY DEF PUSH, R8
<1>3. RegOK(Pushed(Fetched(1)))
  BY FromReady, PushedOK
<1>4. MemoryOK'
  BY <1>1, <1>2, FromReady, RegistersOK, PushKeeps DEF Ready
<1> QED
  BY <1>1, <1>2, <1>3, <1>4, FinishOK

(* POP AF stores the flags without their low nibble.                       *)
LEMMA PopPairOK ==
  ASSUME Ready, NEW op, PopPair(op)
  PROVE  CpuInv'
<1> DEFINE lo(t, w) == IF t[3] = "F" THEN Lo(w) - (Lo(w) % 16) ELSE Lo(w)
<1>1. PICK t \in POP, w \in StackTop :
        Finish([Popped(Fetched(1)) EXCEPT ![t[2]] = Hi(w), ![t[3]] = lo(t, w)], t[4])
  BY DEF PopPair
<1>2. t[2] \in R8 \ {"F"} /\ t[3] \in R8 /\ t[4] \in 0 .. 24
  BY DEF POP, R8
<1>3. w \in Word
  BY OperandsOK DEF Ready
<1>4. Hi(w) \in Byte /\ Lo(w) \in Byte
  BY <1>3, Halves
<1>5. RegOK(Popped(Fetched(1)))
  BY FromReady, PushedOK
<1>6. RegOK([Popped(Fetched(1)) EXCEPT ![t[2]] = Hi(w), ![t[3]] = lo(t, w)])
  <2>1. CASE t[3] = "F"
    <3>1. \A b \in AluByte : b - (b % 16) \in Flags
      BY DEF Flags, AluByte
    <3>2. lo(t, w) \in Flags
      BY <1>4, <2>1, <3>1, Bytes
    <3> HIDE DEF lo
    <3> QED
      BY <1>2, <1>4, <1>5, <2>1, <3>2, SetByteAndFlags
  <2>2. CASE t[3] # "F"
    <3>1. lo(t, w) \in Byte
      BY <1>4, <2>2
    <3> HIDE DEF lo
    <3> QED
      BY <1>2, <1>4, <1>5, <2>2, <3>1, SetPair
  <2> QED
    BY <2>1, <2>2
<1>7. MemoryOK'
  BY FromReady DEF PopPair
<1> HIDE DEF lo
<1> QED
  BY <1>1, <1>2, <1>6, <1>7, FinishOK

LEMMA InvalidOK ==
  ASSUME Ready, NEW op, Invalid(op)
  PROVE  CpuInv'
BY FromReady, LogCriticalOK DEF Invalid

LEMMA ExecuteOK ==
  ASSUME Ready, NEW op, Execute(op)
  PROVE  CpuInv'
BY NopOK, LoadPairImm16OK, IncPairOK, IncDecByteOK, LoadImm8OK, LoadByteOK,
   LoadFromHLOK, StoreAtHLOK, StoreAOK, LoadAOK, DecMemHLOK, StoreAAtOK,
   LoadAFromOK, ArithmeticOK, AddHLHLOK, RotateAOK, PrefixCbOK, JumpRelativeOK,
   JumpToOK, CallToOK, ReturnOK, PushPairOK, PopPairOK, InvalidOK DEF Execute

LEMMA StepOK ==
  ASSUME Ready, CpuStep
  PROVE  CpuInv' /\ instruction' \in Byte
<1>1. PICK op \in ReadMemory(reg["PC"]) : instruction' = op /\ Execute(op)
  BY DEF CpuStep
<1>2. op \in Byte
  BY OperandsOK DEF Ready
<1> QED
  BY <1>1, <1>2, ExecuteOK

-----------------------------------------------------------------------------
LEMMA ResetRegistersOK == RegOK(ResetRegisters)
<1> DEFINE value(r) ==
       CASE r = "A" -> 1 [] r = "F" -> 176 [] r = "B" -> 0 [] r = "C" -> 19
         [] r = "D" -> 0 [] r = "E" -> 216 [] r = "H" -> 1 [] r = "L" -> 77
         [] r = "SP" -> 65534 [] r = "PC" -> 256
<1>1. ASSUME NEW r \in R8 \cup R16
      PROVE  value(r) \in Word
  <2>1. {1, 176, 0, 19, 216, 77, 65534, 256} \subseteq Word
    BY WordIs
  <2>2. value(r) \in {1, 176, 0, 19, 216, 77, 65534, 256}
    BY DEF R8, R16
  <2> HIDE DEF value
  <2> QED
    BY <2>1, <2>2
<1>2. ASSUME NEW r \in R8
      PROVE  value(r) \in Byte
  BY DEF R8, Byte
<1>a. value("F") = 176
  OBVIOUS
<1>3. ResetRegisters = [r \in R8 \cup R16 |-> value(r)]
  BY DEF ResetRegisters
<1> HIDE DEF value
<1>4. \A r \in R8 \cup R16 : ResetRegisters[r] = value(r)
  BY <1>3
<1>5. "F" \in R8
  BY DEF R8
<1>6. ResetRegisters["F"] % 16 = 0
  BY <1>a, <1>4, <1>5
<1>7. ResetRegisters \in [R8 \cup R16 -> Word]
  BY <1>1, <1>3
<1>8. \A r \in R8 : ResetRegisters[r] \in Byte
  BY <1>2, <1>4
<1> QED
  BY <1>6, <1>7, <1>8, Zenon DEF RegOK

LEMMA CpuResetOK ==
  ASSUME Ready, CpuReset
  PROVE  CpuInv' /\ instruction' \in Byte
<1>1. instruction' \in Byte
  BY DEF CpuReset, Byte
<1> QED
  BY <1>1, FromReady, ResetRegistersOK, FinishOK DEF CpuReset

LEMMA BusInitOK ==
  ASSUME BusInit
  PROVE  BusTypeOK
<1>1. 0 \in Byte /\ 0 \in Word
  BY WordIs DEF Byte
<1> QED
  BY <1>1, RomAssumption DEF BusInit, BusTypeOK

LEMMA CpuInitOK ==
  ASSUME CpuInit
  PROVE  CpuInv /\ instruction \in Byte
<1>1. 0 \in Byte
  BY DEF Byte
<1>2. RegOK(reg)
  BY ResetRegistersOK DEF CpuInit
<1>3. MemoryOK
  BY BusInitOK DEF CpuInit, MemoryOK, FramesHeld
<1>4. cycles = 0 /\ instruction = 0
  BY Zenon DEF CpuInit
<1>5. critical \in BOOLEAN
  BY Zenon DEF CpuInit
<1> QED
  BY <1>1, <1>2, <1>3, <1>4, <1>5 DEF CpuInv

TypedAndFetched == CpuInv /\ instruction \in Byte

LEMMA CpuStaysTyped ==
  ASSUME Address = Word, TypedAndFetched, [ApiNext]_vars
  PROVE  TypedAndFetched'
<1>1. Ready
  BY DEF Ready, TypedAndFetched
<1>2. CASE RunnerNext
  BY <1>1, <1>2, StepOK DEF RunnerNext, TypedAndFetched
<1>3. CASE CpuReset
  BY <1>1, <1>3, CpuResetOK DEF TypedAndFetched
<1>4. CASE UNCHANGED vars
  <2>1. FramesHeld'
    BY <1>4, SameFramesHeld
       DEF TypedAndFetched, CpuInv, MemoryOK, vars, busVars, cpuVars
  <2> QED
    BY <1>4, <2>1 DEF TypedAndFetched, CpuInv, MemoryOK, BusTypeOK, vars, busVars,
                      cpuVars, Cells, Cell, RegOK
<1> QED
  BY <1>2, <1>3, <1>4 DEF ApiNext

LEMMA CpuIsTyped == Address = Word => (ApiSpec => []TypedAndFetched)
<1> SUFFICES ASSUME Address = Word
             PROVE  ApiSpec => []TypedAndFetched
  OBVIOUS
<1>1. CpuInit => TypedAndFetched
  BY CpuInitOK DEF TypedAndFetched
<1>2. TypedAndFetched /\ [ApiNext]_vars => TypedAndFetched'
  BY CpuStaysTyped
<1> QED
  BY <1>1, <1>2, PTL DEF ApiSpec

(* Whatever the cartridge holds, and wherever it sends the program counter *)
(* and the stack, registers are words and bytes, the arrays of the bus hold*)
(* bytes, and no step reports more than 24 cycles.                         *)
THEOREM CpuTypeCorrect == Address = Word => (ApiSpec => []CpuTypeOK)
<1>1. TypedAndFetched => CpuTypeOK
  BY DEF TypedAndFetched, CpuInv, MemoryOK, RegOK, CpuTypeOK, Writes
<1> QED
  BY <1>1, CpuIsTyped, PTL

(* No instruction sets one of the four unused flags: those that compute    *)
(* flags change Z and C or write a constant, and POP AF masks what it read.*)
THEOREM UnusedFlagsStayClear == Address = Word => (ApiSpec => []UnusedFlagsAreClear)
<1>1. TypedAndFetched => UnusedFlagsAreClear
  BY DEF TypedAndFetched, CpuInv, RegOK, UnusedFlagsAreClear
<1> QED
  BY <1>1, CpuIsTyped, PTL

-----------------------------------------------------------------------------
(* Which instructions pop, and what they find on the stack.                *)
ReturnOpcodes == {201, 200, 208, 216}
PopOpcodes == {193, 209, 225, 241}

LEMMA OnlyTheyPop ==
  ASSUME NEW op \in ReturnOpcodes \cup PopOpcodes, Execute(op)
  PROVE  Return(op) \/ PopPair(op)
<1>1. ~Nop(op)
  BY DEF ReturnOpcodes, PopOpcodes, Nop
<1>2. ~LoadPairImm16(op)
  BY DEF ReturnOpcodes, PopOpcodes, LoadPairImm16, LD_RR_IMM16
<1>3. ~IncPair(op)
  BY DEF ReturnOpcodes, PopOpcodes, IncPair, INC_RR
<1>4. ~IncDecByte(op)
  <2>1. \A r : <<op, r>> \notin INC_R
    BY DEF ReturnOpcodes, PopOpcodes, INC_R
  <2>2. \A r : <<op, r>> \notin DEC_R
    BY DEF ReturnOpcodes, PopOpcodes, DEC_R
  <2> QED
    BY <2>1, <2>2 DEF IncDecByte
<1>5. ~LoadImm8(op)
  BY DEF ReturnOpcodes, PopOpcodes, LoadImm8, LD_R_IMM8
<1>6. ~LoadByte(op)
  BY DEF ReturnOpcodes, PopOpcodes, LoadByte, LD_R_R
<1>7. ~LoadFromHL(op)
  BY DEF ReturnOpcodes, PopOpcodes, LoadFromHL, LD_R_MEM_HL
<1>8. ~StoreAtHL(op)
  BY DEF ReturnOpcodes, PopOpcodes, StoreAtHL, LD_MEM_HL_R
<1>9. ~StoreA(op)
  BY DEF ReturnOpcodes, PopOpcodes, StoreA
<1>10. ~LoadA(op) /\ ~DecMemHL(op)
  BY DEF ReturnOpcodes, PopOpcodes, LoadA, DecMemHL
<1>11. ~StoreAAt(op) /\ ~LoadAFrom(op)
  BY DEF ReturnOpcodes, PopOpcodes, StoreAAt, LoadAFrom
<1>12. ~Arithmetic(op)
  BY DEF ReturnOpcodes, PopOpcodes, Arithmetic, ALU_A
<1>13. ~AddHLHL(op) /\ ~RotateA(op) /\ ~PrefixCb(op)
  BY DEF ReturnOpcodes, PopOpcodes, AddHLHL, RotateA, PrefixCb
<1>14. ~JumpRelative(op)
  BY DEF ReturnOpcodes, PopOpcodes, JumpRelative, JR
<1>15. ~JumpTo(op)
  BY DEF ReturnOpcodes, PopOpcodes, JumpTo, JP
<1>16. ~CallTo(op)
  BY DEF ReturnOpcodes, PopOpcodes, CallTo, CALL
<1>17. ~PushPair(op)
  BY DEF ReturnOpcodes, PopOpcodes, PushPair, PUSH
<1>18. op \in Opcodes
  <2>1. op \in ReturnOpcodes => \E t \in RET : op = t[1]
    BY DEF ReturnOpcodes, RET
  <2>2. op \in PopOpcodes => \E t \in POP : op = t[1]
    BY DEF PopOpcodes, POP
  <2>3. op \in {t[1] : t \in RET} \/ op \in {t[1] : t \in POP}
    BY <2>1, <2>2
  <2>4. {t[1] : t \in RET} \subseteq Opcodes
    BY DEF Opcodes
  <2>5. {t[1] : t \in POP} \subseteq Opcodes
    BY DEF Opcodes
  <2> QED
    BY <2>3, <2>4, <2>5
<1>19. ~Invalid(op)
  BY <1>18 DEF Invalid
<1> QED
  BY <1>1, <1>2, <1>3, <1>4, <1>5, <1>6, <1>7, <1>8, <1>9, <1>10, <1>11, <1>12, <1>13,
     <1>14, <1>15, <1>16, <1>17, <1>19 DEF Execute

LEMMA ReturnOrPop ==
  ASSUME NEW op, Execute(op)
  PROVE  /\ op \in ReturnOpcodes => Return(op)
         /\ op \in PopOpcodes => PopPair(op)
<1>1. op \in ReturnOpcodes => ~PopPair(op)
  BY DEF ReturnOpcodes, PopPair, POP
<1>2. op \in PopOpcodes => ~Return(op)
  BY DEF PopOpcodes, Return, RET
<1> QED
  BY <1>1, <1>2, OnlyTheyPop

(* The top of the stack is the pushed word, when it is still there.        *)
LEMMA TopIsHeld ==
  ASSUME CpuInv, NEW f \in frames, IsRam(f.at), IsRam(Up(f.at)), f.at = reg["SP"]
  PROVE  StackTop = {f.word}
<1>1. f.at \in Word /\ f.word \in Word /\ Up(f.at) \in Word
  BY Neighbours DEF CpuInv, MemoryOK
<1>2. ram[Cell(f.at)] = Lo(f.word) /\ ram[Cell(Up(f.at))] = Hi(f.word)
  BY DEF CpuInv, MemoryOK, FramesHeld
<1>3. /\ ReadMemory(reg["SP"]) = {Lo(f.word)}
      /\ ReadMemory(Up(reg["SP"])) = {Hi(f.word)}
  BY <1>1, <1>2, RamIsRead
<1>4. WordOf(Hi(f.word), Lo(f.word)) = f.word
  BY <1>1, Halves
<1> QED
  BY <1>3, <1>4 DEF StackTop

LEMMA ReturnsTo ==
  ASSUME Ready, NEW op, Return(op), NEW v, StackTop = {v},
         reg'["SP"] = Up(Up(reg["SP"]))
  PROVE  reg'["PC"] = v
<1>1. reg["SP"] \in Word /\ "SP" \in DOMAIN reg /\ "PC" \in DOMAIN reg
  BY FromReady, RegistersOK DEF RegOK, R16
<1>2. PICK t \in RET :
        IF Taken(t[2])
        THEN \E w \in StackTop : Finish([Popped(reg) EXCEPT !["PC"] = w], t[3])
        ELSE Finish(Fetched(1), t[4])
  BY DEF Return
<1>3. CASE Taken(t[2])
  <2>1. reg' = [Popped(reg) EXCEPT !["PC"] = v]
    BY <1>2, <1>3 DEF Finish
  <2> QED
    BY <1>1, <2>1 DEF Popped
<1>4. CASE ~Taken(t[2])
  <2>1. reg' = Fetched(1)
    BY <1>2, <1>4 DEF Finish
  <2>2. reg'["SP"] = reg["SP"]
    BY <2>1, FromReady
  <2> QED
    BY <1>1, <2>2, Neighbours
<1> QED
  BY <1>3, <1>4

LEMMA PopsInto ==
  ASSUME Ready, NEW op, PopPair(op), NEW v \in Word, StackTop = {v},
         NEW t \in POP, op = t[1]
  PROVE  WordOf(reg'[t[2]], reg'[t[3]]) = v - (IF t[3] = "F" THEN v % 16 ELSE 0)
<1> DEFINE lo == IF t[3] = "F" THEN Lo(v) - (Lo(v) % 16) ELSE Lo(v)
<1>1. PICK u \in POP : op = u[1] /\ \E w \in StackTop :
         LET l == IF u[3] = "F" THEN Lo(w) - (Lo(w) % 16) ELSE Lo(w)
         IN  Finish([Popped(Fetched(1)) EXCEPT ![u[2]] = Hi(w), ![u[3]] = l], u[4])
  BY DEF PopPair
<1>2. u = t
  <2>1. \A x, y \in POP : x[1] = y[1] => x = y
    BY DEF POP
  <2> QED
    BY <1>1, <2>1
<1>3. reg' = [Popped(Fetched(1)) EXCEPT ![t[2]] = Hi(v), ![t[3]] = lo]
  BY <1>1, <1>2 DEF Finish
<1>4. t[2] \in R8 /\ t[3] \in R8 /\ t[2] # t[3]
  BY DEF POP, R8
<1>5. DOMAIN Popped(Fetched(1)) = R8 \cup R16
  BY FromReady, PushedOK DEF RegOK
<1> HIDE DEF lo
<1>6. reg'[t[2]] = Hi(v) /\ reg'[t[3]] = lo
  BY <1>3, <1>4, <1>5
<1>7. CASE t[3] = "F"
  <2>1. lo = Lo(v) - (Lo(v) % 16)
    BY <1>7 DEF lo
  <2>2. WordOf(Hi(v), Lo(v) - (Lo(v) % 16)) = v - (v % 16)
    <3>1. v \in Nat /\ WordOf(Hi(v), Lo(v)) = v
      BY WordIs, Halves
    <3>2. (v % 256) % 16 = v % 16
      BY <3>1
    <3>3. Hi(v) \in Nat /\ Lo(v) \in Nat /\ Lo(v) % 16 \in Nat /\ Lo(v) % 16 = v % 16
      BY <3>1, <3>2 DEF Hi, Lo
    <3> QED
      BY <3>1, <3>3 DEF WordOf
  <2> QED
    BY <1>6, <1>7, <2>1, <2>2
<1>8. CASE t[3] # "F"
  <2>1. lo = Lo(v)
    BY <1>8 DEF lo
  <2>2. WordOf(Hi(v), Lo(v)) = v - 0
    <3>1. WordOf(Hi(v), Lo(v)) = v /\ v \in Nat
      BY WordIs, Halves
    <3> QED
      BY <3>1
  <2> QED
    BY <1>6, <1>8, <2>1, <2>2
<1> QED
  BY <1>7, <1>8

PopReturns(f) ==
  IsRam(f.at) /\ IsRam(Up(f.at)) /\ f.at = reg["SP"]
    /\ reg'["SP"] = Up(Up(f.at)) =>
    /\ instruction' \in {t[1] : t \in RET} => reg'["PC"] = f.word
    /\ \A t \in POP : instruction' = t[1] =>
         WordOf(reg'[t[2]], reg'[t[3]]) =
           f.word - (IF t[3] = "F" THEN f.word % 16 ELSE 0)

LEMMA StepPopsWhatWasPushed ==
  ASSUME Ready, CpuStep, NEW f \in frames
  PROVE  PopReturns(f)
<1> SUFFICES ASSUME IsRam(f.at), IsRam(Up(f.at)), f.at = reg["SP"],
                    reg'["SP"] = Up(Up(f.at))
             PROVE  /\ instruction' \in {t[1] : t \in RET} => reg'["PC"] = f.word
                    /\ \A t \in POP : instruction' = t[1] =>
                         WordOf(reg'[t[2]], reg'[t[3]]) =
                           f.word - (IF t[3] = "F" THEN f.word % 16 ELSE 0)
  BY DEF PopReturns
<1>1. f.word \in Word /\ StackTop = {f.word}
  BY TopIsHeld DEF Ready, CpuInv, MemoryOK
<1>2. PICK op : instruction' = op /\ Execute(op)
  BY DEF CpuStep
<1>3. ASSUME instruction' \in {t[1] : t \in RET}
      PROVE  reg'["PC"] = f.word
  <2>1. op \in ReturnOpcodes
    BY <1>2, <1>3 DEF ReturnOpcodes, RET
  <2>2. Return(op)
    BY <1>2, <2>1, ReturnOrPop
  <2> QED
    BY <1>1, <2>2, ReturnsTo
<1>4. ASSUME NEW t \in POP, instruction' = t[1]
      PROVE  WordOf(reg'[t[2]], reg'[t[3]]) =
               f.word - (IF t[3] = "F" THEN f.word % 16 ELSE 0)
  <2>1. op \in PopOpcodes /\ op = t[1]
    BY <1>2, <1>4 DEF PopOpcodes, POP
  <2>2. PopPair(op)
    BY <1>2, <2>1, ReturnOrPop
  <2> QED
    BY <1>1, <2>1, <2>2, PopsInto
<1> QED
  BY <1>3, <1>4

(* Wherever the stack is in RAM, and whatever pushed and popped in between,*)
(* a RET returns to and a POP loads the word that was pushed, unless a     *)
(* write has changed it (POP AF without the four unused bits).             *)
THEOREM PopsAreRight == Address = Word => (ApiSpec => PopsReturnWhatWasPushed)
<1> SUFFICES ASSUME Address = Word
             PROVE  ApiSpec => PopsReturnWhatWasPushed
  OBVIOUS
<1>1. TypedAndFetched /\ [ApiNext]_vars => [\A f \in frames : PopReturns(f)]_vars
  <2> SUFFICES ASSUME TypedAndFetched, ApiNext, NEW f \in frames
               PROVE  PopReturns(f)
    OBVIOUS
  <2>1. Ready
    BY DEF Ready, TypedAndFetched
  <2>2. CASE RunnerNext
    BY <2>1, <2>2, StepPopsWhatWasPushed DEF RunnerNext
  <2>3. CASE CpuReset
    <3>1. instruction' = 0
      BY <2>3 DEF CpuReset
    <3>2. 0 \notin {t[1] : t \in RET}
      BY DEF RET
    <3>3. \A t \in POP : t[1] # 0
      BY DEF POP
    <3> QED
      BY <3>1, <3>2, <3>3 DEF PopReturns
  <2> QED
    BY <2>2, <2>3 DEF ApiNext
<1>2. TypedAndFetched /\ [ApiNext]_vars =>
        [\A f \in frames :
           IsRam(f.at) /\ IsRam(Up(f.at)) /\ f.at = reg["SP"]
             /\ reg'["SP"] = Up(Up(f.at)) =>
             /\ instruction' \in {t[1] : t \in RET} => reg'["PC"] = f.word
             /\ \A t \in POP : instruction' = t[1] =>
                  WordOf(reg'[t[2]], reg'[t[3]]) =
                    f.word - (IF t[3] = "F" THEN f.word % 16 ELSE 0)]_vars
  BY <1>1 DEF PopReturns
<1> QED
  BY <1>2, CpuIsTyped, PTL DEF PopsReturnWhatWasPushed, ApiSpec

-----------------------------------------------------------------------------
(***************************************************************************)
(* Which opcodes each family of instructions takes.                        *)
(***************************************************************************)
LoadPairImm16Ops == {1, 17, 33, 49}
IncPairOps == {3, 19, 35}
IncDecByteOps == {4, 20, 28, 36, 44, 5, 13, 29, 37, 45, 61}
LoadImm8Ops == {6, 14, 38, 62}
LoadFromHLOps == {70, 78, 86, 110, 126}
StoreAtHLOps == {112, 113, 114, 119}
LoadByteOps == {71, 79, 87, 95, 103, 111, 120, 121, 122, 123, 124, 125}
ArithmeticOps == {129, 145, 169, 177, 183, 185, 174, 182, 198, 206, 214, 230, 238, 254}
JumpRelativeOps == {24, 32, 40, 48, 56}
JumpToOps == {195, 194, 202, 233}
CallOps == {205, 196, 212}
PushOps == {197, 213, 229, 245}

LEMMA Families ==
  ASSUME NEW op
  PROVE  /\ Nop(op) => op \in {0, 243}
         /\ LoadPairImm16(op) => op \in LoadPairImm16Ops
         /\ IncPair(op) => op \in IncPairOps
         /\ IncDecByte(op) => op \in IncDecByteOps
         /\ LoadImm8(op) => op \in LoadImm8Ops
         /\ LoadByte(op) => op \in LoadByteOps
         /\ LoadFromHL(op) => op \in LoadFromHLOps
         /\ StoreAtHL(op) => op \in StoreAtHLOps
         /\ StoreA(op) => op \in {18, 34, 50}
         /\ LoadA(op) => op \in {26, 42}
         /\ DecMemHL(op) => op = 53
         /\ StoreAAt(op) => op \in {224, 234}
         /\ LoadAFrom(op) => op \in {240, 250}
         /\ Arithmetic(op) => op \in ArithmeticOps
         /\ AddHLHL(op) => op = 41
         /\ RotateA(op) => op = 31
         /\ PrefixCb(op) => op = 203
         /\ JumpRelative(op) => op \in JumpRelativeOps
         /\ JumpTo(op) => op \in JumpToOps
         /\ CallTo(op) => op \in CallOps
         /\ Return(op) => op \in ReturnOpcodes
         /\ PushPair(op) => op \in PushOps
         /\ PopPair(op) => op \in PopOpcodes
<1>1. Nop(op) => op \in {0, 243}
  BY DEF Nop
<1>2. LoadPairImm16(op) => op \in LoadPairImm16Ops
  BY DEF LoadPairImm16, LD_RR_IMM16, LoadPairImm16Ops
<1>3. IncPair(op) => op \in IncPairOps
  BY DEF IncPair, INC_RR, IncPairOps
<1>4. IncDecByte(op) => op \in IncDecByteOps
  <2>1. \A r : <<op, r>> \in INC_R \cup DEC_R => op \in IncDecByteOps
    BY DEF INC_R, DEC_R, IncDecByteOps
  <2> QED
    BY <2>1 DEF IncDecByte
<1>5. LoadImm8(op) => op \in LoadImm8Ops
  BY DEF LoadImm8, LD_R_IMM8, LoadImm8Ops
<1>6. LoadByte(op) => op \in LoadByteOps
  BY DEF LoadByte, LD_R_R, LoadByteOps
<1>7. LoadFromHL(op) => op \in LoadFromHLOps
  BY DEF LoadFromHL, LD_R_MEM_HL, LoadFromHLOps
<1>8. StoreAtHL(op) => op \in StoreAtHLOps
  BY DEF StoreAtHL, LD_MEM_HL_R, StoreAtHLOps
<1>9. StoreA(op) => op \in {18, 34, 50}
  BY DEF StoreA
<1>10. /\ LoadA(op) => op \in {26, 42}
       /\ DecMemHL(op) => op = 53
       /\ StoreAAt(op) => op \in {224, 234}
       /\ LoadAFrom(op) => op \in {240, 250}
  BY DEF LoadA, DecMemHL, StoreAAt, LoadAFrom
<1>11. Arithmetic(op) => op \in ArithmeticOps
  BY DEF Arithmetic, ALU_A, ArithmeticOps
<1>12. /\ AddHLHL(op) => op = 41
       /\ RotateA(op) => op = 31
       /\ PrefixCb(op) => op = 203
  BY DEF AddHLHL, RotateA, PrefixCb
<1>13. JumpRelative(op) => op \in JumpRelativeOps
  BY DEF JumpRelative, JR, JumpRelativeOps
<1>14. JumpTo(op) => op \in JumpToOps
  BY DEF JumpTo, JP, JumpToOps
<1>15. CallTo(op) => op \in CallOps
  BY DEF CallTo, CALL, CallOps
<1>16. Return(op) => op \in ReturnOpcodes
  BY DEF Return, RET, ReturnOpcodes
<1>17. PushPair(op) => op \in PushOps
  BY DEF PushPair, PUSH, PushOps
<1>18. PopPair(op) => op \in PopOpcodes
  BY DEF PopPair, POP, PopOpcodes
<1> QED
  BY <1>1, <1>2, <1>3, <1>4, <1>5, <1>6, <1>7, <1>8, <1>9, <1>10, <1>11, <1>12,
     <1>13, <1>14, <1>15, <1>16, <1>17, <1>18

(* $76 has no case, and an opcode of a family is not invalid.              *)
LEMMA OpcodesAre ==
  /\ 118 \notin Opcodes
  /\ LoadPairImm16Ops \cup IncPairOps \cup IncDecByteOps \cup LoadImm8Ops
       \cup LoadByteOps \cup ArithmeticOps \cup JumpRelativeOps \cup {195, 202}
       \cup CallOps \cup ReturnOpcodes \cup PushOps \cup PopOpcodes
       \cup {18, 31, 41, 42, 53, 203, 224, 240, 250} \subseteq Opcodes
<1> DEFINE Others == {0, 18, 26, 31, 34, 41, 42, 49, 50, 53, 203, 224, 233, 234, 240, 243, 250}
           Of(T) == {t[1] : t \in T}
           Firsts == {Of(LD_RR_IMM16), Of(INC_RR), Of(INC_R), Of(DEC_R), Of(LD_R_IMM8),
                      Of(LD_R_MEM_HL), Of(LD_MEM_HL_R), Of(LD_R_R), Of(ALU_A), Of(JR),
                      Of(JP), Of(CALL), Of(RET), Of(PUSH), Of(POP)}
<1>1. Of(LD_RR_IMM16) = {1, 17, 33}
  BY DEF LD_RR_IMM16
<1>2. Of(INC_RR) = IncPairOps
  BY DEF INC_RR, IncPairOps
<1>3. Of(INC_R) = {4, 20, 28, 36, 44}
  BY DEF INC_R
<1>4. Of(DEC_R) = {5, 13, 29, 37, 45, 61}
  BY DEF DEC_R
<1>5. Of(LD_R_IMM8) = LoadImm8Ops
  BY DEF LD_R_IMM8, LoadImm8Ops
<1>6. Of(LD_R_MEM_HL) = LoadFromHLOps
  BY DEF LD_R_MEM_HL, LoadFromHLOps
<1>7. Of(LD_MEM_HL_R) = StoreAtHLOps
  BY DEF LD_MEM_HL_R, StoreAtHLOps
<1>8. Of(LD_R_R) = LoadByteOps
  BY DEF LD_R_R, LoadByteOps
<1>9. Of(ALU_A) = ArithmeticOps
  BY DEF ALU_A, ArithmeticOps
<1>10. Of(JR) = JumpRelativeOps
  BY DEF JR, JumpRelativeOps
<1>11. Of(JP) = {195, 194, 202}
  BY DEF JP
<1>12. Of(CALL) = CallOps
  BY DEF CALL, CallOps
<1>13. Of(RET) = ReturnOpcodes
  BY DEF RET, ReturnOpcodes
<1>14. Of(PUSH) = PushOps
  BY DEF PUSH, PushOps
<1>15. Of(POP) = PopOpcodes
  BY DEF POP, PopOpcodes
<1> DEFINE AllTables == {LD_RR_IMM16, INC_RR, INC_R, DEC_R, LD_R_IMM8, LD_R_MEM_HL,
                        LD_MEM_HL_R, LD_R_R, ALU_A, JR, JP, CALL, RET, PUSH, POP}
<1>16. Opcodes = (UNION Firsts) \cup Others
  <2>1. Opcodes = (UNION {Of(T) : T \in AllTables}) \cup Others
    BY Zenon DEF Opcodes
  <2>2. {Of(T) : T \in AllTables} = Firsts
    <3> HIDE DEF Of
    <3> QED
      OBVIOUS
  <2> QED
    BY <2>1, <2>2, Zenon
<1> HIDE DEF Of, AllTables
<1>17. Others \subseteq Opcodes /\ \A S \in Firsts : S \subseteq Opcodes
  <2> HIDE DEF Others, Firsts
  <2> QED
    BY <1>16
<1>18. 118 \notin Opcodes
  <2>1. 118 \notin Others
    OBVIOUS
  <2>2. ASSUME NEW S \in Firsts
        PROVE  118 \notin S
    BY <1>1, <1>2, <1>3, <1>4, <1>5, <1>6, <1>7, <1>8, <1>9, <1>10, <1>11, <1>12,
       <1>13, <1>14, <1>15
       DEF IncPairOps, LoadImm8Ops, LoadFromHLOps, StoreAtHLOps, LoadByteOps,
         ArithmeticOps, JumpRelativeOps, CallOps, ReturnOpcodes, PushOps, PopOpcodes
  <2> HIDE DEF Others, Firsts
  <2> QED
    BY <1>16, <2>1, <2>2
<1>19. /\ {1, 17, 33} \subseteq Opcodes /\ IncPairOps \subseteq Opcodes
       /\ {4, 20, 28, 36, 44} \subseteq Opcodes /\ {5, 13, 29, 37, 45, 61} \subseteq Opcodes
       /\ LoadImm8Ops \subseteq Opcodes /\ LoadByteOps \subseteq Opcodes
  BY <1>17, <1>1, <1>2, <1>3, <1>4, <1>5, <1>8
<1>20. /\ ArithmeticOps \subseteq Opcodes /\ JumpRelativeOps \subseteq Opcodes
       /\ {195, 194, 202} \subseteq Opcodes /\ CallOps \subseteq Opcodes
       /\ ReturnOpcodes \subseteq Opcodes /\ PushOps \subseteq Opcodes
       /\ PopOpcodes \subseteq Opcodes
  BY <1>17, <1>9, <1>10, <1>11, <1>12, <1>13, <1>14, <1>15
<1>21. LoadPairImm16Ops \subseteq Opcodes /\ IncDecByteOps \subseteq Opcodes
  BY <1>17, <1>19 DEF LoadPairImm16Ops, IncDecByteOps
<1> QED
  BY <1>17, <1>18, <1>19, <1>20, <1>21

LEMMA Decoded ==
  ASSUME NEW op, Execute(op)
  PROVE  /\ op \in LoadPairImm16Ops => LoadPairImm16(op)
         /\ op \in IncPairOps => IncPair(op)
         /\ op \in IncDecByteOps => IncDecByte(op)
         /\ op \in LoadImm8Ops => LoadImm8(op)
         /\ op \in LoadByteOps => LoadByte(op)
         /\ op = 18 => StoreA(op)
         /\ op = 42 => LoadA(op)
         /\ op = 53 => DecMemHL(op)
         /\ op = 224 => StoreAAt(op)
         /\ op \in {240, 250} => LoadAFrom(op)
         /\ op \in ArithmeticOps => Arithmetic(op)
         /\ op = 41 => AddHLHL(op)
         /\ op = 31 => RotateA(op)
         /\ op = 203 => PrefixCb(op)
         /\ op \in JumpRelativeOps => JumpRelative(op)
         /\ op \in {195, 202} => JumpTo(op)
         /\ op \in CallOps => CallTo(op)
         /\ op \in PushOps => PushPair(op)
         /\ op = 118 => Invalid(op)
<1>1. Invalid(op) => op \notin Opcodes
  BY DEF Invalid
<1> USE Families, OpcodesAre, <1>1
<1> USE DEF LoadPairImm16Ops, IncPairOps, IncDecByteOps, LoadImm8Ops, LoadFromHLOps,
      StoreAtHLOps, LoadByteOps, ArithmeticOps, JumpRelativeOps, JumpToOps, CallOps,
      PushOps, ReturnOpcodes, PopOpcodes
<1>2. op \in LoadPairImm16Ops => LoadPairImm16(op)
  BY DEF Execute
<1>3. op \in IncPairOps => IncPair(op)
  BY DEF Execute
<1>4. op \in IncDecByteOps => IncDecByte(op)
  BY DEF Execute
<1>5. op \in LoadImm8Ops => LoadImm8(op)
  BY DEF Execute
<1>6. op \in LoadByteOps => LoadByte(op)
  BY DEF Execute
<1>7. /\ op \in {18, 42} => StoreA(op) \/ LoadA(op)
      /\ op \in {53, 224} => DecMemHL(op) \/ StoreAAt(op)
      /\ op \in {240, 250} => LoadAFrom(op)
  BY DEF Execute
<1>8. op \in ArithmeticOps => Arithmetic(op)
  BY DEF Execute
<1>9. op \in {41, 31, 203} => AddHLHL(op) \/ RotateA(op) \/ PrefixCb(op)
  BY DEF Execute
<1>10. op \in JumpRelativeOps => JumpRelative(op)
  BY DEF Execute
<1>11. op \in {195, 202} => JumpTo(op)
  BY DEF Execute
<1>12. op \in CallOps => CallTo(op)
  BY DEF Execute
<1>13. op \in PushOps => PushPair(op)
  BY DEF Execute
<1>14. op = 118 => Invalid(op)
  BY DEF Execute
<1> QED
  BY <1>2, <1>3, <1>4, <1>5, <1>6, <1>7, <1>8, <1>9, <1>10, <1>11, <1>12, <1>13, <1>14

-----------------------------------------------------------------------------
(***************************************************************************)
(* What an instruction does, fetched from an address p of the program.     *)
(***************************************************************************)
Code == 256 .. 511

At(p, b) == ReadMemory(p) = {b}
At2(p, op, x) == At(p, op) /\ At(p + 1, x)
At3(p, op, lo, hi) == At(p, op) /\ At(p + 1, lo) /\ At(p + 2, hi)

Runs(p) == Ready /\ CpuStep /\ reg["PC"] = p

(* The step goes on at next, and of the registers only those in changed may*)
(* differ.                                                                 *)
Leaves(next, changed) ==
  /\ reg'["PC"] = next
  /\ \A r \in (R8 \cup {"SP"}) \ changed : reg'[r] = reg[r]
  /\ critical' = FALSE
  /\ cart_data' = cart_data

Quiet == UNCHANGED <<ram, frames>>

(* The step writes nothing and reports t cycles.                           *)
OnlyReports(t) == NoWrite /\ cycles' = t

With(n, r, x) == [Fetched(n) EXCEPT ![r] = x]
With2(n, r, x, s, y) == [Fetched(n) EXCEPT ![r] = x, ![s] = y]

LEMMA Executes ==
  ASSUME NEW p, NEW op, Runs(p), At(p, op)
  PROVE  Execute(op)
BY DEF Runs, At, CpuStep

LEMMA QuietNoWrite ==
  ASSUME NoWrite
  PROVE  Quiet /\ cart_data' = cart_data
BY DEF NoWrite, Quiet, busVars

LEMMA Immediates ==
  ASSUME NEW p \in Code, reg["PC"] = p
  PROVE  /\ \A x : At(p + 1, x) => Imm8 = {x}
         /\ \A lo, hi : At(p + 1, lo) /\ At(p + 2, hi) => Imm16 = {WordOf(hi, lo)}
<1>1. Up(p) = p + 1 /\ Up(Up(p)) = p + 2
  BY DEF Up, Code
<1> QED
  BY <1>1 DEF Imm8, Imm16, At

LEMMA NextAddress ==
  ASSUME NEW p \in Code, NEW n \in 1 .. 3, Runs(p)
  PROVE  /\ Fetched(n) \in [R8 \cup R16 -> Word]
         /\ Fetched(n)["PC"] = p + n
         /\ \A r \in R8 \cup {"SP"} : Fetched(n)[r] = reg[r]
<1>1. RegOK(Fetched(n)) /\ \A r \in R8 \cup {"SP"} : Fetched(n)[r] = reg[r]
  BY FromReady, FetchedOK DEF Runs
<1>2. Fetched(n)["PC"] = p + n
  <2>1. (p + n) % 65536 = p + n
    BY DEF Code
  <2>2. "PC" \in DOMAIN reg
    BY FromReady DEF Runs, RegOK, R16
  <2> QED
    BY <2>1, <2>2 DEF Fetched, Runs
<1> QED
  BY <1>1, <1>2 DEF RegOK

LEMMA LeavesFetched ==
  ASSUME NEW p \in Code, NEW n \in 1 .. 3, Runs(p), NEW t, Finish(Fetched(n), t),
         cart_data' = cart_data
  PROVE  Leaves(p + n, {})
BY NextAddress DEF Finish, Leaves

LEMMA LeavesOne ==
  ASSUME NEW p \in Code, NEW n \in 1 .. 3, Runs(p), NEW t, NEW r \in R8 \cup {"SP"}, NEW x,
         Finish(With(n, r, x), t), cart_data' = cart_data
  PROVE  Leaves(p + n, {r}) /\ reg'[r] = x
<1>1. r # "PC" /\ r \in R8 \cup R16 /\ "PC" \in R8 \cup R16 /\ "SP" \in R16
  BY DEF R8, R16
<1> QED
  BY <1>1, NextAddress DEF Finish, Leaves, With

LEMMA LeavesTwo ==
  ASSUME NEW p \in Code, NEW n \in 1 .. 3, Runs(p), NEW t,
         NEW r \in R8, NEW s \in R8, r # s, NEW x, NEW y,
         Finish(With2(n, r, x, s, y), t), cart_data' = cart_data
  PROVE  Leaves(p + n, {r, s}) /\ reg'[r] = x /\ reg'[s] = y
<1>1. /\ r # "PC" /\ r \in R8 \cup R16 /\ "PC" \in R8 \cup R16 /\ "SP" \in R16
      /\ s # "PC" /\ s \in R8 \cup R16
  BY DEF R8, R16
<1> QED
  BY <1>1, NextAddress DEF Finish, Leaves, With2

-----------------------------------------------------------------------------
(* Loads of constants, operations on them and jumps.                       *)
LEMMA LdRImm8 ==
  ASSUME NEW p \in Code, Runs(p), NEW op, NEW r, NEW x, <<op, r>> \in LD_R_IMM8,
         At2(p, op, x)
  PROVE  Leaves(p + 2, {r}) /\ reg'[r] = x /\ Quiet /\ OnlyReports(8)
<1>1. op \in LoadImm8Ops /\ r \in R8
  BY DEF LD_R_IMM8, LoadImm8Ops, R8
<1>2. LoadImm8(op) /\ Imm8 = {x}
  BY <1>1, Executes, Decoded, Immediates DEF At2, Runs
<1>3. PICK q \in R8 : /\ <<op, q>> \in LD_R_IMM8
                      /\ Finish([Fetched(2) EXCEPT ![q] = x], 8)
                      /\ NoWrite
  BY <1>2 DEF LoadImm8
<1>4. q = r
  BY <1>3 DEF LD_R_IMM8
<1>5. Finish(With(2, r, x), 8) /\ Quiet /\ cart_data' = cart_data
  BY <1>3, <1>4, QuietNoWrite DEF With
<1>6. OnlyReports(8)
  BY <1>3 DEF Finish, OnlyReports
<1> QED
  BY <1>1, <1>5, <1>6, LeavesOne

LEMMA LdRRImm16 ==
  ASSUME NEW p \in Code, Runs(p), NEW op, NEW r, NEW s, <<op, r, s>> \in LD_RR_IMM16,
         NEW lo \in Byte, NEW hi \in Byte, At3(p, op, lo, hi)
  PROVE  Leaves(p + 3, {r, s}) /\ reg'[r] = hi /\ reg'[s] = lo /\ Quiet /\ OnlyReports(12)
<1>1. op \in LoadPairImm16Ops /\ op # 49 /\ r \in R8 /\ s \in R8 /\ r # s
  BY DEF LD_RR_IMM16, LoadPairImm16Ops, R8
<1>2. LoadPairImm16(op) /\ Imm16 = {WordOf(hi, lo)}
  BY <1>1, Executes, Decoded, Immediates DEF At3, Runs
<1>3. Hi(WordOf(hi, lo)) = hi /\ Lo(WordOf(hi, lo)) = lo
  BY Joined
<1>4. PICK t \in LD_RR_IMM16 :
        /\ op = t[1]
        /\ Finish([Fetched(3) EXCEPT ![t[2]] = hi, ![t[3]] = lo], 12)
        /\ NoWrite
  BY <1>1, <1>2, <1>3 DEF LoadPairImm16
<1>5. t[2] = r /\ t[3] = s
  BY <1>4 DEF LD_RR_IMM16
<1>6. Finish(With2(3, r, hi, s, lo), 12) /\ Quiet /\ cart_data' = cart_data
  BY <1>4, <1>5, QuietNoWrite DEF With2
<1>7. OnlyReports(12)
  BY <1>4 DEF Finish, OnlyReports
<1> QED
  BY <1>1, <1>6, <1>7, LeavesTwo

LEMMA LdSpImm16 ==
  ASSUME NEW p \in Code, Runs(p), NEW lo, NEW hi, At3(p, 49, lo, hi)
  PROVE  Leaves(p + 3, {"SP"}) /\ reg'["SP"] = WordOf(hi, lo) /\ Quiet /\ OnlyReports(12)
<1>1. LoadPairImm16(49) /\ Imm16 = {WordOf(hi, lo)}
  BY Executes, Decoded, Immediates DEF At3, Runs, LoadPairImm16Ops
<1>2. \A t \in LD_RR_IMM16 : t[1] # 49
  BY DEF LD_RR_IMM16
<1>3. Finish(With(3, "SP", WordOf(hi, lo)), 12) /\ NoWrite
  BY <1>1, <1>2 DEF LoadPairImm16, With
<1>4. OnlyReports(12)
  BY <1>3 DEF Finish, OnlyReports
<1> QED
  BY <1>3, <1>4, LeavesOne, QuietNoWrite

LEMMA AluImm8 ==
  ASSUME NEW p \in Code, Runs(p), NEW op, NEW name, NEW t, NEW x,
         <<op, name, "imm8", t>> \in ALU_A, At2(p, op, x)
  PROVE  /\ Leaves(p + 2, {"A", "F"}) /\ Quiet /\ OnlyReports(t)
         /\ reg'["A"] = Operation(name, reg["A"], x, reg["F"]).value
         /\ reg'["F"] = Operation(name, reg["A"], x, reg["F"]).flags
<1> DEFINE result == Operation(name, reg["A"], x, reg["F"])
<1>1. op \in ArithmeticOps
  BY DEF ALU_A, ArithmeticOps
<1>2. Arithmetic(op) /\ Imm8 = {x}
  BY <1>1, Executes, Decoded, Immediates DEF At2, Runs
<1>3. "A" \in R8 /\ "F" \in R8
  BY DEF R8
<1>4. \A u \in ALU_A : op = u[1] => u[2] = name /\ u[3] = "imm8" /\ u[4] = t
  BY DEF ALU_A
<1>5. Operands("imm8") = {x}
  BY <1>2 DEF Operands
<1>6. Finish(With2(2, "A", result.value, "F", result.flags), t) /\ NoWrite
  BY <1>2, <1>4, <1>5 DEF Arithmetic, With2
<1> HIDE DEF result
<1>7. Leaves(p + 2, {"A", "F"}) /\ reg'["A"] = result.value /\ reg'["F"] = result.flags
  BY <1>3, <1>6, LeavesTwo, QuietNoWrite
<1>8. OnlyReports(t)
  BY <1>6 DEF Finish, OnlyReports
<1> QED
  BY <1>6, <1>7, <1>8, QuietNoWrite DEF result

Jumped(n, w) == [Fetched(n) EXCEPT !["PC"] = w]

LEMMA LeavesJump ==
  ASSUME NEW p \in Code, NEW n \in 1 .. 3, Runs(p), NEW t, NEW w,
         Finish(Jumped(n, w), t), cart_data' = cart_data
  PROVE  Leaves(w, {})
<1>1. "PC" \notin R8 \cup {"SP"} /\ "PC" \in R8 \cup R16 /\ R8 \cup {"SP"} \subseteq R8 \cup R16
  BY DEF R8, R16
<1> QED
  BY <1>1, NextAddress DEF Finish, Leaves, Jumped

LEMMA JrIf ==
  ASSUME NEW p \in Code, Runs(p), NEW op, NEW condition, NEW t, NEW u,
         <<op, condition, t, u>> \in JR, NEW x \in Byte, At2(p, op, x)
  PROVE  /\ Quiet /\ OnlyReports(IF Taken(condition) THEN t ELSE u)
         /\ Taken(condition) => Leaves(IF x < 128 THEN p + 2 + x ELSE p + x - 254, {})
         /\ ~Taken(condition) => Leaves(p + 2, {})
<1> DEFINE target == IF x < 128 THEN p + 2 + x ELSE p + x - 254
           offset == IF x < 128 THEN x ELSE x + 65280
<1>1. op \in JumpRelativeOps
  BY DEF JR, JumpRelativeOps
<1>2. JumpRelative(op) /\ Imm8 = {x}
  BY <1>1, Executes, Decoded, Immediates DEF At2, Runs
<1>3. \A v \in JR : op = v[1] => v[2] = condition /\ v[3] = t /\ v[4] = u
  BY DEF JR
<1>4. (p + 2 + offset) % 65536 = target
  BY DEF Code, Byte
<1>5. "PC" \in DOMAIN Fetched(2) /\ Fetched(2)["PC"] = p + 2
  BY NextAddress DEF R16
<1>6. [Fetched(2) EXCEPT !["PC"] = (@ + offset) % 65536] = Jumped(2, target)
  <2> HIDE DEF offset, target
  <2> QED
    BY <1>4, <1>5 DEF Jumped
<1>7. /\ NoWrite
      /\ IF Taken(condition) THEN Finish(Jumped(2, target), t) ELSE Finish(Fetched(2), u)
  <2>1. PICK v \in JR :
          /\ op = v[1]
          /\ IF Taken(v[2])
             THEN Finish([Fetched(2) EXCEPT !["PC"] = (@ + offset) % 65536], v[3])
             ELSE Finish(Fetched(2), v[4])
          /\ NoWrite
    BY <1>2 DEF JumpRelative
  <2>2. v[2] = condition /\ v[3] = t /\ v[4] = u
    BY <1>3, <2>1
  <2> HIDE DEF offset, target
  <2> QED
    BY <1>6, <2>1, <2>2
<1> HIDE DEF target
<1>8. Quiet /\ cart_data' = cart_data
  BY <1>7, QuietNoWrite
<1>9. Taken(condition) => Leaves(target, {})
  BY <1>7, <1>8, LeavesJump
<1>10. ~Taken(condition) => Leaves(p + 2, {})
  BY <1>7, <1>8, LeavesFetched
<1>11. OnlyReports(IF Taken(condition) THEN t ELSE u)
  BY <1>7 DEF Finish, OnlyReports
<1> QED
  BY <1>8, <1>9, <1>10, <1>11 DEF target

LEMMA Jp ==
  ASSUME NEW p \in Code, Runs(p), NEW lo, NEW hi, At3(p, 195, lo, hi)
  PROVE  Leaves(WordOf(hi, lo), {}) /\ Quiet /\ OnlyReports(16)
<1>1. JumpTo(195) /\ Imm16 = {WordOf(hi, lo)}
  BY Executes, Decoded, Immediates DEF At3, Runs
<1>2. \A t \in JP : 195 = t[1] => t[2] = "always" /\ t[3] = 16
  BY DEF JP
<1>3. Taken("always")
  BY DEF Taken
<1>4. Finish(Jumped(3, WordOf(hi, lo)), 16) /\ NoWrite
  BY <1>1, <1>2, <1>3 DEF JumpTo, Jumped
<1>5. OnlyReports(16)
  BY <1>4 DEF Finish, OnlyReports
<1> QED
  BY <1>4, <1>5, LeavesJump, QuietNoWrite

(* The end of a program.                                                   *)
LEMMA Ends ==
  ASSUME NEW p \in Code, Runs(p), At(p, 118)
  PROVE  /\ critical' /\ cart_data' = cart_data /\ Quiet /\ OnlyReports(0)
         /\ \A r \in R8 \cup {"SP"} : reg'[r] = reg[r]
<1>1. Invalid(118)
  BY Executes, Decoded
<1> QED
  BY <1>1, NextAddress, QuietNoWrite DEF Invalid, LogCritical, OnlyReports

LEMMA Names == R8 = {"A", "F", "B", "C", "D", "E", "H", "L"} /\ \A p \in 256 .. 290 : p \in Code
BY DEF R8, Code

(* No instruction changes the cartridge.                                   *)
LEMMA CartridgeStays ==
  ASSUME CpuStep
  PROVE  cart_data' = cart_data
<1>1. NoWrite => cart_data' = cart_data
  BY DEF NoWrite, busVars
<1>2. \A a, d : Store(a, d) => cart_data' = cart_data
  BY DEF Store, WriteMemory
<1>3. \A a, d : StackPush(a, d) => cart_data' = cart_data
  BY DEF StackPush
<1>4. PICK op : Execute(op)
  BY DEF CpuStep
<1>5. CASE \/ Nop(op) \/ LoadPairImm16(op) \/ IncPair(op) \/ IncDecByte(op)
           \/ LoadImm8(op) \/ LoadByte(op) \/ LoadFromHL(op)
  BY <1>1, <1>5 DEF Nop, LoadPairImm16, IncPair, IncDecByte, LoadImm8, LoadByte,
     LoadFromHL
<1>6. CASE StoreAtHL(op) \/ StoreA(op) \/ DecMemHL(op) \/ StoreAAt(op)
  <2>1. StoreAtHL(op) \/ DecMemHL(op) => \E a, d : Store(a, d)
    BY Zenon DEF StoreAtHL, DecMemHL
  <2>2. StoreA(op) => \E a, d : Store(a, d)
    BY Zenon DEF StoreA
  <2>3. StoreAAt(op) => \E a, d : Store(a, d)
    <3>1. StoreAAt(op) => \E a \in HighOrImm16(op = 224) : Store(a, reg["A"])
      BY DEF StoreAAt
    <3> QED
      BY <3>1
  <2> QED
    BY <1>2, <1>6, <2>1, <2>2, <2>3
<1>7. CASE LoadA(op) \/ LoadAFrom(op) \/ Arithmetic(op) \/ AddHLHL(op) \/ RotateA(op)
  BY <1>1, <1>7 DEF LoadA, LoadAFrom, Arithmetic, AddHLHL, RotateA
<1>8. CASE PrefixCb(op) \/ JumpRelative(op) \/ JumpTo(op) \/ Return(op) \/ PopPair(op)
             \/ Invalid(op)
  BY <1>1, <1>8 DEF PrefixCb, JumpRelative, JumpTo, Return, PopPair, Invalid
<1>9. CASE CallTo(op) \/ PushPair(op)
  BY <1>1, <1>3, <1>9 DEF CallTo, PushPair
<1> QED
  BY <1>4, <1>5, <1>6, <1>7, <1>8, <1>9 DEF Execute
=============================================================================
