-------------------------------- MODULE Alu ---------------------------------
(***************************************************************************)
(* The alu_* helpers of cpu.c, as functions of the bytes and the flag      *)
(* register they are given.  A result is a byte with the new flags; only Z *)
(* and C are ever computed (cpu.c has no half-carry nor subtract flag).    *)
(***************************************************************************)
EXTENDS Naturals

FLAG_Z == 128  \* 1 << 7
FLAG_C == 16   \* 1 << 4

IsSet(flags, mask) == (flags \div mask) % 2 = 1

(* SET_BIT_IF: sets the bit of the mask, or clears it.                     *)
SetBitIf(flags, mask, condition) ==
  IF condition = IsSet(flags, mask) THEN flags
  ELSE IF condition THEN flags + mask ELSE flags - mask

SetZero(flags, value) == SetBitIf(flags, FLAG_Z, value = 0)
SetCarry(flags, condition) == SetBitIf(flags, FLAG_C, condition)
CarryIn(flags) == IF IsSet(flags, FLAG_C) THEN 1 ELSE 0

Result(value, flags) == [value |-> value, flags |-> flags]

-----------------------------------------------------------------------------
(* Slip: the byte is incremented in an int.                                *)
IncUnwrapped(value, flags) == Result(value + 1, SetZero(flags, value + 1))

(* alu_inc and alu_dec leave the carry alone.                              *)
Inc(value, flags) ==
  LET v == (value + 1) % 256 IN Result(v, SetZero(flags, v))

Dec(value, flags) ==
  LET v == (value + 255) % 256 IN Result(v, SetZero(flags, v))

(* alu_add takes an int, so that alu_adc may pass 256.                     *)
Add(a, addend, flags) ==
  LET sum == a + addend
  IN  Result(sum % 256, SetCarry(SetZero(flags, sum % 256), sum > 255))

(* Slip: the carry of the byte is lost on the way to the next.             *)
AdcWithoutCarry(a, addend, flags) == Add(a, addend, flags)

Adc(a, addend, flags) == Add(a, addend + CarryIn(flags), flags)

Sub(a, subtrahend, flags) ==
  LET v == (a + 256 - subtrahend) % 256
  IN  Result(v, SetCarry(SetZero(flags, v), a < subtrahend))

Cp(a, subtrahend, flags) == Result(a, Sub(a, subtrahend, flags).flags)

Srl(value, flags) ==
  LET v == value \div 2
  IN  Result(v, SetZero(SetCarry(flags, value % 2 = 1), v))

(* alu_rr, with ALU_NORMAL and with ALU_CLEAR_ZERO.                        *)
Rotated(value, flags) == value \div 2 + 128 * CarryIn(flags)

Rr(value, flags) ==
  LET v == Rotated(value, flags)
  IN  Result(v, SetZero(SetCarry(flags, value % 2 = 1), v))

Rra(value, flags) ==
  Result(Rotated(value, flags),
         SetBitIf(SetCarry(flags, value % 2 = 1), FLAG_Z, FALSE))

(* The operators & | ^ of C on bytes, bit by bit, a bit named by its weight*)
Bit(value, weight) == (value \div weight) % 2

Bytewise(a, b, Op(_, _)) ==
  LET bit(weight) == weight * Op(Bit(a, weight), Bit(b, weight))
  IN  bit(1) + bit(2) + bit(4) + bit(8) + bit(16) + bit(32) + bit(64) + bit(128)

BitAnd(x, y) == x * y
BitOr(x, y) == IF x + y = 0 THEN 0 ELSE 1
BitXor(x, y) == (x + y) % 2

(* The logic instructions write the whole flag register; AND sets bit 5.   *)
Logic(value, others) ==
  Result(value, IF value = 0 THEN FLAG_Z + others ELSE others)

And(a, operand) == Logic(Bytewise(a, operand, BitAnd), 32)
Or(a, operand) == Logic(Bytewise(a, operand, BitOr), 0)
Xor(a, operand) == Logic(Bytewise(a, operand, BitXor), 0)

(* The operations of the instructions that combine A with an operand.      *)
Operation(name, a, operand, flags) ==
  CASE name = "ADD" -> Add(a, operand, flags)
    [] name = "ADC" -> Adc(a, operand, flags)
    [] name = "SUB" -> Sub(a, operand, flags)
    [] name = "CP"  -> Cp(a, operand, flags)
    [] name = "AND" -> And(a, operand)
    [] name = "OR"  -> Or(a, operand)
    [] name = "XOR" -> Xor(a, operand)
=============================================================================
