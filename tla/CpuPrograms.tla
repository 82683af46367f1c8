---------------------------- MODULE CpuPrograms -----------------------------
(***************************************************************************)
(* Small programs for the CPU, each with the result that integer           *)
(* arithmetic gives for its inputs.  Byte 0 of the cartridge names the     *)
(* program, bytes 1 to 4 are its inputs, and the code starts at $0100; it  *)
(* ends at the opcode $76, which cpu.c does not have.                      *)
(***************************************************************************)
EXTENDS Cpu

CONSTANT Inputs  \* the bytes the programs are given

Start == 256
LdA(n) == <<250, n, 0>>             \* LD A,(n)
LdSp == <<49, 8, 192>>              \* LD SP,$C008

Rom(name, in, code) ==
  LET end == Start + Len(code)
  IN  [a \in (0 .. 4) \cup (Start .. end) |->
         IF a = 0 THEN name ELSE IF a < Start THEN in[a]
         ELSE IF a = end THEN 118 ELSE code[a - Start + 1]]

-----------------------------------------------------------------------------
(* A 16-bit sum from ADD and ADC.                                          *)
Sum16(in) == Rom(1, in,
  LdA(3) \o <<79>> \o LdA(1) \o <<129, 111>> \o LdA(2) \o <<206, in[4], 103>>)

(* SRL B; RR C; RR D; RRA: a 32-bit shift, as a CRC loop uses it.          *)
Shift32(in) == Rom(2, in,
  LdA(1) \o <<71>> \o LdA(2) \o <<79>> \o LdA(3) \o <<87>> \o LdA(4)
    \o <<203, 56, 203, 25, 203, 26, 31>>)

(* Nine rotations through the carry.                                       *)
Rotate9(in) == Rom(3, in, LdA(1) \o <<183, 31, 31, 31, 31, 31, 31, 31, 31, 31>>)

(* A loop of LDI A,(HL); LD (DE),A; INC DE; DEC B; JR NZ.                  *)
Copy(in) == Rom(4, in,
  <<33, 1, 0, 17, 0, 192, 6, 4, 42, 18, 19, 5, 32, 250>>)

(* A loop that CALLs a loop, which saves BC on the stack.                  *)
Multiply(in) == Rom(5, in,
  LdSp \o <<17, 0, 0, 6, 1 + (in[1] % 4), 205, 15, 1, 5, 32, 250, 118,
            197, 6, 1 + (in[2] % 4), 19, 5, 32, 252, 193, 201>>)

(* AND, OR and XOR of the same operands.                                   *)
Logical(in) == Rom(6, in,
  LdA(2) \o <<79>> \o LdA(1) \o <<230, in[2], 71>> \o LdA(1) \o <<177, 87>>
    \o LdA(1) \o <<169, 95>>)

(* SUB, undone by ADD; CP and JR C choose the lesser input.                *)
Lesser(in) == Rom(7, in,
  LdA(2) \o <<79>> \o LdA(1) \o <<145, 71, 129, 87, 254, in[2], 56, 2, 62, in[2]>>)

(* Eight calls of a routine that ends early with RET NC.                   *)
CountBits(in) == Rom(8, in,
  LdSp \o LdA(1) \o <<71, 17, 0, 0, 14, 8, 205, 19, 1, 13, 32, 250, 118,
                      203, 56, 208, 28, 201>>)

(* ADD HL,HL, then a call on its carry.  JR jumps over an INC B, and back  *)
(* to the end, in front of it.                                             *)
Double16(in) == Rom(9, in,
  LdSp \o <<33, in[1], in[2], 41, 6, 0, 212, 18, 1, 24, 2, 118>> \o <<4, 24, 252, 4, 201>>)

ProgramRoms ==
  LET Quads == Inputs \X Inputs \X Inputs \X Inputs
      Pairs == Inputs \X Inputs \X {0} \X {0}
      Singles == Inputs \X {0} \X {0} \X {0}
  IN  {Sum16(in) : in \in Quads} \cup {Shift32(in) : in \in Quads}
        \cup {Copy(in) : in \in Quads} \cup {Multiply(in) : in \in Pairs}
        \cup {Logical(in) : in \in Pairs} \cup {Lesser(in) : in \in Pairs}
        \cup {Double16(in) : in \in Pairs} \cup {Rotate9(in) : in \in Singles}
        \cup {CountBits(in) : in \in Singles}

-----------------------------------------------------------------------------
In(n) == cart_data[n]
CarryOut == CarryIn(reg["F"])
Bits(v) == Bit(v, 1) + Bit(v, 2) + Bit(v, 4) + Bit(v, 8)
             + Bit(v, 16) + Bit(v, 32) + Bit(v, 64) + Bit(v, 128)

(* What a program leaves in the registers and in memory is its result in   *)
(* exact arithmetic: the wrapping bytes, the carry handed from one         *)
(* instruction to the next, the flags the branches test, the signed        *)
(* offsets and the stack all have to agree for it.                         *)
ResultsAreExact ==
  critical =>
    /\ In(0) = 1 => HL + 65536 * CarryOut = WordOf(In(2), In(1)) + WordOf(In(4), In(3))
    /\ In(0) = 2 =>
         /\ 65536 * reg["B"] + 256 * reg["C"] + reg["D"] =
              (65536 * In(1) + 256 * In(2) + In(3)) \div 2
         /\ 2 * reg["A"] + CarryOut = 256 * (In(3) % 2) + In(4)
    /\ In(0) = 3 => reg["A"] = In(1) /\ CarryOut = 0
    /\ In(0) = 4 => \A n \in 0 .. 3 : ReadMemory(49152 + n) = {In(n + 1)}
    /\ In(0) = 5 => DE = (1 + (In(1) % 4)) * (1 + (In(2) % 4)) /\ reg["SP"] = 49160
    /\ In(0) = 6 =>
         /\ reg["B"] + reg["D"] = In(1) + In(2)
         /\ reg["D"] - reg["B"] = reg["E"]
         /\ IsSet(reg["F"], FLAG_Z) <=> In(1) = In(2)
    /\ In(0) = 7 =>
         /\ reg["D"] = In(1)
         /\ reg["A"] = (IF In(1) < In(2) THEN In(1) ELSE In(2))
         /\ reg["B"] = (In(1) + 256 - In(2)) % 256
    /\ In(0) = 8 => reg["E"] = Bits(In(1)) /\ reg["SP"] = 49160
    /\ In(0) = 9 =>
         /\ HL + 65536 * CarryOut = 2 * WordOf(In(2), In(1))
         /\ reg["B"] + CarryOut = 1

(* Every program ends: the counted loops reach zero and every RET finds    *)
(* its way back, as the runner calls step until a critical message.        *)
ProgramsEnd == <>critical
=============================================================================
