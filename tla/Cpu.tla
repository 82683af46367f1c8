-------------------------------- MODULE Cpu ---------------------------------
(***************************************************************************)
(* cpu.c: the registers, and one action per family of instructions of      *)
(* libyagbe_cpu_step.  The tables name the opcodes of a family with the    *)
(* registers (or condition, or operand) that tell its cases apart.  The    *)
(* cycles an instruction reports are its argument to add_cycles; several   *)
(* of them report none.                                                    *)
(***************************************************************************)
EXTENDS Bus, Alu, Sequences

VARIABLES
  reg,         \* cpu.reg, the pairs kept as bytes
  instruction, \* cpu.instruction
  cycles,      \* what the last step passed to add_cycles, 0 if it did not
  critical,    \* the last step logged an invalid instruction
  writes,      \* the calls of write_memory that the last step made, in order
  frames       \* history: the pushed words no write has overwritten since

cpuVars == <<reg, instruction, cycles, critical, writes, frames>>
vars == <<busVars, cpuVars>>

R8 == {"A", "F", "B", "C", "D", "E", "H", "L"}
R16 == {"SP", "PC"}

Up(w) == (w + 1) % 65536
Down(w) == (w + 65535) % 65536

WordOf(hi, lo) == 256 * hi + lo
Hi(w) == w \div 256
Lo(w) == w % 256
Pair(hi, lo) == WordOf(reg[hi], reg[lo])
BC == Pair("B", "C")
DE == Pair("D", "E")
HL == Pair("H", "L")

-----------------------------------------------------------------------------
(* The opcodes, as <<opcode, what tells its case apart>>.                  *)
LD_RR_IMM16 == {<<1, "B", "C">>, <<17, "D", "E">>, <<33, "H", "L">>}
INC_RR == {<<3, "B", "C">>, <<19, "D", "E">>, <<35, "H", "L">>}
INC_R == {<<4, "B">>, <<20, "D">>, <<28, "E">>, <<36, "H">>, <<44, "L">>}
DEC_R == {<<5, "B">>, <<13, "C">>, <<29, "E">>, <<37, "H">>, <<45, "L">>, <<61, "A">>}
LD_R_IMM8 == {<<6, "B">>, <<14, "C">>, <<38, "H">>, <<62, "A">>}
LD_R_MEM_HL == {<<70, "B">>, <<78, "C">>, <<86, "D">>, <<110, "L">>, <<126, "A">>}
LD_MEM_HL_R == {<<112, "B">>, <<113, "C">>, <<114, "D">>, <<119, "A">>}
LD_R_R == {<<71, "B", "A">>, <<79, "C", "A">>, <<87, "D", "A">>,
           <<95, "E", "A">>, <<103, "H", "A">>, <<111, "L", "A">>,
           <<120, "A", "B">>, <<121, "A", "C">>, <<122, "A", "D">>,
           <<123, "A", "E">>, <<124, "A", "H">>, <<125, "A", "L">>}

(* <<opcode, operation, operand, cycles>>                                  *)
ALU_A == {<<129, "ADD", "C", 4>>, <<145, "SUB", "C", 4>>, <<169, "XOR", "C", 4>>,
          <<177, "OR", "C", 4>>, <<183, "OR", "A", 4>>, <<185, "CP", "C", 4>>,
          <<174, "XOR", "mem_hl", 8>>, <<182, "OR", "mem_hl", 8>>,
          <<198, "ADD", "imm8", 8>>, <<206, "ADC", "imm8", 8>>,
          <<214, "SUB", "imm8", 8>>, <<230, "AND", "imm8", 0>>,
          <<238, "XOR", "imm8", 0>>, <<254, "CP", "imm8", 0>>}

(* <<opcode, condition, cycles when taken, cycles when not>>               *)
JR == {<<24, "always", 12, 12>>, <<32, "NZ", 12, 8>>, <<40, "Z", 12, 8>>,
       <<48, "NC", 12, 8>>, <<56, "C", 12, 8>>}
JP == {<<195, "always", 16, 16>>, <<194, "NZ", 0, 0>>, <<202, "Z", 0, 0>>}
CALL == {<<205, "always", 24, 24>>, <<196, "NZ", 0, 0>>, <<212, "NC", 0, 0>>}
RET == {<<201, "always", 16, 16>>, <<200, "Z", 0, 0>>,
        <<208, "NC", 0, 0>>, <<216, "C", 0, 0>>}

PUSH == {<<197, "B", "C", 16>>, <<213, "D", "E", 16>>, <<229, "H", "L", 16>>,
         <<245, "A", "F", 0>>}
POP == {<<193, "B", "C", 12>>, <<209, "D", "E", 12>>, <<225, "H", "L", 12>>,
        <<241, "A", "F", 0>>}

Opcodes ==
  (UNION {{t[1] : t \in T} : T \in {LD_RR_IMM16, INC_RR, INC_R, DEC_R, LD_R_IMM8,
            LD_R_MEM_HL, LD_MEM_HL_R, LD_R_R, ALU_A, JR, JP, CALL, RET, PUSH, POP}})
    \cup {0, 18, 26, 31, 34, 41, 42, 49, 50, 53, 203, 224, 233, 234, 240, 243, 250}

OP_SRL_B == 56
CB == {<<25, "C">>, <<26, "D">>, <<OP_SRL_B, "B">>}

-----------------------------------------------------------------------------
(* The registers once an instruction of n bytes has been fetched.          *)
Fetched(n) == [reg EXCEPT !["PC"] = (@ + n) % 65536]

(* read_imm8 and read_imm16 of the step: the bytes after the opcode.       *)
Imm8 == ReadMemory(Up(reg["PC"]))
Imm16 == {WordOf(hi, lo) : hi \in ReadMemory(Up(Up(reg["PC"]))), lo \in Imm8}

Taken(condition) ==
  CASE condition = "always" -> TRUE
    [] condition = "NZ" -> ~IsSet(reg["F"], FLAG_Z)
    [] condition = "Z"  -> IsSet(reg["F"], FLAG_Z)
    [] condition = "NC" -> ~IsSet(reg["F"], FLAG_C)
    [] condition = "C"  -> IsSet(reg["F"], FLAG_C)

(* The pushed words that a write to the addresses in where leaves alone.   *)
Untouched(where) == {f \in frames : {f.at, Up(f.at)} \cap where = {}}

Call(a, d) == [address |-> a, data |-> d]

NoWrite ==
  /\ writes' = <<>>
  /\ UNCHANGED <<busVars, frames>>

Store(a, d) ==
  /\ WriteMemory(a, d)
  /\ writes' = <<Call(a, d)>>
  /\ frames' = Untouched({a})

(* Slip: stack_push stores the low byte first.                             *)
StackPushLowFirst(hi, lo) ==
  LET first == Down(reg["SP"])
      second == Down(first)
  IN  /\ ram' = RamAfter(RamAfter(ram, first, lo), second, hi)
      /\ interrupt_flag' = FlagAfter(FlagAfter(interrupt_flag, first, lo), second, hi)
      /\ interrupt_enable' =
           EnableAfter(EnableAfter(interrupt_enable, first, lo), second, hi)
      /\ written' = Call(second, hi)
      /\ writes' = <<Call(first, lo), Call(second, hi)>>
      /\ frames' = Untouched({first, second})
                     \cup {[at |-> second, word |-> WordOf(hi, lo)]}
      /\ UNCHANGED cart_data

(* stack_push: the high byte first, each below the last.                   *)
StackPush(hi, lo) ==
  LET first == Down(reg["SP"])
      second == Down(first)
  IN  /\ ram' = RamAfter(RamAfter(ram, first, hi), second, lo)
      /\ interrupt_flag' = FlagAfter(FlagAfter(interrupt_flag, first, hi), second, lo)
      /\ interrupt_enable' =
           EnableAfter(EnableAfter(interrupt_enable, first, hi), second, lo)
      /\ written' = Call(second, lo)
      /\ writes' = <<Call(first, hi), Call(second, lo)>>
      /\ frames' = Untouched({first, second})
                     \cup {[at |-> second, word |-> WordOf(hi, lo)]}
      /\ UNCHANGED cart_data

Pushed(r) == [r EXCEPT !["SP"] = Down(Down(@))]

(* stack_pop: the word it returns, and the registers after it.             *)
StackTop == {WordOf(hi, lo) : hi \in ReadMemory(Up(reg["SP"])),
                              lo \in ReadMemory(reg["SP"])}
Popped(r) == [r EXCEPT !["SP"] = Up(Up(@))]

(* The end of a step: the registers it leaves and the cycles it reports.   *)
Finish(r, t) ==
  /\ reg' = r
  /\ cycles' = t
  /\ critical' = FALSE

(* An instruction without a case: logged as critical, past its fetch.      *)
LogCritical(r) ==
  /\ reg' = r
  /\ cycles' = 0
  /\ critical' = TRUE

-----------------------------------------------------------------------------
(* NOP, and DI, which is a NOP that reports no cycles.                     *)
Nop(op) ==
  /\ op \in {0, 243}
  /\ Finish(Fetched(1), IF op = 0 THEN 4 ELSE 0)
  /\ NoWrite

LoadPairImm16(op) ==
  /\ \/ \E t \in LD_RR_IMM16 :
          /\ op = t[1]
          /\ \E w \in Imm16 :
               Finish([Fetched(3) EXCEPT ![t[2]] = Hi(w), ![t[3]] = Lo(w)], 12)
     \/ /\ op = 49
        /\ \E w \in Imm16 : Finish([Fetched(3) EXCEPT !["SP"] = w], 12)
  /\ NoWrite

IncPair(op) ==
  \E t \in INC_RR :
    LET w == Up(Pair(t[2], t[3])) IN
    /\ op = t[1]
    /\ Finish([Fetched(1) EXCEPT ![t[2]] = Hi(w), ![t[3]] = Lo(w)], 8)
    /\ NoWrite

IncDecByte(op) ==
  \E r \in R8 :
    LET result == IF <<op, r>> \in INC_R THEN Inc(reg[r], reg["F"])
                  ELSE Dec(reg[r], reg["F"]) IN
    /\ <<op, r>> \in INC_R \cup DEC_R
    /\ Finish([Fetched(1) EXCEPT ![r] = result.value, !["F"] = result.flags], 4)
    /\ NoWrite

LoadImm8(op) ==
  \E r \in R8 :
    /\ <<op, r>> \in LD_R_IMM8
    /\ \E x \in Imm8 : Finish([Fetched(2) EXCEPT ![r] = x], 8)
    /\ NoWrite

LoadByte(op) ==
  \E t \in LD_R_R :
    /\ op = t[1]
    /\ Finish([Fetched(1) EXCEPT ![t[2]] = reg[t[3]]], 4)
    /\ NoWrite

LoadFromHL(op) ==
  \E r \in R8 :
    /\ <<op, r>> \in LD_R_MEM_HL
    /\ \E x \in ReadMemory(HL) : Finish([Fetched(1) EXCEPT ![r] = x], 8)
    /\ NoWrite

StoreAtHL(op) ==
  \E r \in R8 :
    /\ <<op, r>> \in LD_MEM_HL_R
    /\ Finish(Fetched(1), 8)
    /\ Store(HL, reg[r])

(* LD (DE),A; LDI (HL),A; LDD (HL),A: HL moves after its use.              *)
StoreA(op) ==
  \/ op = 18 /\ Finish(Fetched(1), 8) /\ Store(DE, reg["A"])
  \/ \E w \in {Up(HL), Down(HL)} :
       /\ op = IF w = Up(HL) THEN 34 ELSE 50
       /\ Finish([Fetched(1) EXCEPT !["H"] = Hi(w), !["L"] = Lo(w)], 8)
       /\ Store(HL, reg["A"])

(* LD A,(DE); LDI A,(HL).                                                  *)
LoadA(op) ==
  /\ \/ /\ op = 26
        /\ \E x \in ReadMemory(DE) : Finish([Fetched(1) EXCEPT !["A"] = x], 8)
     \/ /\ op = 42
        /\ \E x \in ReadMemory(HL) :
             Finish([Fetched(1) EXCEPT !["A"] = x, !["H"] = Hi(Up(HL)),
                                       !["L"] = Lo(Up(HL))], 8)
  /\ NoWrite

(* DEC (HL) reads, decrements and writes back.                             *)
DecMemHL(op) ==
  /\ op = 53
  /\ \E x \in ReadMemory(HL) :
       LET result == Dec(x, reg["F"]) IN
       /\ Finish([Fetched(1) EXCEPT !["F"] = result.flags], 12)
       /\ Store(HL, result.value)

(* LDH (n),A; LD (nn),A; LDH A,(n); LD A,(nn): only the first reports its  *)
(* cycles.                                                                 *)
HighOrImm16(high) ==
  IF high THEN {65280 + x : x \in Imm8} ELSE Imm16

StoreAAt(op) ==
  /\ op \in {224, 234}
  /\ IF op = 224 THEN Finish(Fetched(2), 12) ELSE Finish(Fetched(3), 0)
  /\ \E a \in HighOrImm16(op = 224) : Store(a, reg["A"])

LoadAFrom(op) ==
  /\ op \in {240, 250}
  /\ \E a \in HighOrImm16(op = 240) : \E x \in ReadMemory(a) :
       Finish([Fetched(IF op = 240 THEN 2 ELSE 3) EXCEPT !["A"] = x], 0)
  /\ NoWrite

Operands(kind) ==
  IF kind = "imm8" THEN Imm8
  ELSE IF kind = "mem_hl" THEN ReadMemory(HL) ELSE {reg[kind]}

Arithmetic(op) ==
  \E t \in ALU_A :
    /\ op = t[1]
    /\ \E x \in Operands(t[3]) :
         LET result == Operation(t[2], reg["A"], x, reg["F"])
             size == IF t[3] = "imm8" THEN 2 ELSE 1
         IN  Finish([Fetched(size) EXCEPT !["A"] = result.value,
                                          !["F"] = result.flags], t[4])
    /\ NoWrite

(* alu_add_hl, only ever with HL itself.                                   *)
AddHLHL(op) ==
  LET sum == HL + HL
      w == sum % 65536 IN
  /\ op = 41
  /\ Finish([Fetched(1) EXCEPT !["H"] = Hi(w), !["L"] = Lo(w),
                               !["F"] = SetCarry(@, sum > 65535)], 8)
  /\ NoWrite

RotateA(op) ==
  LET result == Rra(reg["A"], reg["F"]) IN
  /\ op = 31
  /\ Finish([Fetched(1) EXCEPT !["A"] = result.value, !["F"] = result.flags], 4)
  /\ NoWrite

(* The CB prefix.                                                          *)
PrefixCb(op) ==
  /\ op = 203
  /\ NoWrite
  /\ \E cb \in Imm8 :
       \/ \E t \in CB :
            LET result == IF cb = OP_SRL_B THEN Srl(reg[t[2]], reg["F"])
                          ELSE Rr(reg[t[2]], reg["F"]) IN
            /\ cb = t[1]
            /\ Finish([Fetched(2) EXCEPT ![t[2]] = result.value,
                                         !["F"] = result.flags], 8)
       \/ /\ cb \notin {t[1] : t \in CB}
          /\ LogCritical(Fetched(2))

(* Slip: JR reads PC before read_imm8 has advanced it.                     *)
JumpRelativeStale(op) ==
  \E t \in JR :
    /\ op = t[1]
    /\ \E x \in Imm8 :
         LET offset == IF x < 128 THEN x ELSE x + 65280
             base == IF op = 24 THEN Fetched(1) ELSE Fetched(2)
         IN IF Taken(t[2])
            THEN Finish([base EXCEPT !["PC"] = (@ + offset) % 65536], t[3])
            ELSE Finish(Fetched(2), t[4])
    /\ NoWrite

(* JR and jr_if: the offset is a signed byte, from the next instruction.   *)
JumpRelative(op) ==
  \E t \in JR :
    /\ op = t[1]
    /\ \E x \in Imm8 :
         LET offset == IF x < 128 THEN x ELSE x + 65280 IN
         IF Taken(t[2])
         THEN Finish([Fetched(2) EXCEPT !["PC"] = (@ + offset) % 65536], t[3])
         ELSE Finish(Fetched(2), t[4])
    /\ NoWrite

JumpTo(op) ==
  /\ \/ \E t \in JP :
          /\ op = t[1]
          /\ \E w \in Imm16 :
               IF Taken(t[2]) THEN Finish([Fetched(3) EXCEPT !["PC"] = w], t[3])
               ELSE Finish(Fetched(3), t[4])
     \/ op = 233 /\ Finish([Fetched(1) EXCEPT !["PC"] = HL], 4)
  /\ NoWrite

(* Slip: CALL pushes its own address instead of that of the next one.      *)
CallToReturningHere(op) ==
  \E t \in CALL :
    /\ op = t[1]
    /\ \E w \in Imm16 :
         IF Taken(t[2])
         THEN /\ Finish([Pushed(reg) EXCEPT !["PC"] = w], t[3])
              /\ StackPush(Hi(reg["PC"]), Lo(reg["PC"]))
         ELSE Finish(Fetched(3), t[4]) /\ NoWrite

(* CALL and call_if push the address of the next instruction.              *)
CallTo(op) ==
  \E t \in CALL :
    LET next == Fetched(3)["PC"] IN
    /\ op = t[1]
    /\ \E w \in Imm16 :
         IF Taken(t[2])
         THEN /\ Finish([Pushed(reg) EXCEPT !["PC"] = w], t[3])
              /\ StackPush(Hi(next), Lo(next))
         ELSE Finish(Fetched(3), t[4]) /\ NoWrite

Return(op) ==
  \E t \in RET :
    /\ op = t[1]
    /\ IF Taken(t[2])
       THEN \E w \in StackTop : Finish([Popped(reg) EXCEPT !["PC"] = w], t[3])
       ELSE Finish(Fetched(1), t[4])
    /\ NoWrite

PushPair(op) ==
  \E t \in PUSH :
    /\ op = t[1]
    /\ Finish(Pushed(Fetched(1)), t[4])
    /\ StackPush(reg[t[2]], reg[t[3]])

(* Slip: POP AF loads F as it is on the stack.                             *)
PopPairUnmasked(op) ==
  \E t \in POP :
    /\ op = t[1]
    /\ \E w \in StackTop :
         Finish([Popped(Fetched(1)) EXCEPT ![t[2]] = Hi(w), ![t[3]] = Lo(w)], t[4])
    /\ NoWrite

(* POP AF clears the low nibble of F.                                      *)
PopPair(op) ==
  \E t \in POP :
    /\ op = t[1]
    /\ \E w \in StackTop :
         LET lo == IF t[3] = "F" THEN Lo(w) - (Lo(w) % 16) ELSE Lo(w)
         IN  Finish([Popped(Fetched(1)) EXCEPT ![t[2]] = Hi(w), ![t[3]] = lo], t[4])
    /\ NoWrite

Invalid(op) ==
  /\ op \notin Opcodes
  /\ LogCritical(Fetched(1))
  /\ NoWrite

Execute(op) ==
  \/ Nop(op) \/ LoadPairImm16(op) \/ IncPair(op) \/ IncDecByte(op)
  \/ LoadImm8(op) \/ LoadByte(op) \/ LoadFromHL(op) \/ StoreAtHL(op)
  \/ StoreA(op) \/ LoadA(op) \/ DecMemHL(op) \/ StoreAAt(op) \/ LoadAFrom(op)
  \/ Arithmetic(op) \/ AddHLHL(op) \/ RotateA(op) \/ PrefixCb(op)
  \/ JumpRelative(op) \/ JumpTo(op) \/ CallTo(op) \/ Return(op)
  \/ PushPair(op) \/ PopPair(op) \/ Invalid(op)

-----------------------------------------------------------------------------
(* libyagbe_cpu_reset.                                                     *)
ResetRegisters ==
  [r \in R8 \cup R16 |->
     CASE r = "A" -> 1 [] r = "F" -> 176 [] r = "B" -> 0 [] r = "C" -> 19
       [] r = "D" -> 0 [] r = "E" -> 216 [] r = "H" -> 1 [] r = "L" -> 77
       [] r = "SP" -> 65534 [] r = "PC" -> 256]

CpuInit ==
  /\ BusInit
  /\ reg = ResetRegisters
  /\ instruction = 0
  /\ cycles = 0
  /\ critical = FALSE
  /\ writes = <<>>
  /\ frames = {}

CpuReset ==
  /\ Finish(ResetRegisters, 0)
  /\ instruction' = 0
  /\ NoWrite

(* The loop of basic_runner ends when a critical message was logged, or at *)
(* a program counter that it knows.                                        *)
Stopped == critical \/ reg["PC"] = 51376

CpuStep ==
  \E op \in ReadMemory(reg["PC"]) :
    /\ instruction' = op
    /\ Execute(op)

RunnerNext == ~Stopped /\ CpuStep

RunnerSpec == CpuInit /\ [][RunnerNext]_vars
FairSpec == RunnerSpec /\ WF_vars(RunnerNext)

(* A client of the library that stops stepping when basic_runner would,    *)
(* and resets whenever it likes.                                           *)
ApiNext == RunnerNext \/ CpuReset
ApiSpec == CpuInit /\ [][ApiNext]_vars

-----------------------------------------------------------------------------
CpuTypeOK ==
  /\ BusTypeOK
  /\ reg \in [R8 \cup R16 -> Word]
  /\ \A r \in R8 : reg[r] \in Byte
  /\ instruction \in Byte
  /\ cycles \in 0 .. 24
  /\ critical \in BOOLEAN
  /\ writes \in Seq([address : Word, data : Byte])
  /\ \A f \in frames : f.at \in Word /\ f.word \in Word

(* F has four flags: whatever is pushed, popped or computed, its low nibble*)
(* is zero (POP AF clears it after the word from the stack was stored).    *)
UnusedFlagsAreClear == reg["F"] % 16 = 0

(* A word that was pushed to RAM, and that no write has touched since, is  *)
(* what a RET returns to and what a POP loads, whoever pushed it: CALL and *)
(* PUSH store the high byte first and going down, RET and POP read the low *)
(* byte first and going up, through the bus both times.                    *)
PopsReturnWhatWasPushed ==
  [][\A f \in frames :
       IsRam(f.at) /\ IsRam(Up(f.at)) /\ f.at = reg["SP"]
         /\ reg'["SP"] = Up(Up(f.at)) =>
         /\ instruction' \in {t[1] : t \in RET} => reg'["PC"] = f.word
         /\ \A t \in POP : instruction' = t[1] =>
              WordOf(reg'[t[2]], reg'[t[3]]) =
                f.word - (IF t[3] = "F" THEN f.word % 16 ELSE 0)]_vars
=============================================================================
