-------------------------- MODULE CpuProgramsProofs --------------------------
(***************************************************************************)
(* The programs of CpuPrograms leave exact results for every input: each   *)
(* is followed instruction by instruction, with an invariant that says     *)
(* what is known at each value of the program counter.                     *)
(***************************************************************************)
EXTENDS CpuPrograms, CpuProofs

-----------------------------------------------------------------------------
(* Loads.                                                                  *)
LEMMA LdRR ==
  ASSUME NEW p \in Code, Runs(p), NEW op, NEW r, NEW s, <<op, r, s>> \in LD_R_R, At(p, op)
  PROVE  Leaves(p + 1, {r}) /\ reg'[r] = reg[s] /\ Quiet
<1>1. op \in LoadByteOps /\ r \in R8
  BY DEF LD_R_R, LoadByteOps, R8
<1>2. LoadByte(op)
  BY <1>1, Executes, Decoded
<1>3. PICK t \in LD_R_R : op = t[1] /\ Finish([Fetched(1) EXCEPT ![t[2]] = reg[t[3]]], 4)
                          /\ NoWrite
  BY <1>2 DEF LoadByte
<1>4. t[2] = r /\ t[3] = s
  BY <1>3 DEF LD_R_R
<1>5. Finish(With(1, r, reg[s]), 4) /\ Quiet /\ cart_data' = cart_data
  BY <1>3, <1>4, QuietNoWrite DEF With
<1> QED
  BY <1>1, <1>5, LeavesOne

(* LD A,(n) of one of the first bytes of the cartridge.                    *)
LEMMA LdAAt ==
  ASSUME NEW p \in Code, Runs(p), NEW n \in 1 .. 4, At3(p, 250, n, 0), NEW x, At(n, x)
  PROVE  Leaves(p + 3, {"A"}) /\ reg'["A"] = x /\ Quiet
<1>1. LoadAFrom(250) /\ Imm16 = {WordOf(0, n)}
  BY Executes, Decoded, Immediates DEF At3, Runs
<1>2. WordOf(0, n) = n
  BY DEF WordOf
<1>3. Finish(With(3, "A", x), 0) /\ NoWrite
  BY <1>1, <1>2 DEF LoadAFrom, HighOrImm16, At, With
<1>4. "A" \in R8 \cup {"SP"}
  BY DEF R8
<1>5. Quiet /\ cart_data' = cart_data
  BY <1>3, QuietNoWrite
<1> QED
  BY <1>3, <1>4, <1>5, LeavesOne

(* LDI A,(HL), at an address of the cartridge.                             *)
LEMMA LdiA ==
  ASSUME NEW p \in Code, Runs(p), At(p, 42), NEW x, At(HL, x)
  PROVE  /\ Leaves(p + 1, {"A", "H", "L"}) /\ Quiet
         /\ reg'["A"] = x /\ reg'["H"] = Hi(Up(HL)) /\ reg'["L"] = Lo(Up(HL))
<1>1. LoadA(42)
  BY Executes, Decoded
<1>2. Finish([Fetched(1) EXCEPT !["A"] = x, !["H"] = Hi(Up(HL)), !["L"] = Lo(Up(HL))], 8)
      /\ NoWrite
  BY <1>1 DEF LoadA, At
<1>3. {"A", "H", "L", "PC", "SP"} \subseteq R8 \cup R16
  BY DEF R8, R16
<1> QED
  BY <1>2, <1>3, NextAddress, QuietNoWrite DEF Finish, Leaves

(* LD (DE),A.                                                              *)
LEMMA LdDeA ==
  ASSUME NEW p \in Code, Runs(p), At(p, 18)
  PROVE  /\ Leaves(p + 1, {})
         /\ ram' = RamAfter(ram, DE, reg["A"])
<1>1. StoreA(18)
  BY Executes, Decoded
<1>2. Finish(Fetched(1), 8) /\ Store(DE, reg["A"])
  BY <1>1 DEF StoreA
<1>3. ram' = RamAfter(ram, DE, reg["A"]) /\ cart_data' = cart_data
  BY <1>2 DEF Store, WriteMemory
<1> QED
  BY <1>2, <1>3, LeavesFetched

-----------------------------------------------------------------------------
(* Arithmetic.                                                             *)
LEMMA IncR ==
  ASSUME NEW p \in Code, Runs(p), NEW op, NEW r, <<op, r>> \in INC_R, At(p, op)
  PROVE  /\ Leaves(p + 1, {r, "F"}) /\ Quiet
         /\ reg'[r] = Inc(reg[r], reg["F"]).value
         /\ reg'["F"] = Inc(reg[r], reg["F"]).flags
<1>1. op \in IncDecByteOps /\ r \in R8 /\ r # "F" /\ "F" \in R8
  BY DEF INC_R, IncDecByteOps, R8
<1>2. IncDecByte(op)
  BY <1>1, Executes, Decoded
<1>3. \A q : <<op, q>> \in INC_R \cup DEC_R => q = r
  BY DEF INC_R, DEC_R
<1>4. Finish(With2(1, r, Inc(reg[r], reg["F"]).value, "F", Inc(reg[r], reg["F"]).flags), 4)
      /\ NoWrite
  BY <1>2, <1>3 DEF IncDecByte, With2
<1> QED
  BY <1>1, <1>4, LeavesTwo, QuietNoWrite

LEMMA DecR ==
  ASSUME NEW p \in Code, Runs(p), NEW op, NEW r, <<op, r>> \in DEC_R, At(p, op)
  PROVE  /\ Leaves(p + 1, {r, "F"}) /\ Quiet
         /\ reg'[r] = Dec(reg[r], reg["F"]).value
         /\ reg'["F"] = Dec(reg[r], reg["F"]).flags
<1>1. op \in IncDecByteOps /\ r \in R8 /\ r # "F" /\ "F" \in R8
  BY DEF DEC_R, IncDecByteOps, R8
<1>2. IncDecByte(op)
  BY <1>1, Executes, Decoded
<1>3. \A q : <<op, q>> \in INC_R \cup DEC_R => q = r /\ <<op, q>> \notin INC_R
  BY DEF INC_R, DEC_R
<1>4. Finish(With2(1, r, Dec(reg[r], reg["F"]).value, "F", Dec(reg[r], reg["F"]).flags), 4)
      /\ NoWrite
  BY <1>2, <1>3 DEF IncDecByte, With2
<1> QED
  BY <1>1, <1>4, LeavesTwo, QuietNoWrite

LEMMA IncDE ==
  ASSUME NEW p \in Code, Runs(p), At(p, 19)
  PROVE  /\ Leaves(p + 1, {"D", "E"}) /\ Quiet
         /\ reg'["D"] = Hi(Up(DE)) /\ reg'["E"] = Lo(Up(DE))
<1>1. IncPair(19)
  BY Executes, Decoded DEF IncPairOps
<1>2. Finish(With2(1, "D", Hi(Up(DE)), "E", Lo(Up(DE))), 8) /\ NoWrite
  BY <1>1 DEF IncPair, INC_RR, With2, DE
<1>3. "D" \in R8 /\ "E" \in R8
  BY DEF R8
<1> QED
  BY <1>2, <1>3, LeavesTwo, QuietNoWrite

(* An operation on A and a register.                                       *)
LEMMA AluR ==
  ASSUME NEW p \in Code, Runs(p), NEW op, NEW name, NEW r \in R8, NEW t,
         <<op, name, r, t>> \in ALU_A, At(p, op)
  PROVE  /\ Leaves(p + 1, {"A", "F"}) /\ Quiet
         /\ reg'["A"] = Operation(name, reg["A"], reg[r], reg["F"]).value
         /\ reg'["F"] = Operation(name, reg["A"], reg[r], reg["F"]).flags
<1> DEFINE result == Operation(name, reg["A"], reg[r], reg["F"])
<1>1. op \in ArithmeticOps
  BY DEF ALU_A, ArithmeticOps
<1>2. Arithmetic(op)
  BY <1>1, Executes, Decoded
<1>3. r # "imm8" /\ r # "mem_hl" /\ "A" \in R8 /\ "F" \in R8
  BY DEF R8
<1>4. \A u \in ALU_A : op = u[1] => u[2] = name /\ u[3] = r
  BY DEF ALU_A
<1>5. Operands(r) = {reg[r]}
  BY <1>3 DEF Operands
<1>6. \E s : Finish(With2(1, "A", result.value, "F", result.flags), s) /\ NoWrite
  BY <1>2, <1>3, <1>4, <1>5 DEF Arithmetic, With2
<1> HIDE DEF result
<1>7. Leaves(p + 1, {"A", "F"}) /\ reg'["A"] = result.value /\ reg'["F"] = result.flags
  BY <1>3, <1>6, LeavesTwo, QuietNoWrite
<1> QED
  BY <1>6, <1>7, QuietNoWrite DEF result

LEMMA AddHL ==
  ASSUME NEW p \in Code, Runs(p), At(p, 41)
  PROVE  /\ Leaves(p + 1, {"H", "L", "F"}) /\ Quiet
         /\ reg'["H"] = Hi((HL + HL) % 65536) /\ reg'["L"] = Lo((HL + HL) % 65536)
         /\ reg'["F"] = SetCarry(reg["F"], HL + HL > 65535)
<1>1. AddHLHL(41)
  BY Executes, Decoded
<1>2. {"F", "H", "L", "PC", "SP"} \subseteq R8 \cup R16 /\ "F" \in R8
  BY DEF R8, R16
<1> HIDE DEF HL
<1>3. NoWrite /\ Finish([Fetched(1) EXCEPT !["H"] = Hi((HL + HL) % 65536),
                           !["L"] = Lo((HL + HL) % 65536),
                           !["F"] = SetCarry(@, HL + HL > 65535)], 8)
  BY <1>1 DEF AddHLHL
<1> QED
  BY <1>2, <1>3, NextAddress, QuietNoWrite DEF Finish, Leaves

LEMMA RotA ==
  ASSUME NEW p \in Code, Runs(p), At(p, 31)
  PROVE  /\ Leaves(p + 1, {"A", "F"}) /\ Quiet
         /\ reg'["A"] = Rra(reg["A"], reg["F"]).value
         /\ reg'["F"] = Rra(reg["A"], reg["F"]).flags
<1>1. RotateA(31) /\ "A" \in R8 /\ "F" \in R8
  BY Executes, Decoded DEF R8
<1>2. NoWrite /\ Finish(With2(1, "A", Rra(reg["A"], reg["F"]).value,
                              "F", Rra(reg["A"], reg["F"]).flags), 4)
  BY <1>1 DEF RotateA, With2
<1> QED
  BY <1>1, <1>2, LeavesTwo, QuietNoWrite

(* The CB prefix: SRL B, RR C and RR D.                                    *)
LEMMA CbR ==
  ASSUME NEW p \in Code, Runs(p), NEW cb, NEW r, <<cb, r>> \in CB, At2(p, 203, cb)
  PROVE  LET result == IF r = "B" THEN Srl(reg[r], reg["F"]) ELSE Rr(reg[r], reg["F"])
         IN  /\ Leaves(p + 2, {r, "F"}) /\ Quiet
             /\ reg'[r] = result.value /\ reg'["F"] = result.flags
<1> DEFINE result == IF r = "B" THEN Srl(reg[r], reg["F"]) ELSE Rr(reg[r], reg["F"])
<1>1. PrefixCb(203) /\ Imm8 = {cb}
  BY Executes, Decoded, Immediates DEF At2, Runs
<1>2. r \in R8 /\ "F" \in R8 /\ r # "F" /\ (cb = OP_SRL_B <=> r = "B")
  BY DEF CB, OP_SRL_B, R8
<1>3. cb \in {t[1] : t \in CB} /\ \A t \in CB : cb = t[1] => t[2] = r
  BY DEF CB, OP_SRL_B
<1>4. NoWrite /\ Finish(With2(2, r, result.value, "F", result.flags), 8)
  BY <1>1, <1>2, <1>3 DEF PrefixCb, With2
<1> HIDE DEF result
<1>5. /\ Leaves(p + 2, {r, "F"}) /\ Quiet
      /\ reg'[r] = result.value /\ reg'["F"] = result.flags
  BY <1>2, <1>4, LeavesTwo, QuietNoWrite
<1> QED
  BY <1>5 DEF result

-----------------------------------------------------------------------------
(* Jumps and the stack.                                                    *)
Stack == 49152 .. 53246

LEMMA UpAndDown ==
  ASSUME NEW w \in Stack
  PROVE  /\ w \in Nat /\ Up(w) = w + 1 /\ Up(Up(w)) = w + 2
         /\ Down(w) = w - 1 /\ Down(Down(w)) = w - 2
         /\ IsRam(w) /\ IsRam(Up(w))
<1>1. w \in Nat /\ w >= 49152 /\ w <= 53246
  BY DEF Stack
<1>2. \A v \in Nat : v < 65535 => Up(v) = v + 1
  BY DEF Up
<1>3. \A v \in Nat : v > 0 /\ v <= 65535 => Down(v) = v - 1
  BY DEF Down
<1>4. page(w) = 12 /\ page(w + 1) = 12
  BY <1>1 DEF page
<1>5. IsRam(w) /\ IsRam(w + 1)
  BY <1>4 DEF IsRam, IsWram0
<1> QED
  BY <1>1, <1>2, <1>3, <1>5

(* A push leaves a frame, and every frame above it.                        *)
LEMMA PushFrames ==
  ASSUME NEW hi, NEW lo, StackPush(hi, lo), reg["SP"] \in Stack
  PROVE  /\ [at |-> reg["SP"] - 2, word |-> WordOf(hi, lo)] \in frames'
         /\ \A f \in frames : f.at >= reg["SP"] /\ f.at \in Stack => f \in frames'
         /\ cart_data' = cart_data
<1> DEFINE sp == reg["SP"]
           first == Down(sp)
           second == Down(first)
<1>1. first = sp - 1 /\ second = sp - 2
  BY UpAndDown
<1>2. /\ frames' = Untouched({first, second}) \cup {[at |-> second, word |-> WordOf(hi, lo)]}
      /\ cart_data' = cart_data
  BY DEF StackPush
<1>3. sp \in Nat
  BY UpAndDown
<1> HIDE DEF first, second, sp
<1>4. ASSUME NEW f \in frames, f.at >= sp, f.at \in Stack
      PROVE  f \in frames'
  <2>1. Up(f.at) = f.at + 1
    BY <1>4, UpAndDown
  <2>2. f.at \in Nat
    <3>1. \A w \in Stack : w \in Nat
      BY DEF Stack
    <3> QED
      BY <1>4, <3>1
  <2>3. f.at \notin {first, second} /\ Up(f.at) \notin {first, second}
    BY <1>1, <1>3, <1>4, <2>1, <2>2
  <2>4. {f.at, Up(f.at)} \cap {first, second} = {}
    BY <2>3
  <2> QED
    BY <1>2, <2>4 DEF Untouched
<1>5. [at |-> sp - 2, word |-> WordOf(hi, lo)] \in frames'
  BY <1>1, <1>2
<1> QED
  BY <1>2, <1>4, <1>5 DEF sp

LEMMA CallIf ==
  ASSUME NEW p \in Code, Runs(p), NEW op, NEW condition, NEW t, NEW u,
         <<op, condition, t, u>> \in CALL, NEW lo, NEW hi, At3(p, op, lo, hi),
         reg["SP"] \in Stack
  PROVE  /\ Taken(condition) =>
              /\ Leaves(WordOf(hi, lo), {"SP"}) /\ reg'["SP"] = reg["SP"] - 2
              /\ [at |-> reg["SP"] - 2, word |-> p + 3] \in frames'
         /\ ~Taken(condition) => Leaves(p + 3, {}) /\ Quiet
<1>1. op \in CallOps
  BY DEF CALL, CallOps
<1>2. CallTo(op) /\ Imm16 = {WordOf(hi, lo)}
  BY <1>1, Executes, Decoded, Immediates DEF At3, Runs
<1>3. \A v \in CALL : op = v[1] => v[2] = condition
  BY DEF CALL
<1>4. Fetched(3)["PC"] = p + 3
  BY NextAddress
<1>5. \E s, z : IF Taken(condition)
                THEN /\ Finish([Pushed(reg) EXCEPT !["PC"] = WordOf(hi, lo)], s)
                     /\ StackPush(Hi(p + 3), Lo(p + 3))
                ELSE Finish(Fetched(3), z) /\ NoWrite
  BY <1>2, <1>3, <1>4 DEF CallTo
<1>6. WordOf(Hi(p + 3), Lo(p + 3)) = p + 3
  <2>1. p + 3 \in Word
    BY WordIs DEF Code
  <2> QED
    BY <2>1, Halves
<1>7. CASE Taken(condition)
  <2>1. StackPush(Hi(p + 3), Lo(p + 3))
    BY <1>5, <1>7
  <2>2. cart_data' = cart_data /\ [at |-> reg["SP"] - 2, word |-> p + 3] \in frames'
    BY <1>6, <2>1, PushFrames
  <2>3. Down(Down(reg["SP"])) = reg["SP"] - 2
    BY UpAndDown
  <2>4. \E s : Finish([Pushed(reg) EXCEPT !["PC"] = WordOf(hi, lo)], s)
    BY <1>5, <1>7
  <2>5. DOMAIN reg = R8 \cup R16 /\ "PC" \in R16 /\ "SP" \in R16 /\ "SP" \notin R8 /\ "PC" \notin R8
    BY FromReady DEF Runs, RegOK, R8, R16
  <2> QED
    BY <1>7, <2>2, <2>3, <2>4, <2>5 DEF Finish, Leaves, Pushed
<1>8. CASE ~Taken(condition)
  BY <1>5, <1>8, LeavesFetched, QuietNoWrite
<1> QED
  BY <1>7, <1>8

LEMMA PushBC ==
  ASSUME NEW p \in Code, Runs(p), At(p, 197), reg["SP"] \in Stack
  PROVE  /\ Leaves(p + 1, {"SP"}) /\ reg'["SP"] = reg["SP"] - 2
         /\ [at |-> reg["SP"] - 2, word |-> BC] \in frames'
         /\ \A f \in frames : f.at >= reg["SP"] /\ f.at \in Stack => f \in frames'
<1>1. PushPair(197)
  BY Executes, Decoded DEF PushOps
<1>2. \A t \in PUSH : 197 = t[1] => t[2] = "B" /\ t[3] = "C"
  BY DEF PUSH
<1>3. (\E t : Finish(Pushed(Fetched(1)), t)) /\ StackPush(reg["B"], reg["C"])
  BY <1>1, <1>2 DEF PushPair
<1>4. /\ [at |-> reg["SP"] - 2, word |-> BC] \in frames'
      /\ \A f \in frames : f.at >= reg["SP"] /\ f.at \in Stack => f \in frames'
      /\ cart_data' = cart_data
  BY <1>3, PushFrames DEF BC, Pair
<1>5. Down(Down(reg["SP"])) = reg["SP"] - 2
  BY UpAndDown
<1>6. {"PC", "SP"} \subseteq R16 /\ "SP" \notin R8 /\ "PC" \notin R8
  BY DEF R8, R16
<1> QED
  BY <1>3, <1>4, <1>5, <1>6, NextAddress DEF Finish, Leaves, Pushed

(* What is popped is the word of the frame at the top of the stack.        *)
OnTop(v) == reg["SP"] \in Stack /\ [at |-> reg["SP"], word |-> v] \in frames

LEMMA OnTopIsRead ==
  ASSUME Ready, NEW v, OnTop(v)
  PROVE  StackTop = {v} /\ Up(Up(reg["SP"])) = reg["SP"] + 2
<1> DEFINE f == [at |-> reg["SP"], word |-> v]
<1>1. f \in frames /\ f.at = reg["SP"] /\ f.word = v
  BY DEF OnTop
<1>2. /\ IsRam(reg["SP"]) /\ IsRam(Up(reg["SP"]))
      /\ Up(Up(reg["SP"])) = reg["SP"] + 2
  BY UpAndDown DEF OnTop
<1> HIDE DEF f
<1>3. StackTop = {f.word}
  BY <1>1, <1>2, TopIsHeld DEF Ready
<1> QED
  BY <1>1, <1>2, <1>3

LEMMA RetIf ==
  ASSUME NEW p \in Code, Runs(p), NEW op, NEW condition, NEW t, NEW u,
         <<op, condition, t, u>> \in RET, At(p, op), NEW v, OnTop(v)
  PROVE  /\ Quiet
         /\ Taken(condition) => Leaves(v, {"SP"}) /\ reg'["SP"] = reg["SP"] + 2
         /\ ~Taken(condition) => Leaves(p + 1, {})
<1>1. op \in ReturnOpcodes
  BY DEF RET, ReturnOpcodes
<1>2. Return(op)
  BY <1>1, Executes, ReturnOrPop
<1>3. StackTop = {v} /\ Up(Up(reg["SP"])) = reg["SP"] + 2
  BY OnTopIsRead DEF Runs
<1>4. \A w \in RET : op = w[1] => w[2] = condition
  BY DEF RET
<1>5. /\ NoWrite
      /\ \E s : IF Taken(condition) THEN Finish([Popped(reg) EXCEPT !["PC"] = v], s)
                ELSE Finish(Fetched(1), s)
  BY <1>2, <1>3, <1>4 DEF Return
<1>6. Quiet /\ cart_data' = cart_data
  BY <1>5, QuietNoWrite
<1>7. CASE Taken(condition)
  <2>1. \E s : Finish([Popped(reg) EXCEPT !["PC"] = v], s)
    BY <1>5, <1>7
  <2>2. DOMAIN reg = R8 \cup R16 /\ "PC" \in R16 /\ "SP" \in R16 /\ "SP" \notin R8 /\ "PC" \notin R8
    BY FromReady DEF Runs, RegOK, R8, R16
  <2> QED
    BY <1>3, <1>6, <1>7, <2>1, <2>2 DEF Finish, Leaves, Popped
<1>8. CASE ~Taken(condition)
  BY <1>5, <1>6, <1>8, LeavesFetched
<1> QED
  BY <1>6, <1>7, <1>8

LEMMA PopBC ==
  ASSUME NEW p \in Code, Runs(p), At(p, 193), NEW v, OnTop(v)
  PROVE  /\ Leaves(p + 1, {"SP", "B", "C"}) /\ Quiet /\ reg'["SP"] = reg["SP"] + 2
         /\ reg'["B"] = Hi(v) /\ reg'["C"] = Lo(v)
<1>1. PopPair(193)
  BY Executes, ReturnOrPop DEF PopOpcodes
<1>2. StackTop = {v} /\ Up(Up(reg["SP"])) = reg["SP"] + 2
  BY OnTopIsRead DEF Runs
<1>3. \A t \in POP : 193 = t[1] => t[2] = "B" /\ t[3] = "C"
  BY DEF POP
<1>4. NoWrite /\ \E s : Finish([Popped(Fetched(1)) EXCEPT !["B"] = Hi(v), !["C"] = Lo(v)], s)
  BY <1>1, <1>2, <1>3 DEF PopPair
<1>5. {"PC", "SP"} \subseteq R16 /\ "SP" \notin R8 /\ "PC" \notin R8 /\ {"B", "C"} \subseteq R8
  BY DEF R8, R16
<1> QED
  BY <1>2, <1>4, <1>5, NextAddress, QuietNoWrite DEF Finish, Leaves, Popped

-----------------------------------------------------------------------------
(* The bytes of a cartridge.                                               *)
Holds(n, name, in, code) ==
  /\ \A i \in 1 .. n : At(255 + i, code[i])
  /\ At(256 + n, 118)
  /\ At(1, in[1]) /\ At(2, in[2]) /\ At(3, in[3]) /\ At(4, in[4])
  /\ cart_data[0] = name

LEMMA RomRead ==
  ASSUME NEW name, NEW in, NEW code, NEW n \in 1 .. 99, Len(code) = n,
         cart_data = Rom(name, in, code)
  PROVE  Holds(n, name, in, code)
<1>1. \A a \in 0 .. 511 : ReadMemory(a) = CartBytes(a)
  <2>1. \A a \in 0 .. 511 : page(a) = 0
    BY DEF page
  <2> QED
    BY <2>1 DEF ReadMemory, IsCart
<1>2. n \in 1 .. 99
  OBVIOUS
<1>3. cart_data = [a \in (0 .. 4) \cup (256 .. 256 + n) |->
                     IF a = 0 THEN name ELSE IF a < 256 THEN in[a]
                     ELSE IF a = 256 + n THEN 118 ELSE code[a - 255]]
  <2>1. \A a \in 256 .. 256 + n : a - 256 + 1 = a - 255
    BY <1>2
  <2> QED
    BY <2>1, <1>2 DEF Rom, Start
<1>4. ASSUME NEW i \in 1 .. n
      PROVE  At(255 + i, code[i])
  <2>1. /\ 255 + i \in 256 .. 256 + n /\ 255 + i \in 0 .. 511
        /\ 255 + i # 256 + n /\ (255 + i) - 255 = i /\ ~(255 + i < 256) /\ 255 + i # 0
    BY <1>2
  <2>2. 255 + i \in DOMAIN cart_data /\ cart_data[255 + i] = code[i]
    BY <1>3, <2>1
  <2> QED
    BY <1>1, <2>1, <2>2 DEF At, CartBytes
<1>5. At(256 + n, 118)
  <2>1. 256 + n \in 256 .. 256 + n /\ 256 + n \in 0 .. 511 /\ ~(256 + n < 256) /\ 256 + n # 0
    BY <1>2
  <2>2. 256 + n \in DOMAIN cart_data /\ cart_data[256 + n] = 118
    BY <1>3, <2>1
  <2> QED
    BY <1>1, <2>1, <2>2 DEF At, CartBytes
<1>6. cart_data[0] = name /\ \A k \in 1 .. 4 : At(k, in[k])
  <2>1. \A k \in 1 .. 4 : k \in 0 .. 511 /\ k \in DOMAIN cart_data /\ cart_data[k] = in[k]
    BY <1>2, <1>3
  <2>2. cart_data[0] = name
    BY <1>2, <1>3
  <2> QED
    BY <1>1, <2>1, <2>2 DEF At, CartBytes
<1> QED
  BY <1>4, <1>5, <1>6 DEF Holds

-----------------------------------------------------------------------------
(* The rows of the tables that the programs use.                           *)
LEMMA LoadRows ==
  /\ <<6, "B">> \in LD_R_IMM8 /\ <<14, "C">> \in LD_R_IMM8 /\ <<62, "A">> \in LD_R_IMM8
  /\ <<17, "D", "E">> \in LD_RR_IMM16 /\ <<33, "H", "L">> \in LD_RR_IMM16
BY DEF LD_R_IMM8, LD_RR_IMM16

LEMMA AluRows ==
  /\ <<129, "ADD", "C", 4>> \in ALU_A /\ <<145, "SUB", "C", 4>> \in ALU_A
  /\ <<169, "XOR", "C", 4>> \in ALU_A /\ <<177, "OR", "C", 4>> \in ALU_A
  /\ <<183, "OR", "A", 4>> \in ALU_A
  /\ <<206, "ADC", "imm8", 8>> \in ALU_A /\ <<230, "AND", "imm8", 0>> \in ALU_A
  /\ <<254, "CP", "imm8", 0>> \in ALU_A
  /\ <<4, "B">> \in INC_R /\ <<28, "E">> \in INC_R
  /\ <<5, "B">> \in DEC_R /\ <<13, "C">> \in DEC_R
  /\ <<25, "C">> \in CB /\ <<26, "D">> \in CB /\ <<56, "B">> \in CB
BY DEF ALU_A, INC_R, DEC_R, CB, OP_SRL_B

LEMMA JumpRows ==
  /\ <<24, "always", 12, 12>> \in JR
  /\ <<32, "NZ", 12, 8>> \in JR /\ <<56, "C", 12, 8>> \in JR
  /\ <<205, "always", 24, 24>> \in CALL /\ <<212, "NC", 0, 0>> \in CALL
  /\ <<201, "always", 16, 16>> \in RET /\ <<208, "NC", 0, 0>> \in RET
BY DEF JR, CALL, RET

(* What the registers of a program hold.                                   *)
LEMMA HoldBytes ==
  ASSUME Ready
  PROVE  /\ \A r \in R8 : reg[r] \in AluByte /\ reg[r] \in Nat
         /\ reg["F"] \in Flags
         /\ CarryOut \in {0, 1}
<1>1. reg["F"] \in Flags /\ \A r \in R8 : reg[r] \in Byte
  BY FromReady, RegistersOK
<1> QED
  BY <1>1, Bytes, CarryIsBit DEF CarryOut

LEMMA HoldNext ==
  ASSUME Ready, CpuStep
  PROVE  /\ \A r \in R8 : reg'[r] \in AluByte /\ reg'[r] \in Nat
         /\ CarryOut' \in {0, 1}
<1>1. RegOK(reg')
  BY StepOK DEF CpuInv
<1> QED
  BY <1>1, Bytes, CarryIsBit DEF CarryOut, RegOK

-----------------------------------------------------------------------------
(* The instructions of the programs, one by one, in terms of numbers.      *)
LEMMA LdFromA ==
  ASSUME NEW p \in Code, Runs(p)
  PROVE  /\ At(p, 71) => Leaves(p + 1, {"B"}) /\ reg'["B"] = reg["A"] /\ Quiet
         /\ At(p, 79) => Leaves(p + 1, {"C"}) /\ reg'["C"] = reg["A"] /\ Quiet
         /\ At(p, 87) => Leaves(p + 1, {"D"}) /\ reg'["D"] = reg["A"] /\ Quiet
         /\ At(p, 95) => Leaves(p + 1, {"E"}) /\ reg'["E"] = reg["A"] /\ Quiet
         /\ At(p, 103) => Leaves(p + 1, {"H"}) /\ reg'["H"] = reg["A"] /\ Quiet
         /\ At(p, 111) => Leaves(p + 1, {"L"}) /\ reg'["L"] = reg["A"] /\ Quiet
<1>1. At(p, 71) => Leaves(p + 1, {"B"}) /\ reg'["B"] = reg["A"] /\ Quiet
  <2>1. <<71, "B", "A">> \in LD_R_R
    BY DEF LD_R_R
  <2> QED
    BY <2>1, LdRR
<1>2. At(p, 79) => Leaves(p + 1, {"C"}) /\ reg'["C"] = reg["A"] /\ Quiet
  <2>1. <<79, "C", "A">> \in LD_R_R
    BY DEF LD_R_R
  <2> QED
    BY <2>1, LdRR
<1>3. At(p, 87) => Leaves(p + 1, {"D"}) /\ reg'["D"] = reg["A"] /\ Quiet
  <2>1. <<87, "D", "A">> \in LD_R_R
    BY DEF LD_R_R
  <2> QED
    BY <2>1, LdRR
<1>4. At(p, 95) => Leaves(p + 1, {"E"}) /\ reg'["E"] = reg["A"] /\ Quiet
  <2>1. <<95, "E", "A">> \in LD_R_R
    BY DEF LD_R_R
  <2> QED
    BY <2>1, LdRR
<1>5. At(p, 103) => Leaves(p + 1, {"H"}) /\ reg'["H"] = reg["A"] /\ Quiet
  <2>1. <<103, "H", "A">> \in LD_R_R
    BY DEF LD_R_R
  <2> QED
    BY <2>1, LdRR
<1>6. At(p, 111) => Leaves(p + 1, {"L"}) /\ reg'["L"] = reg["A"] /\ Quiet
  <2>1. <<111, "L", "A">> \in LD_R_R
    BY DEF LD_R_R
  <2> QED
    BY <2>1, LdRR
<1> QED
  BY <1>1, <1>2, <1>3, <1>4, <1>5, <1>6

LEMMA LdByte ==
  ASSUME NEW p \in Code, Runs(p), NEW x
  PROVE  /\ At2(p, 6, x) => Leaves(p + 2, {"B"}) /\ reg'["B"] = x /\ Quiet
         /\ At2(p, 14, x) => Leaves(p + 2, {"C"}) /\ reg'["C"] = x /\ Quiet
         /\ At2(p, 62, x) => Leaves(p + 2, {"A"}) /\ reg'["A"] = x /\ Quiet
<1>1. At2(p, 6, x) => Leaves(p + 2, {"B"}) /\ reg'["B"] = x /\ Quiet
  BY LdRImm8, LoadRows
<1>2. At2(p, 14, x) => Leaves(p + 2, {"C"}) /\ reg'["C"] = x /\ Quiet
  BY LdRImm8, LoadRows
<1>3. At2(p, 62, x) => Leaves(p + 2, {"A"}) /\ reg'["A"] = x /\ Quiet
  BY LdRImm8, LoadRows
<1> QED
  BY <1>1, <1>2, <1>3

LEMMA LdPair ==
  ASSUME NEW p \in Code, Runs(p), NEW lo \in Byte, NEW hi \in Byte
  PROVE  /\ At3(p, 17, lo, hi) =>
              Leaves(p + 3, {"D", "E"}) /\ reg'["D"] = hi /\ reg'["E"] = lo /\ Quiet
         /\ At3(p, 33, lo, hi) =>
              Leaves(p + 3, {"H", "L"}) /\ reg'["H"] = hi /\ reg'["L"] = lo /\ Quiet
BY LdRRImm16, LoadRows

LEMMA ZeroHandedOn ==
  ASSUME NEW f \in Flags, NEW v \in Nat, NEW c \in BOOLEAN
  PROVE  /\ IsSet(SetZero(f, v), FLAG_Z) <=> v = 0
         /\ IsSet(SetCarry(f, c), FLAG_Z) <=> IsSet(f, FLAG_Z)
<1>1. f \in 0 .. 255
  BY DEF Flags, AluByte
<1>2. IsSet(SetZero(f, v), FLAG_Z) <=> v = 0
  <2>1. CASE (v = 0) = IsSet(f, FLAG_Z)
    BY <2>1 DEF SetZero, SetBitIf
  <2>2. CASE v = 0 /\ ~IsSet(f, FLAG_Z)
    <3>1. ((f + 128) \div 128) % 2 = 1
      BY <1>1, <2>2 DEF IsSet, FLAG_Z
    <3>2. SetZero(f, v) = f + 128
      BY <2>2 DEF SetZero, SetBitIf, FLAG_Z
    <3> QED
      BY <2>2, <3>1, <3>2 DEF IsSet, FLAG_Z
  <2>3. CASE v # 0 /\ IsSet(f, FLAG_Z)
    <3>1. ((f - 128) \div 128) % 2 # 1
      BY <1>1, <2>3 DEF IsSet, FLAG_Z
    <3>2. SetZero(f, v) = f - 128
      BY <2>3 DEF SetZero, SetBitIf, FLAG_Z
    <3> QED
      BY <2>3, <3>1, <3>2 DEF IsSet, FLAG_Z
  <2>4. IsSet(f, FLAG_Z) \in BOOLEAN
    BY DEF IsSet
  <2> QED
    BY <2>1, <2>2, <2>3, <2>4
<1>3. SetCarry(f, c) \in {f, IF c THEN f + 16 ELSE f - 16}
  BY DEF SetCarry, SetBitIf, FLAG_C
<1>4. /\ ~IsSet(f, FLAG_C) /\ c => SetCarry(f, c) = f + 16
      /\ IsSet(f, FLAG_C) /\ ~c => SetCarry(f, c) = f - 16
      /\ IsSet(f, FLAG_C) = c => SetCarry(f, c) = f
  BY DEF SetCarry, SetBitIf, FLAG_C
<1>5. /\ (f \div 16) % 2 # 1 => (f + 16) \div 128 = f \div 128
      /\ (f \div 16) % 2 = 1 => (f - 16) \div 128 = f \div 128
  BY <1>1
<1>6. SetCarry(f, c) \div 128 = f \div 128
  <2>1. IsSet(f, FLAG_C) <=> (f \div 16) % 2 = 1
    BY DEF IsSet, FLAG_C
  <2>2. IsSet(f, FLAG_C) \in BOOLEAN
    BY DEF IsSet
  <2> QED
    BY <1>4, <1>5, <2>1, <2>2
<1> QED
  BY <1>2, <1>6 DEF IsSet, FLAG_Z

Zero == IsSet(reg["F"], FLAG_Z)

LEMMA AddAC ==
  ASSUME NEW p \in Code, Runs(p), At(p, 129)
  PROVE  /\ Leaves(p + 1, {"A", "F"})
         /\ reg'["A"] + 256 * CarryOut' = reg["A"] + reg["C"]
<1> DEFINE result == Add(reg["A"], reg["C"], reg["F"])
<1>1. "C" \in R8
  BY DEF R8
<1>2. /\ Leaves(p + 1, {"A", "F"})
      /\ reg'["A"] = result.value /\ reg'["F"] = result.flags
  BY <1>1, AluR, AluRows DEF Operation
<1>3. reg["A"] \in AluByte /\ reg["C"] \in Addends /\ reg["F"] \in Flags
  BY HoldBytes DEF AluByte, Addends, Runs, R8
<1>4. result.value + 256 * CarryIn(result.flags) = reg["A"] + reg["C"]
  BY <1>3, AddIsSum
<1> QED
  BY <1>2, <1>4 DEF CarryOut

LEMMA AdcByte ==
  ASSUME NEW p \in Code, Runs(p), NEW x \in AluByte, At2(p, 206, x)
  PROVE  /\ Leaves(p + 2, {"A", "F"})
         /\ reg'["A"] + 256 * CarryOut' = reg["A"] + x + CarryOut
<1> DEFINE n == x + CarryOut
           result == Add(reg["A"], n, reg["F"])
<1>1. /\ Leaves(p + 2, {"A", "F"})
      /\ reg'["A"] = result.value /\ reg'["F"] = result.flags
  BY AluImm8, AluRows DEF Operation, Adc, CarryOut
<1>2. reg["A"] \in AluByte /\ reg["F"] \in Flags /\ CarryOut \in {0, 1} /\ reg["A"] \in Nat
  BY HoldBytes DEF Runs, R8
<1>3. n \in Addends /\ reg["A"] + n = reg["A"] + x + CarryOut
  BY <1>2 DEF AluByte, Addends
<1> HIDE DEF n
<1>4. result.value + 256 * CarryIn(result.flags) = reg["A"] + n
  BY <1>2, <1>3, AddIsSum
<1> QED
  BY <1>1, <1>3, <1>4 DEF CarryOut

LEMMA SubAC ==
  ASSUME NEW p \in Code, Runs(p), At(p, 145)
  PROVE  /\ Leaves(p + 1, {"A", "F"})
         /\ reg'["A"] = (reg["A"] + 256 - reg["C"]) % 256
<1>1. "C" \in R8
  BY DEF R8
<1>2. /\ Leaves(p + 1, {"A", "F"})
      /\ reg'["A"] = Sub(reg["A"], reg["C"], reg["F"]).value
  BY <1>1, AluR, AluRows DEF Operation
<1> QED
  BY <1>2 DEF Sub, Result

LEMMA CpByte ==
  ASSUME NEW p \in Code, Runs(p), NEW x \in AluByte, At2(p, 254, x)
  PROVE  /\ Leaves(p + 2, {"A", "F"})
         /\ reg'["A"] = reg["A"] /\ CarryOut' = IF reg["A"] < x THEN 1 ELSE 0
<1> DEFINE v == (reg["A"] + 256 - x) % 256
           less == reg["A"] < x
<1>1. /\ Leaves(p + 2, {"A", "F"})
      /\ reg'["A"] = Cp(reg["A"], x, reg["F"]).value
      /\ reg'["F"] = Cp(reg["A"], x, reg["F"]).flags
  BY AluImm8, AluRows DEF Operation
<1>2. reg["A"] \in AluByte /\ reg["F"] \in Flags
  BY HoldBytes DEF Runs, R8
<1>3. reg'["A"] = reg["A"] /\ reg'["F"] = SetCarry(SetZero(reg["F"], v), less)
  BY <1>1 DEF Cp, Sub, Result
<1>4. v \in Nat /\ less \in BOOLEAN
  BY <1>2 DEF AluByte
<1> HIDE DEF v, less
<1>5. SetZero(reg["F"], v) \in Flags
  BY <1>2, <1>4, ZeroKept
<1>6. CarryIn(reg'["F"]) = IF less THEN 1 ELSE 0
  BY <1>3, <1>4, <1>5, CarryHandedOn
<1> QED
  BY <1>1, <1>3, <1>6 DEF CarryOut, less

(* SRL B, RR C, RR D and RRA hand the lowest bit to the carry.             *)
LEMMA ShiftCarry ==
  ASSUME NEW v \in AluByte, NEW f \in Flags
  PROVE  /\ Srl(v, f).value = v \div 2 /\ CarryIn(Srl(v, f).flags) = v % 2
         /\ Rr(v, f).value = v \div 2 + 128 * CarryIn(f) /\ CarryIn(Rr(v, f).flags) = v % 2
         /\ Rra(v, f).value = v \div 2 + 128 * CarryIn(f) /\ CarryIn(Rra(v, f).flags) = v % 2
<1> DEFINE odd == v % 2 = 1
           g == SetCarry(f, odd)
<1>1. odd \in BOOLEAN /\ v % 2 = IF odd THEN 1 ELSE 0
  BY DEF AluByte
<1>2. v \div 2 \in Nat /\ v \div 2 + 128 * CarryIn(f) \in Nat
  BY CarryIsBit DEF AluByte
<1> HIDE DEF odd
<1>3. g \in Flags /\ CarryIn(g) = v % 2
  BY <1>1, CarryKept, CarryHandedOn
<1> HIDE DEF g
<1>4. \A w \in Nat : CarryIn(SetZero(g, w)) = v % 2
  BY <1>3, CarryHandedOn
<1>5. CarryIn(SetBitIf(g, FLAG_Z, FALSE)) = v % 2
  <2>1. (1 = 0) = FALSE
    OBVIOUS
  <2>2. SetZero(g, 1) = SetBitIf(g, FLAG_Z, FALSE)
    BY <2>1, Zenon DEF SetZero
  <2>3. CarryIn(SetZero(g, 1)) = v % 2
    BY <1>4
  <2> QED
    BY <2>2, <2>3, Zenon
<1> QED
  BY <1>2, <1>4, <1>5 DEF Srl, Rr, Rra, Rotated, Result, g, odd

LEMMA SrlB ==
  ASSUME NEW p \in Code, Runs(p), At2(p, 203, 56)
  PROVE  /\ Leaves(p + 2, {"B", "F"}) /\ Quiet
         /\ reg'["B"] = reg["B"] \div 2 /\ CarryOut' = reg["B"] % 2
<1>1. /\ Leaves(p + 2, {"B", "F"}) /\ Quiet
      /\ reg'["B"] = Srl(reg["B"], reg["F"]).value
      /\ reg'["F"] = Srl(reg["B"], reg["F"]).flags
  BY CbR, AluRows
<1>2. reg["B"] \in AluByte /\ reg["F"] \in Flags
  BY HoldBytes DEF Runs, R8
<1> QED
  BY <1>1, <1>2, ShiftCarry DEF CarryOut

LEMMA RrC ==
  ASSUME NEW p \in Code, Runs(p), At2(p, 203, 25)
  PROVE  /\ Leaves(p + 2, {"C", "F"})
         /\ reg'["C"] = reg["C"] \div 2 + 128 * CarryOut /\ CarryOut' = reg["C"] % 2
<1>1. /\ Leaves(p + 2, {"C", "F"})
      /\ reg'["C"] = Rr(reg["C"], reg["F"]).value
      /\ reg'["F"] = Rr(reg["C"], reg["F"]).flags
  BY CbR, AluRows
<1>2. reg["C"] \in AluByte /\ reg["F"] \in Flags
  BY HoldBytes DEF Runs, R8
<1> QED
  BY <1>1, <1>2, ShiftCarry DEF CarryOut

LEMMA RrD ==
  ASSUME NEW p \in Code, Runs(p), At2(p, 203, 26)
  PROVE  /\ Leaves(p + 2, {"D", "F"})
         /\ reg'["D"] = reg["D"] \div 2 + 128 * CarryOut /\ CarryOut' = reg["D"] % 2
<1>1. /\ Leaves(p + 2, {"D", "F"})
      /\ reg'["D"] = Rr(reg["D"], reg["F"]).value
      /\ reg'["F"] = Rr(reg["D"], reg["F"]).flags
  BY CbR, AluRows
<1>2. reg["D"] \in AluByte /\ reg["F"] \in Flags
  BY HoldBytes DEF Runs, R8
<1> QED
  BY <1>1, <1>2, ShiftCarry DEF CarryOut

LEMMA RraOnce ==
  ASSUME NEW p \in Code, Runs(p), At(p, 31)
  PROVE  /\ Leaves(p + 1, {"A", "F"})
         /\ reg'["A"] = reg["A"] \div 2 + 128 * CarryOut /\ CarryOut' = reg["A"] % 2
<1>1. reg["A"] \in AluByte /\ reg["F"] \in Flags
  BY HoldBytes DEF Runs, R8
<1> QED
  BY <1>1, RotA, ShiftCarry DEF CarryOut

(* INC and DEC wrap, set the zero flag and leave the carry alone.          *)
LEMMA IncDecExact ==
  ASSUME NEW v \in AluByte, NEW f \in Flags
  PROVE  /\ Inc(v, f).value = (v + 1) % 256 /\ CarryIn(Inc(v, f).flags) = CarryIn(f)
         /\ Dec(v, f).value = (v + 255) % 256 /\ CarryIn(Dec(v, f).flags) = CarryIn(f)
         /\ IsSet(Dec(v, f).flags, FLAG_Z) <=> Dec(v, f).value = 0
<1>1. (v + 1) % 256 \in Nat /\ (v + 255) % 256 \in Nat
  BY DEF AluByte
<1>2. \A w \in Nat : /\ CarryIn(SetZero(f, w)) = CarryIn(f)
                     /\ IsSet(SetZero(f, w), FLAG_Z) <=> w = 0
  BY CarryHandedOn, ZeroHandedOn
<1> QED
  BY <1>1, <1>2 DEF Inc, Dec, Result

LEMMA IncByte ==
  ASSUME NEW p \in Code, Runs(p)
  PROVE  /\ At(p, 4) => /\ Leaves(p + 1, {"B", "F"}) /\ Quiet
                        /\ reg'["B"] = (reg["B"] + 1) % 256 /\ CarryOut' = CarryOut
         /\ At(p, 28) => /\ Leaves(p + 1, {"E", "F"}) /\ Quiet
                         /\ reg'["E"] = (reg["E"] + 1) % 256 /\ CarryOut' = CarryOut
<1>1. reg["B"] \in AluByte /\ reg["E"] \in AluByte /\ reg["F"] \in Flags
  BY HoldBytes DEF Runs, R8
<1>2. CASE At(p, 4)
  <2>1. /\ Leaves(p + 1, {"B", "F"}) /\ Quiet
        /\ reg'["B"] = Inc(reg["B"], reg["F"]).value
        /\ reg'["F"] = Inc(reg["B"], reg["F"]).flags
    BY <1>2, IncR, AluRows
  <2> QED
    BY <1>1, <1>2, <2>1, IncDecExact DEF CarryOut, At
<1>3. CASE At(p, 28)
  <2>1. /\ Leaves(p + 1, {"E", "F"}) /\ Quiet
        /\ reg'["E"] = Inc(reg["E"], reg["F"]).value
        /\ reg'["F"] = Inc(reg["E"], reg["F"]).flags
    BY <1>3, IncR, AluRows
  <2> QED
    BY <1>1, <1>3, <2>1, IncDecExact DEF CarryOut, At
<1> QED
  BY <1>2, <1>3

LEMMA DecByte ==
  ASSUME NEW p \in Code, Runs(p)
  PROVE  /\ At(p, 5) => /\ Leaves(p + 1, {"B", "F"}) /\ Quiet
                        /\ reg'["B"] = (reg["B"] + 255) % 256 /\ (Zero' <=> reg'["B"] = 0)
         /\ At(p, 13) => /\ Leaves(p + 1, {"C", "F"}) /\ Quiet
                         /\ reg'["C"] = (reg["C"] + 255) % 256 /\ (Zero' <=> reg'["C"] = 0)
<1>1. reg["B"] \in AluByte /\ reg["C"] \in AluByte /\ reg["F"] \in Flags
  BY HoldBytes DEF Runs, R8
<1>2. CASE At(p, 5)
  <2>1. /\ Leaves(p + 1, {"B", "F"}) /\ Quiet
        /\ reg'["B"] = Dec(reg["B"], reg["F"]).value
        /\ reg'["F"] = Dec(reg["B"], reg["F"]).flags
    BY <1>2, DecR, AluRows
  <2> QED
    BY <1>1, <1>2, <2>1, IncDecExact DEF Zero, At
<1>3. CASE At(p, 13)
  <2>1. /\ Leaves(p + 1, {"C", "F"}) /\ Quiet
        /\ reg'["C"] = Dec(reg["C"], reg["F"]).value
        /\ reg'["F"] = Dec(reg["C"], reg["F"]).flags
    BY <1>3, DecR, AluRows
  <2> QED
    BY <1>1, <1>3, <2>1, IncDecExact DEF Zero, At
<1> QED
  BY <1>2, <1>3

(* AND n, OR C, OR A and XOR C.                                            *)
LEMMA LogicalBytes ==
  ASSUME NEW p \in Code, Runs(p)
  PROVE  /\ \A x : At2(p, 230, x) =>
              Leaves(p + 2, {"A", "F"}) /\ reg'["A"] = And(reg["A"], x).value
         /\ At(p, 177) =>
              Leaves(p + 1, {"A", "F"}) /\ reg'["A"] = Or(reg["A"], reg["C"]).value
         /\ At(p, 169) => /\ Leaves(p + 1, {"A", "F"})
                          /\ reg'["A"] = Xor(reg["A"], reg["C"]).value
                          /\ reg'["F"] = Xor(reg["A"], reg["C"]).flags
         /\ At(p, 183) => /\ Leaves(p + 1, {"A", "F"})
                          /\ reg'["A"] = reg["A"] /\ CarryOut' = 0
<1>1. "A" \in R8 /\ "C" \in R8
  BY DEF R8
<1>2. ASSUME NEW x, At2(p, 230, x)
      PROVE  Leaves(p + 2, {"A", "F"}) /\ reg'["A"] = And(reg["A"], x).value
  BY <1>2, AluImm8, AluRows DEF Operation
<1>3. CASE At(p, 177)
  <2>1. Leaves(p + 1, {"A", "F"}) /\ reg'["A"] = Or(reg["A"], reg["C"]).value
    BY <1>1, <1>3, AluR, AluRows DEF Operation
  <2> QED
    BY <1>3, <2>1 DEF At, At2
<1>4. At(p, 169) => /\ Leaves(p + 1, {"A", "F"})
                    /\ reg'["A"] = Xor(reg["A"], reg["C"]).value
                    /\ reg'["F"] = Xor(reg["A"], reg["C"]).flags
  BY <1>1, AluR, AluRows DEF Operation
<1>5. ASSUME At(p, 183)
      PROVE  Leaves(p + 1, {"A", "F"}) /\ reg'["A"] = reg["A"] /\ CarryOut' = 0
  <2>1. /\ Leaves(p + 1, {"A", "F"})
        /\ reg'["A"] = Or(reg["A"], reg["A"]).value
        /\ reg'["F"] = Or(reg["A"], reg["A"]).flags
    BY <1>1, <1>5, AluR, AluRows DEF Operation
  <2>2. Or(reg["A"], reg["A"]).value = reg["A"]
    BY <1>1, HoldBytes, LogicIsExact DEF Runs
  <2>3. CarryIn(Or(reg["A"], reg["A"]).flags) = 0
    BY DEF Or, Logic, Result, CarryIn, IsSet, FLAG_C, FLAG_Z
  <2> QED
    BY <2>1, <2>2, <2>3 DEF CarryOut
<1>6. At(p, 177) =>
        Leaves(p + 1, {"A", "F"}) /\ reg'["A"] = Or(reg["A"], reg["C"]).value
  BY <1>1, AluR, AluRows DEF Operation
<1> QED
  BY <1>2, <1>4, <1>5, <1>6

(* ADD HL,HL and INC DE, in words.                                         *)
LEMMA Doubled ==
  ASSUME NEW p \in Code, Runs(p), At(p, 41)
  PROVE  Leaves(p + 1, {"H", "L", "F"}) /\ HL' + 65536 * CarryOut' = 2 * HL
<1> DEFINE sum == HL + HL
           w == sum % 65536
           carry == sum > 65535
<1>1. /\ Leaves(p + 1, {"H", "L", "F"})
      /\ reg'["H"] = Hi(w) /\ reg'["L"] = Lo(w) /\ reg'["F"] = SetCarry(reg["F"], carry)
  BY AddHL
<1>2. HL \in Word /\ reg["F"] \in Flags
  BY FromReady, RegistersOK DEF Runs
<1>3. w \in Word /\ carry \in BOOLEAN /\ w + 65536 * (IF carry THEN 1 ELSE 0) = 2 * HL
  <2>1. \A n \in Nat : n <= 131071 =>
          n % 65536 \in Word /\ (n % 65536) + 65536 * (IF n > 65535 THEN 1 ELSE 0) = n
    BY Wrapped
  <2>2. \A n \in Nat : n <= 65535 => n + n \in Nat /\ n + n <= 131071 /\ n + n = 2 * n
    OBVIOUS
  <2>3. HL \in Nat /\ HL <= 65535
    BY <1>2, Bytes
  <2>4. sum \in Nat /\ sum <= 131071 /\ sum = 2 * HL
    BY <2>2, <2>3
  <2>5. carry \in BOOLEAN
    OBVIOUS
  <2> HIDE DEF sum
  <2>6. w \in Word /\ w + 65536 * (IF carry THEN 1 ELSE 0) = sum
    BY <2>1, <2>4
  <2> QED
    BY <2>4, <2>5, <2>6
<1> HIDE DEF w, carry
<1>4. WordOf(Hi(w), Lo(w)) = w
  BY <1>3, Halves
<1>5. HL' = w
  BY <1>1, <1>4 DEF HL, Pair
<1>6. CarryOut' = IF carry THEN 1 ELSE 0
  BY <1>1, <1>2, <1>3, CarryHandedOn DEF CarryOut
<1> QED
  BY <1>1, <1>3, <1>5, <1>6

LEMMA NextDE ==
  ASSUME NEW p \in Code, Runs(p), At(p, 19), DE < 65535
  PROVE  /\ Leaves(p + 1, {"D", "E"}) /\ Quiet
         /\ DE' = DE + 1 /\ reg'["D"] = Hi(DE + 1) /\ reg'["E"] = Lo(DE + 1)
<1>1. DE \in Word /\ DE \in Nat
  BY FromReady, RegistersOK, Bytes DEF Runs
<1>2. Up(DE) = DE + 1 /\ DE + 1 \in Word
  <2> HIDE DEF DE
  <2> QED
    BY <1>1, WordIs DEF Up
<1>3. Leaves(p + 1, {"D", "E"}) /\ Quiet /\ reg'["D"] = Hi(Up(DE)) /\ reg'["E"] = Lo(Up(DE))
  BY IncDE
<1>4. WordOf(Hi(DE + 1), Lo(DE + 1)) = DE + 1
  BY <1>2, Halves
<1>5. DE' = WordOf(reg'["D"], reg'["E"])
  BY DEF DE, Pair
<1> QED
  BY <1>2, <1>3, <1>4, <1>5

LEMMA Conditions ==
  /\ Taken("always")
  /\ Taken("NZ") <=> ~Zero
  /\ Taken("C") <=> CarryOut = 1
  /\ Taken("NC") <=> CarryOut = 0
BY DEF Taken, Zero, CarryOut, CarryIn

LEMMA Jumps ==
  ASSUME NEW p \in Code, Runs(p)
  PROVE  /\ \A x \in 128 .. 255 : At2(p, 32, x) =>
              Quiet /\ Leaves(IF Zero THEN p + 2 ELSE p + x - 254, {})
         /\ \A x \in 0 .. 127 : At2(p, 56, x) =>
              Quiet /\ Leaves(IF CarryOut = 1 THEN p + 2 + x ELSE p + 2, {})
<1>1. ASSUME NEW x \in 128 .. 255, At2(p, 32, x)
      PROVE  Quiet /\ Leaves(IF Zero THEN p + 2 ELSE p + x - 254, {})
  <2>1. x \in Byte /\ ~(x < 128)
    BY DEF Byte
  <2>2. /\ Quiet
        /\ Taken("NZ") => Leaves(IF x < 128 THEN p + 2 + x ELSE p + x - 254, {})
        /\ ~Taken("NZ") => Leaves(p + 2, {})
    BY <1>1, <2>1, JrIf, JumpRows
  <2> QED
    BY <2>1, <2>2, Conditions
<1>2. ASSUME NEW x \in 0 .. 127, At2(p, 56, x)
      PROVE  Quiet /\ Leaves(IF CarryOut = 1 THEN p + 2 + x ELSE p + 2, {})
  <2>1. x \in Byte /\ x < 128
    BY DEF Byte
  <2>2. /\ Quiet
        /\ Taken("C") => Leaves(IF x < 128 THEN p + 2 + x ELSE p + x - 254, {})
        /\ ~Taken("C") => Leaves(p + 2, {})
    BY <1>2, <2>1, JrIf, JumpRows
  <2> QED
    BY <2>1, <2>2, Conditions
<1> QED
  BY <1>1, <1>2

(* JR without a condition, forward and back.                               *)
LEMMA JumpsAlways ==
  ASSUME NEW p \in Code, Runs(p), NEW x \in Byte, At2(p, 24, x)
  PROVE  Leaves(IF x < 128 THEN p + 2 + x ELSE p + x - 254, {})
BY JrIf, JumpRows, Conditions

(* CALL and CALL NC, RET and RET NC.                                       *)
LEMMA Calls ==
  ASSUME NEW p \in Code, Runs(p), NEW lo, NEW hi, reg["SP"] \in Stack
  PROVE  /\ At3(p, 205, lo, hi) =>
              /\ Leaves(WordOf(hi, lo), {"SP"}) /\ reg'["SP"] = reg["SP"] - 2
              /\ [at |-> reg["SP"] - 2, word |-> p + 3] \in frames'
         /\ At3(p, 212, lo, hi) /\ CarryOut = 0 =>
              /\ Leaves(WordOf(hi, lo), {"SP"}) /\ reg'["SP"] = reg["SP"] - 2
              /\ [at |-> reg["SP"] - 2, word |-> p + 3] \in frames'
BY CallIf, JumpRows, Conditions

LEMMA NoCall ==
  ASSUME NEW p \in Code, Runs(p), NEW lo, NEW hi, At3(p, 212, lo, hi),
         CarryOut # 0, reg["SP"] \in Stack
  PROVE  Leaves(p + 3, {})
BY CallIf, JumpRows, Conditions

LEMMA Returns ==
  ASSUME NEW p \in Code, Runs(p), NEW v, OnTop(v)
  PROVE  /\ At(p, 201) => Leaves(v, {"SP"}) /\ reg'["SP"] = reg["SP"] + 2 /\ Quiet
         /\ At(p, 208) /\ CarryOut = 0 =>
              Leaves(v, {"SP"}) /\ reg'["SP"] = reg["SP"] + 2 /\ Quiet
         /\ At(p, 208) /\ CarryOut # 0 => Leaves(p + 1, {}) /\ Quiet
BY RetIf, JumpRows, Conditions

-----------------------------------------------------------------------------
(* A 16-bit sum.                                                           *)
LEMMA Sum16Code ==
  ASSUME NEW in, cart_data = Sum16(in)
  PROVE  /\ At3(256, 250, 3, 0) /\ At(259, 79) /\ At3(260, 250, 1, 0) /\ At(263, 129)
         /\ At(264, 111) /\ At3(265, 250, 2, 0) /\ At2(268, 206, in[4]) /\ At(270, 103)
         /\ At(271, 118)
         /\ At(1, in[1]) /\ At(2, in[2]) /\ At(3, in[3]) /\ At(4, in[4])
         /\ cart_data[0] = 1
<1> DEFINE code == LdA(3) \o <<79>> \o LdA(1) \o <<129, 111>> \o LdA(2) \o <<206, in[4], 103>>
<1>1. cart_data = Rom(1, in, code)
  BY DEF Sum16
<1>2. Len(code) = 15 /\ 15 \in 1 .. 99
  BY DEF LdA
<1>3. /\ code[1] = 250 /\ code[2] = 3 /\ code[3] = 0 /\ code[4] = 79
      /\ code[5] = 250 /\ code[6] = 1 /\ code[7] = 0 /\ code[8] = 129
      /\ code[9] = 111 /\ code[10] = 250 /\ code[11] = 2 /\ code[12] = 0
      /\ code[13] = 206 /\ code[14] = in[4] /\ code[15] = 103
  BY DEF LdA
<1> HIDE DEF code
<1>4. Holds(15, 1, in, code)
  BY <1>1, <1>2, RomRead
<1> QED
  BY <1>3, <1>4 DEF Holds, At3, At2

Sum16Exact(in, high, low) ==
  WordOf(high, low) + 65536 * CarryOut = WordOf(in[2], in[1]) + WordOf(in[4], in[3])

LowExact(in, low) == low + 256 * CarryOut = in[1] + in[3]

Sum16Point(in) ==
  LET pc == reg["PC"]
      a == reg["A"]
  IN  \/ pc = 256
      \/ pc = 259 /\ a = in[3]
      \/ pc = 260 /\ reg["C"] = in[3]
      \/ pc = 263 /\ reg["C"] = in[3] /\ a = in[1]
      \/ pc = 264 /\ LowExact(in, a)
      \/ pc = 265 /\ LowExact(in, reg["L"])
      \/ pc = 268 /\ LowExact(in, reg["L"]) /\ a = in[2]
      \/ pc = 270 /\ Sum16Exact(in, a, reg["L"])
      \/ pc = 271 /\ Sum16Exact(in, reg["H"], reg["L"])

LEMMA CarriedSum ==
  ASSUME NEW a1 \in Nat, NEW a2 \in Nat, NEW a3 \in Nat, NEW a4 \in Nat, NEW low \in Nat,
         NEW high \in Nat, NEW c \in Nat, NEW d \in Nat,
         low + 256 * c = a1 + a3, high + 256 * d = a2 + a4 + c
  PROVE  256 * high + low + 65536 * d = 256 * a2 + a1 + (256 * a4 + a3)
OBVIOUS

LEMMA Sum16Step ==
  ASSUME NEW in, \A k \in 1 .. 4 : in[k] \in AluByte,
         cart_data = Sum16(in), Ready, CpuStep, Sum16Point(in)
  PROVE  cart_data' = cart_data /\ IF critical' THEN Sum16Exact(in, reg["H"], reg["L"])'
                                   ELSE Sum16Point(in)'
<1>0. \A p : reg["PC"] = p => Runs(p)
  BY DEF Runs
<1>1. CASE reg["PC"] = 256
  <2>1. Leaves(259, {"A"}) /\ reg'["A"] = in[3]
    BY <1>0, <1>1, LdAAt, Sum16Code, Names
  <2> QED
    BY <2>1 DEF Leaves, Sum16Point
<1>2. CASE reg["PC"] = 259 /\ reg["A"] = in[3]
  <2>1. Leaves(260, {"C"}) /\ reg'["C"] = reg["A"]
    BY <1>0, <1>2, LdFromA, Sum16Code, Names
  <2> QED
    BY <1>2, <2>1 DEF Leaves, Sum16Point
<1>3. CASE reg["PC"] = 260 /\ reg["C"] = in[3]
  <2>1. Leaves(263, {"A"}) /\ reg'["A"] = in[1]
    BY <1>0, <1>3, LdAAt, Sum16Code, Names
  <2> QED
    BY <1>3, <2>1, Names DEF Leaves, Sum16Point
<1>4. CASE reg["PC"] = 263 /\ reg["C"] = in[3] /\ reg["A"] = in[1]
  <2>1. Leaves(264, {"A", "F"}) /\ reg'["A"] + 256 * CarryOut' = reg["A"] + reg["C"]
    BY <1>0, <1>4, AddAC, Sum16Code, Names
  <2>2. LowExact(in, reg["A"])'
    BY <1>4, <2>1 DEF LowExact
  <2> QED
    BY <2>1, <2>2 DEF Leaves, Sum16Point
<1>5. CASE reg["PC"] = 264 /\ LowExact(in, reg["A"])
  <2>1. Leaves(265, {"L"}) /\ reg'["L"] = reg["A"]
    BY <1>0, <1>5, LdFromA, Sum16Code, Names
  <2>2. LowExact(in, reg["L"])'
    BY <1>5, <2>1, Names DEF LowExact, CarryOut, Leaves
  <2> QED
    BY <2>1, <2>2 DEF Leaves, Sum16Point
<1>6. CASE reg["PC"] = 265 /\ LowExact(in, reg["L"])
  <2>1. Leaves(268, {"A"}) /\ reg'["A"] = in[2]
    BY <1>0, <1>6, LdAAt, Sum16Code, Names
  <2>2. LowExact(in, reg["L"])'
    BY <1>6, <2>1, Names DEF LowExact, CarryOut, Leaves
  <2> QED
    BY <2>1, <2>2 DEF Leaves, Sum16Point
<1>7. CASE reg["PC"] = 268 /\ LowExact(in, reg["L"]) /\ reg["A"] = in[2]
  <2>1. Leaves(270, {"A", "F"}) /\ reg'["A"] + 256 * CarryOut' = reg["A"] + in[4] + CarryOut
    BY <1>0, <1>7, AdcByte, Sum16Code, Names
  <2>2. reg'["L"] = reg["L"]
    BY <2>1, Names DEF Leaves
  <2>3. /\ in[1] \in Nat /\ in[2] \in Nat /\ in[3] \in Nat /\ in[4] \in Nat
        /\ reg["L"] \in Nat /\ reg'["A"] \in Nat
        /\ CarryOut \in {0, 1} /\ CarryOut' \in {0, 1}
    BY HoldBytes, HoldNext, Names DEF AluByte
  <2>4. reg["L"] + 256 * CarryOut = in[1] + in[3]
    BY <1>7 DEF LowExact
  <2>5. reg'["A"] + 256 * CarryOut' = in[2] + in[4] + CarryOut
    BY <1>7, <2>1
  <2>6. 256 * reg'["A"] + reg["L"] + 65536 * CarryOut' =
          256 * in[2] + in[1] + (256 * in[4] + in[3])
    <3> DEFINE h == reg'["A"]
               l == reg["L"]
               c == CarryOut
               d == CarryOut'
               a1 == in[1]
               a2 == in[2]
               a3 == in[3]
               a4 == in[4]
    <3>1. /\ h \in Nat /\ l \in Nat /\ c \in Nat /\ d \in Nat
          /\ a1 \in Nat /\ a2 \in Nat /\ a3 \in Nat /\ a4 \in Nat
          /\ l + 256 * c = a1 + a3 /\ h + 256 * d = a2 + a4 + c
      BY <2>3, <2>4, <2>5
    <3> HIDE DEF h, l, c, d, a1, a2, a3, a4
    <3>2. 256 * h + l + 65536 * d = 256 * a2 + a1 + (256 * a4 + a3)
      BY <3>1, CarriedSum
    <3> QED
      BY <3>2 DEF h, l, c, d, a1, a2, a3, a4
  <2>7. Sum16Exact(in, reg["A"], reg["L"])'
    BY <2>2, <2>6 DEF Sum16Exact, WordOf
  <2> QED
    BY <2>1, <2>7 DEF Leaves, Sum16Point
<1>8. CASE reg["PC"] = 270 /\ Sum16Exact(in, reg["A"], reg["L"])
  <2>1. Leaves(271, {"H"}) /\ reg'["H"] = reg["A"]
    BY <1>0, <1>8, LdFromA, Sum16Code, Names
  <2>2. Sum16Exact(in, reg["H"], reg["L"])'
    BY <1>8, <2>1, Names DEF Sum16Exact, CarryOut, Leaves
  <2> QED
    BY <2>1, <2>2 DEF Leaves, Sum16Point
<1>9. CASE reg["PC"] = 271 /\ Sum16Exact(in, reg["H"], reg["L"])
  <2>1. /\ critical' /\ cart_data' = cart_data
        /\ reg'["H"] = reg["H"] /\ reg'["L"] = reg["L"] /\ reg'["F"] = reg["F"]
    BY <1>0, <1>9, Ends, Sum16Code, Names
  <2> QED
    BY <1>9, <2>1 DEF Sum16Exact, CarryOut
<1> QED
  BY <1>1, <1>2, <1>3, <1>4, <1>5, <1>6, <1>7, <1>8, <1>9 DEF Sum16Point

-----------------------------------------------------------------------------
(* A 32-bit shift, byte by byte through the carry.                         *)
LEMMA Shift32Code ==
  ASSUME NEW in, cart_data = Shift32(in)
  PROVE  /\ At3(256, 250, 1, 0) /\ At(259, 71) /\ At3(260, 250, 2, 0)
         /\ At(263, 79) /\ At3(264, 250, 3, 0) /\ At(267, 87)
         /\ At3(268, 250, 4, 0) /\ At2(271, 203, 56) /\ At2(273, 203, 25)
         /\ At2(275, 203, 26) /\ At(277, 31) /\ At(278, 118)
         /\ At(1, in[1]) /\ At(2, in[2]) /\ At(3, in[3]) /\ At(4, in[4])
         /\ cart_data[0] = 2
<1> DEFINE code == LdA(1) \o <<71>> \o LdA(2) \o <<79>> \o LdA(3) \o <<87>> \o LdA(4)
                      \o <<203, 56, 203, 25, 203, 26, 31>>
<1>1. cart_data = Rom(2, in, code)
  BY DEF Shift32
<1>2. Len(code) = 22 /\ 22 \in 1 .. 99
  BY DEF LdA, LdSp
<1>3. /\ code[1] = 250 /\ code[2] = 1 /\ code[3] = 0 /\ code[4] = 71
      /\ code[5] = 250 /\ code[6] = 2 /\ code[7] = 0 /\ code[8] = 79
      /\ code[9] = 250 /\ code[10] = 3 /\ code[11] = 0 /\ code[12] = 87
      /\ code[13] = 250 /\ code[14] = 4 /\ code[15] = 0 /\ code[16] = 203
      /\ code[17] = 56 /\ code[18] = 203 /\ code[19] = 25 /\ code[20] = 203
      /\ code[21] = 26 /\ code[22] = 31
  BY DEF LdA, LdSp
<1> HIDE DEF code
<1>4. Holds(22, 2, in, code)
  BY <1>1, <1>2, RomRead
<1> QED
  BY <1>3, <1>4 DEF Holds, At3, At2

Shift32Point(in) ==
  LET pc == reg["PC"]
  IN  \/ pc = 256
      \/ pc = 259 /\ reg["A"] = in[1]
      \/ pc = 260 /\ reg["B"] = in[1]
      \/ pc = 263 /\ reg["B"] = in[1] /\ reg["A"] = in[2]
      \/ pc = 264 /\ reg["B"] = in[1] /\ reg["C"] = in[2]
      \/ pc = 267 /\ reg["B"] = in[1] /\ reg["C"] = in[2] /\ reg["A"] = in[3]
      \/ pc = 268 /\ reg["B"] = in[1] /\ reg["C"] = in[2] /\ reg["D"] = in[3]
      \/ pc = 271 /\ reg["B"] = in[1] /\ reg["C"] = in[2] /\ reg["D"] = in[3]
            /\ reg["A"] = in[4]
      \/ pc = 273 /\ reg["B"] = in[1] \div 2 /\ reg["C"] = in[2]
            /\ reg["D"] = in[3] /\ reg["A"] = in[4] /\ CarryOut = in[1] % 2
      \/ pc = 275 /\ reg["B"] = in[1] \div 2
            /\ reg["C"] = in[2] \div 2 + 128 * (in[1] % 2) /\ reg["D"] = in[3]
            /\ reg["A"] = in[4] /\ CarryOut = in[2] % 2
      \/ pc = 277 /\ reg["B"] = in[1] \div 2
            /\ reg["C"] = in[2] \div 2 + 128 * (in[1] % 2)
            /\ reg["D"] = in[3] \div 2 + 128 * (in[2] % 2) /\ reg["A"] = in[4]
            /\ CarryOut = in[3] % 2
      \/ pc = 278 /\ reg["B"] = in[1] \div 2
            /\ reg["C"] = in[2] \div 2 + 128 * (in[1] % 2)
            /\ reg["D"] = in[3] \div 2 + 128 * (in[2] % 2)
            /\ reg["A"] = in[4] \div 2 + 128 * (in[3] % 2)
            /\ CarryOut = in[4] % 2

Shift32Exact(in) ==
  /\ 65536 * reg["B"] + 256 * reg["C"] + reg["D"] =
       (65536 * in[1] + 256 * in[2] + in[3]) \div 2
  /\ 2 * reg["A"] + CarryOut = 256 * (in[3] % 2) + in[4]

LEMMA ShiftedBytes ==
  ASSUME NEW in, in[1] \in Nat, in[2] \in Nat, in[3] \in Nat, in[4] \in Nat
  PROVE  /\ 65536 * (in[1] \div 2) + 256 * (in[2] \div 2 + 128 * (in[1] % 2))
               + (in[3] \div 2 + 128 * (in[2] % 2)) =
                 (65536 * in[1] + 256 * in[2] + in[3]) \div 2
         /\ 2 * (in[4] \div 2 + 128 * (in[3] % 2)) + (in[4] % 2) = 256 * (in[3] % 2) + in[4]
<1>1. ASSUME NEW a1 \in Nat, NEW a2 \in Nat, NEW a3 \in Nat, NEW a4 \in Nat
      PROVE  /\ 65536 * (a1 \div 2) + 256 * (a2 \div 2 + 128 * (a1 % 2))
                   + (a3 \div 2 + 128 * (a2 % 2)) = (65536 * a1 + 256 * a2 + a3) \div 2
             /\ 2 * (a4 \div 2 + 128 * (a3 % 2)) + (a4 % 2) = 256 * (a3 % 2) + a4
  <2> DEFINE s == 65536 * (a1 \div 2) + 256 * (a2 \div 2 + 128 * (a1 % 2))
                    + (a3 \div 2 + 128 * (a2 % 2))
  <2>1. \A a \in Nat : a = 2 * (a \div 2) + (a % 2) /\ a \div 2 \in Nat /\ a % 2 \in {0, 1}
    OBVIOUS
  <2>2. s \in Nat /\ 65536 * a1 + 256 * a2 + a3 = 2 * s + (a3 % 2)
    BY <2>1
  <2>3. \A n \in Nat, b \in {0, 1} : (2 * n + b) \div 2 = n
    OBVIOUS
  <2>4. a3 % 2 \in {0, 1}
    OBVIOUS
  <2> HIDE DEF s
  <2>5. s = (65536 * a1 + 256 * a2 + a3) \div 2
    BY <2>2, <2>3, <2>4
  <2>6. 2 * (a4 \div 2 + 128 * (a3 % 2)) + (a4 % 2) = 256 * (a3 % 2) + a4
    OBVIOUS
  <2> QED
    BY <2>5, <2>6 DEF s
<1> DEFINE a1 == in[1]
           a2 == in[2]
           a3 == in[3]
           a4 == in[4]
<1>2. a1 \in Nat /\ a2 \in Nat /\ a3 \in Nat /\ a4 \in Nat
  OBVIOUS
<1> HIDE DEF a1, a2, a3, a4
<1>3. /\ 65536 * (a1 \div 2) + 256 * (a2 \div 2 + 128 * (a1 % 2))
            + (a3 \div 2 + 128 * (a2 % 2)) = (65536 * a1 + 256 * a2 + a3) \div 2
      /\ 2 * (a4 \div 2 + 128 * (a3 % 2)) + (a4 % 2) = 256 * (a3 % 2) + a4
  BY <1>1, <1>2
<1> QED
  BY <1>3 DEF a1, a2, a3, a4

LEMMA Shift32Step ==
  ASSUME NEW in, \A k \in 1 .. 4 : in[k] \in AluByte,
         cart_data = Shift32(in), Ready, CpuStep, Shift32Point(in)
  PROVE  cart_data' = cart_data /\ IF critical' THEN Shift32Exact(in)' ELSE Shift32Point(in)'
<1>0. \A p : reg["PC"] = p => Runs(p)
  BY DEF Runs
<1>1. CASE reg["PC"] = 256
  <2>1. /\ Leaves(259, {"A"}) /\ reg'["A"] = in[1]
    BY <1>0, <1>1, LdAAt, Shift32Code, Names
  <2> QED
    BY <1>1, <2>1, Names DEF Leaves, Shift32Point
<1>2. CASE /\ reg["PC"] = 259 /\ reg["A"] = in[1]
  <2>1. /\ Leaves(260, {"B"}) /\ reg'["B"] = reg["A"]
    BY <1>0, <1>2, LdFromA, Shift32Code, Names
  <2> QED
    BY <1>2, <2>1, Names DEF Leaves, Shift32Point
<1>3. CASE /\ reg["PC"] = 260 /\ reg["B"] = in[1]
  <2>1. /\ Leaves(263, {"A"}) /\ reg'["A"] = in[2]
    BY <1>0, <1>3, LdAAt, Shift32Code, Names
  <2> QED
    BY <1>3, <2>1, Names DEF Leaves, Shift32Point
<1>4. CASE /\ reg["PC"] = 263 /\ reg["B"] = in[1] /\ reg["A"] = in[2]
  <2>1. /\ Leaves(264, {"C"}) /\ reg'["C"] = reg["A"]
    BY <1>0, <1>4, LdFromA, Shift32Code, Names
  <2> QED
    BY <1>4, <2>1, Names DEF Leaves, Shift32Point
<1>5. CASE /\ reg["PC"] = 264 /\ reg["B"] = in[1] /\ reg["C"] = in[2]
  <2>1. /\ Leaves(267, {"A"}) /\ reg'["A"] = in[3]
    BY <1>0, <1>5, LdAAt, Shift32Code, Names
  <2> QED
    BY <1>5, <2>1, Names DEF Leaves, Shift32Point
<1>6. CASE /\ reg["PC"] = 267 /\ reg["B"] = in[1] /\ reg["C"] = in[2]
           /\ reg["A"] = in[3]
  <2>1. /\ Leaves(268, {"D"}) /\ reg'["D"] = reg["A"]
    BY <1>0, <1>6, LdFromA, Shift32Code, Names
  <2> QED
    BY <1>6, <2>1, Names DEF Leaves, Shift32Point
<1>7. CASE /\ reg["PC"] = 268 /\ reg["B"] = in[1] /\ reg["C"] = in[2]
           /\ reg["D"] = in[3]
  <2>1. /\ Leaves(271, {"A"}) /\ reg'["A"] = in[4]
    BY <1>0, <1>7, LdAAt, Shift32Code, Names
  <2> QED
    BY <1>7, <2>1, Names DEF Leaves, Shift32Point
<1>8. CASE /\ reg["PC"] = 271 /\ reg["B"] = in[1] /\ reg["C"] = in[2]
           /\ reg["D"] = in[3] /\ reg["A"] = in[4]
  <2>1. /\ Leaves(273, {"B", "F"}) /\ reg'["B"] = reg["B"] \div 2
        /\ CarryOut' = reg["B"] % 2
    BY <1>0, <1>8, SrlB, Shift32Code, Names
  <2> QED
    BY <1>8, <2>1, Names DEF Leaves, Shift32Point
<1>9. CASE /\ reg["PC"] = 273 /\ reg["B"] = in[1] \div 2 /\ reg["C"] = in[2]
           /\ reg["D"] = in[3] /\ reg["A"] = in[4] /\ CarryOut = in[1] % 2
  <2>1. /\ Leaves(275, {"C", "F"})
        /\ reg'["C"] = reg["C"] \div 2 + 128 * CarryOut
        /\ CarryOut' = reg["C"] % 2
    BY <1>0, <1>9, RrC, Shift32Code, Names
  <2> QED
    BY <1>9, <2>1, Names DEF Leaves, Shift32Point
<1>10. CASE /\ reg["PC"] = 275 /\ reg["B"] = in[1] \div 2
           /\ reg["C"] = in[2] \div 2 + 128 * (in[1] % 2) /\ reg["D"] = in[3]
           /\ reg["A"] = in[4] /\ CarryOut = in[2] % 2
  <2>1. /\ Leaves(277, {"D", "F"})
        /\ reg'["D"] = reg["D"] \div 2 + 128 * CarryOut
        /\ CarryOut' = reg["D"] % 2
    BY <1>0, <1>10, RrD, Shift32Code, Names
  <2> QED
    BY <1>10, <2>1, Names DEF Leaves, Shift32Point
<1>11. CASE /\ reg["PC"] = 277 /\ reg["B"] = in[1] \div 2
           /\ reg["C"] = in[2] \div 2 + 128 * (in[1] % 2)
           /\ reg["D"] = in[3] \div 2 + 128 * (in[2] % 2) /\ reg["A"] = in[4]
           /\ CarryOut = in[3] % 2
  <2>1. /\ Leaves(278, {"A", "F"})
        /\ reg'["A"] = reg["A"] \div 2 + 128 * CarryOut
        /\ CarryOut' = reg["A"] % 2
    BY <1>0, <1>11, RraOnce, Shift32Code, Names
  <2> QED
    BY <1>11, <2>1, Names DEF Leaves, Shift32Point
<1>12. CASE /\ reg["PC"] = 278 /\ reg["B"] = in[1] \div 2
           /\ reg["C"] = in[2] \div 2 + 128 * (in[1] % 2)
           /\ reg["D"] = in[3] \div 2 + 128 * (in[2] % 2)
           /\ reg["A"] = in[4] \div 2 + 128 * (in[3] % 2)
           /\ CarryOut = in[4] % 2
  <2>1. /\ critical' /\ cart_data' = cart_data
        /\ \A r \in R8 \cup {"SP"} : reg'[r] = reg[r]
    BY <1>0, <1>12, Ends, Shift32Code, Names
  <2>2. Shift32Exact(in)
    <3>1. in[1] \in Nat /\ in[2] \in Nat /\ in[3] \in Nat /\ in[4] \in Nat
      BY DEF AluByte
    <3> QED
      BY <1>12, <3>1, ShiftedBytes DEF Shift32Exact
  <2> QED
    BY <2>1, <2>2, Names DEF Shift32Exact, CarryOut
<1> QED
  BY <1>1, <1>2, <1>3, <1>4, <1>5, <1>6, <1>7, <1>8, <1>9, <1>10, <1>11, <1>12 DEF Shift32Point

-----------------------------------------------------------------------------
(* Nine rotations of the nine bits of A and the carry.                     *)
LEMMA Rotate9Code ==
  ASSUME NEW in, cart_data = Rotate9(in)
  PROVE  /\ At3(256, 250, 1, 0) /\ At(259, 183) /\ At(260, 31)
         /\ At(261, 31) /\ At(262, 31) /\ At(263, 31) /\ At(264, 31)
         /\ At(265, 31) /\ At(266, 31) /\ At(267, 31) /\ At(268, 31)
         /\ At(269, 118)
         /\ At(1, in[1]) /\ At(2, in[2]) /\ At(3, in[3]) /\ At(4, in[4])
         /\ cart_data[0] = 3
<1> DEFINE code == LdA(1) \o <<183, 31, 31, 31, 31, 31, 31, 31, 31, 31>>
<1>1. cart_data = Rom(3, in, code)
  BY DEF Rotate9
<1>2. Len(code) = 13 /\ 13 \in 1 .. 99
  BY DEF LdA, LdSp
<1>3. /\ code[1] = 250 /\ code[2] = 1 /\ code[3] = 0 /\ code[4] = 183
      /\ code[5] = 31 /\ code[6] = 31 /\ code[7] = 31 /\ code[8] = 31
      /\ code[9] = 31 /\ code[10] = 31 /\ code[11] = 31 /\ code[12] = 31
      /\ code[13] = 31
  BY DEF LdA, LdSp
<1> HIDE DEF code
<1>4. Holds(13, 3, in, code)
  BY <1>1, <1>2, RomRead
<1> QED
  BY <1>3, <1>4 DEF Holds, At3, At2

Nine == reg["A"] + 256 * CarryOut
Turned(v, w) == (v \div w) + (512 \div w) * (v % w)
TurnedOn(t) == (t \div 2) + 256 * (t % 2)

LEMMA TurnedOnce ==
  ASSUME NEW v \in 0 .. 511
  PROVE  /\ TurnedOn(Turned(v, 1)) = Turned(v, 2)
         /\ TurnedOn(Turned(v, 2)) = Turned(v, 4)
         /\ TurnedOn(Turned(v, 4)) = Turned(v, 8)
         /\ TurnedOn(Turned(v, 8)) = Turned(v, 16)
         /\ TurnedOn(Turned(v, 16)) = Turned(v, 32)
         /\ TurnedOn(Turned(v, 32)) = Turned(v, 64)
         /\ TurnedOn(Turned(v, 64)) = Turned(v, 128)
         /\ TurnedOn(Turned(v, 128)) = Turned(v, 256)
         /\ TurnedOn(Turned(v, 256)) = Turned(v, 512)
<1>1. TurnedOn(Turned(v, 1)) = Turned(v, 2)
  <2>1. v \div 2 = (v \div 1) \div 2 /\ v % 2 = (v % 1) + 1 * ((v \div 1) % 2)
    OBVIOUS
  <2>2. \A q, r \in Nat : /\ (q + 512 * r) \div 2 = (q \div 2) + 256 * r
                          /\ (q + 512 * r) % 2 = q % 2
    OBVIOUS
  <2>3. v \div 1 \in Nat /\ v % 1 \in Nat /\ (v \div 1) % 2 \in Nat
    OBVIOUS
  <2>4. 512 \div 1 = 512 /\ 512 \div 2 = 256
    OBVIOUS
  <2> QED
    BY <2>1, <2>2, <2>3, <2>4 DEF Turned, TurnedOn
<1>2. TurnedOn(Turned(v, 2)) = Turned(v, 4)
  <2>1. v \div 4 = (v \div 2) \div 2 /\ v % 4 = (v % 2) + 2 * ((v \div 2) % 2)
    OBVIOUS
  <2>2. \A q, r \in Nat : /\ (q + 256 * r) \div 2 = (q \div 2) + 128 * r
                          /\ (q + 256 * r) % 2 = q % 2
    OBVIOUS
  <2>3. v \div 2 \in Nat /\ v % 2 \in Nat /\ (v \div 2) % 2 \in Nat
    OBVIOUS
  <2>4. 512 \div 2 = 256 /\ 512 \div 4 = 128
    OBVIOUS
  <2> QED
    BY <2>1, <2>2, <2>3, <2>4 DEF Turned, TurnedOn
<1>3. TurnedOn(Turned(v, 4)) = Turned(v, 8)
  <2>1. v \div 8 = (v \div 4) \div 2 /\ v % 8 = (v % 4) + 4 * ((v \div 4) % 2)
    OBVIOUS
  <2>2. \A q, r \in Nat : /\ (q + 128 * r) \div 2 = (q \div 2) + 64 * r
                          /\ (q + 128 * r) % 2 = q % 2
    OBVIOUS
  <2>3. v \div 4 \in Nat /\ v % 4 \in Nat /\ (v \div 4) % 2 \in Nat
    OBVIOUS
  <2>4. 512 \div 4 = 128 /\ 512 \div 8 = 64
    OBVIOUS
  <2> QED
    BY <2>1, <2>2, <2>3, <2>4 DEF Turned, TurnedOn
<1>4. TurnedOn(Turned(v, 8)) = Turned(v, 16)
  <2>1. v \div 16 = (v \div 8) \div 2 /\ v % 16 = (v % 8) + 8 * ((v \div 8) % 2)
    OBVIOUS
  <2>2. \A q, r \in Nat : /\ (q + 64 * r) \div 2 = (q \div 2) + 32 * r
                          /\ (q + 64 * r) % 2 = q % 2
    OBVIOUS
  <2>3. v \div 8 \in Nat /\ v % 8 \in Nat /\ (v \div 8) % 2 \in Nat
    OBVIOUS
  <2>4. 512 \div 8 = 64 /\ 512 \div 16 = 32
    OBVIOUS
  <2> QED
    BY <2>1, <2>2, <2>3, <2>4 DEF Turned, TurnedOn
<1>5. TurnedOn(Turned(v, 16)) = Turned(v, 32)
  <2>1. v \div 32 = (v \div 16) \div 2 /\ v % 32 = (v % 16) + 16 * ((v \div 16) % 2)
    OBVIOUS
  <2>2. \A q, r \in Nat : /\ (q + 32 * r) \div 2 = (q \div 2) + 16 * r
                          /\ (q + 32 * r) % 2 = q % 2
    OBVIOUS
  <2>3. v \div 16 \in Nat /\ v % 16 \in Nat /\ (v \div 16) % 2 \in Nat
    OBVIOUS
  <2>4. 512 \div 16 = 32 /\ 512 \div 32 = 16
    OBVIOUS
  <2> QED
    BY <2>1, <2>2, <2>3, <2>4 DEF Turned, TurnedOn
<1>6. TurnedOn(Turned(v, 32)) = Turned(v, 64)
  <2>1. v \div 64 = (v \div 32) \div 2 /\ v % 64 = (v % 32) + 32 * ((v \div 32) % 2)
    OBVIOUS
  <2>2. \A q, r \in Nat : /\ (q + 16 * r) \div 2 = (q \div 2) + 8 * r
                          /\ (q + 16 * r) % 2 = q % 2
    OBVIOUS
  <2>3. v \div 32 \in Nat /\ v % 32 \in Nat /\ (v \div 32) % 2 \in Nat
    OBVIOUS
  <2>4. 512 \div 32 = 16 /\ 512 \div 64 = 8
    OBVIOUS
  <2> QED
    BY <2>1, <2>2, <2>3, <2>4 DEF Turned, TurnedOn
<1>7. TurnedOn(Turned(v, 64)) = Turned(v, 128)
  <2>1. v \div 128 = (v \div 64) \div 2 /\ v % 128 = (v % 64) + 64 * ((v \div 64) % 2)
    OBVIOUS
  <2>2. \A q, r \in Nat : /\ (q + 8 * r) \div 2 = (q \div 2) + 4 * r
                          /\ (q + 8 * r) % 2 = q % 2
    OBVIOUS
  <2>3. v \div 64 \in Nat /\ v % 64 \in Nat /\ (v \div 64) % 2 \in Nat
    OBVIOUS
  <2>4. 512 \div 64 = 8 /\ 512 \div 128 = 4
    OBVIOUS
  <2> QED
    BY <2>1, <2>2, <2>3, <2>4 DEF Turned, TurnedOn
<1>8. TurnedOn(Turned(v, 128)) = Turned(v, 256)
  <2>1. v \div 256 = (v \div 128) \div 2 /\ v % 256 = (v % 128) + 128 * ((v \div 128) % 2)
    OBVIOUS
  <2>2. \A q, r \in Nat : /\ (q + 4 * r) \div 2 = (q \div 2) + 2 * r
                          /\ (q + 4 * r) % 2 = q % 2
    OBVIOUS
  <2>3. v \div 128 \in Nat /\ v % 128 \in Nat /\ (v \div 128) % 2 \in Nat
    OBVIOUS
  <2>4. 512 \div 128 = 4 /\ 512 \div 256 = 2
    OBVIOUS
  <2> QED
    BY <2>1, <2>2, <2>3, <2>4 DEF Turned, TurnedOn
<1>9. TurnedOn(Turned(v, 256)) = Turned(v, 512)
  <2>1. v \div 512 = (v \div 256) \div 2 /\ v % 512 = (v % 256) + 256 * ((v \div 256) % 2)
    OBVIOUS
  <2>2. \A q, r \in Nat : /\ (q + 2 * r) \div 2 = (q \div 2) + 1 * r
                          /\ (q + 2 * r) % 2 = q % 2
    OBVIOUS
  <2>3. v \div 256 \in Nat /\ v % 256 \in Nat /\ (v \div 256) % 2 \in Nat
    OBVIOUS
  <2>4. 512 \div 256 = 2 /\ 512 \div 512 = 1
    OBVIOUS
  <2> QED
    BY <2>1, <2>2, <2>3, <2>4 DEF Turned, TurnedOn
<1> QED
  BY <1>1, <1>2, <1>3, <1>4, <1>5, <1>6, <1>7, <1>8, <1>9

Rotate9Point(in) ==
  LET pc == reg["PC"]
  IN  \/ pc = 256
      \/ pc = 259 /\ reg["A"] = in[1]
      \/ pc = 260 /\ Nine = Turned(in[1], 1)
      \/ pc = 261 /\ Nine = Turned(in[1], 2)
      \/ pc = 262 /\ Nine = Turned(in[1], 4)
      \/ pc = 263 /\ Nine = Turned(in[1], 8)
      \/ pc = 264 /\ Nine = Turned(in[1], 16)
      \/ pc = 265 /\ Nine = Turned(in[1], 32)
      \/ pc = 266 /\ Nine = Turned(in[1], 64)
      \/ pc = 267 /\ Nine = Turned(in[1], 128)
      \/ pc = 268 /\ Nine = Turned(in[1], 256)
      \/ pc = 269 /\ Nine = Turned(in[1], 512)

LEMMA RotatedNine ==
  ASSUME NEW p \in Code, Runs(p), At(p, 31)
  PROVE  Leaves(p + 1, {"A", "F"}) /\ Nine' = TurnedOn(Nine)
<1>1. \A n \in Nat, c \in {0, 1} :
        (n \div 2 + 128 * c) + 256 * (n % 2) = TurnedOn(n + 256 * c)
  BY DEF TurnedOn
<1>2. reg["A"] \in Nat /\ CarryOut \in {0, 1}
  BY HoldBytes, Names DEF Runs
<1>3. /\ Leaves(p + 1, {"A", "F"})
      /\ reg'["A"] = reg["A"] \div 2 + 128 * CarryOut /\ CarryOut' = reg["A"] % 2
  BY RraOnce
<1>4. (reg["A"] \div 2 + 128 * CarryOut) + 256 * (reg["A"] % 2) = TurnedOn(Nine)
  BY <1>1, <1>2 DEF Nine
<1>5. Nine' = TurnedOn(Nine)
  BY <1>3, <1>4, Zenon DEF Nine
<1> QED
  BY <1>3, <1>5

LEMMA Rotate9Step ==
  ASSUME NEW in, \A k \in 1 .. 4 : in[k] \in AluByte,
         cart_data = Rotate9(in), Ready, CpuStep, Rotate9Point(in)
  PROVE  cart_data' = cart_data /\ IF critical' THEN (reg["A"] = in[1] /\ CarryOut = 0)'
                                   ELSE Rotate9Point(in)'
<1>0. /\ \A p : reg["PC"] = p => Runs(p)
      /\ in[1] \in 0 .. 511 /\ in[1] \in Nat
  BY DEF Runs, AluByte
<1>1. CASE reg["PC"] = 256
  <2>1. Leaves(259, {"A"}) /\ reg'["A"] = in[1]
    BY <1>0, <1>1, LdAAt, Rotate9Code, Names
  <2> QED
    BY <2>1 DEF Leaves, Rotate9Point
<1>2. CASE reg["PC"] = 259 /\ reg["A"] = in[1]
  <2>1. Leaves(260, {"A", "F"}) /\ reg'["A"] = in[1] /\ CarryOut' = 0
    BY <1>0, <1>2, LogicalBytes, Rotate9Code, Names
  <2>2. \A n \in Nat : n + 256 * 0 = Turned(n, 1)
    BY DEF Turned
  <2>3. Nine' = Turned(in[1], 1)
    BY <1>0, <2>1, <2>2 DEF Nine
  <2> QED
    BY <2>1, <2>3 DEF Leaves, Rotate9Point
<1>3. CASE reg["PC"] = 260 /\ Nine = Turned(in[1], 1)
  <2>1. Leaves(261, {"A", "F"}) /\ Nine' = TurnedOn(Nine)
    BY <1>0, <1>3, RotatedNine, Rotate9Code, Names
  <2>2. Nine' = Turned(in[1], 2)
    BY <1>0, <1>3, <2>1, TurnedOnce
  <2> QED
    BY <2>1, <2>2 DEF Leaves, Rotate9Point
<1>4. CASE reg["PC"] = 261 /\ Nine = Turned(in[1], 2)
  <2>1. Leaves(262, {"A", "F"}) /\ Nine' = TurnedOn(Nine)
    BY <1>0, <1>4, RotatedNine, Rotate9Code, Names
  <2>2. Nine' = Turned(in[1], 4)
    BY <1>0, <1>4, <2>1, TurnedOnce
  <2> QED
    BY <2>1, <2>2 DEF Leaves, Rotate9Point
<1>5. CASE reg["PC"] = 262 /\ Nine = Turned(in[1], 4)
  <2>1. Leaves(263, {"A", "F"}) /\ Nine' = TurnedOn(Nine)
    BY <1>0, <1>5, RotatedNine, Rotate9Code, Names
  <2>2. Nine' = Turned(in[1], 8)
    BY <1>0, <1>5, <2>1, TurnedOnce
  <2> QED
    BY <2>1, <2>2 DEF Leaves, Rotate9Point
<1>6. CASE reg["PC"] = 263 /\ Nine = Turned(in[1], 8)
  <2>1. Leaves(264, {"A", "F"}) /\ Nine' = TurnedOn(Nine)
    BY <1>0, <1>6, RotatedNine, Rotate9Code, Names
  <2>2. Nine' = Turned(in[1], 16)
    BY <1>0, <1>6, <2>1, TurnedOnce
  <2> QED
    BY <2>1, <2>2 DEF Leaves, Rotate9Point
<1>7. CASE reg["PC"] = 264 /\ Nine = Turned(in[1], 16)
  <2>1. Leaves(265, {"A", "F"}) /\ Nine' = TurnedOn(Nine)
    BY <1>0, <1>7, RotatedNine, Rotate9Code, Names
  <2>2. Nine' = Turned(in[1], 32)
    BY <1>0, <1>7, <2>1, TurnedOnce
  <2> QED
    BY <2>1, <2>2 DEF Leaves, Rotate9Point
<1>8. CASE reg["PC"] = 265 /\ Nine = Turned(in[1], 32)
  <2>1. Leaves(266, {"A", "F"}) /\ Nine' = TurnedOn(Nine)
    BY <1>0, <1>8, RotatedNine, Rotate9Code, Names
  <2>2. Nine' = Turned(in[1], 64)
    BY <1>0, <1>8, <2>1, TurnedOnce
  <2> QED
    BY <2>1, <2>2 DEF Leaves, Rotate9Point
<1>9. CASE reg["PC"] = 266 /\ Nine = Turned(in[1], 64)
  <2>1. Leaves(267, {"A", "F"}) /\ Nine' = TurnedOn(Nine)
    BY <1>0, <1>9, RotatedNine, Rotate9Code, Names
  <2>2. Nine' = Turned(in[1], 128)
    BY <1>0, <1>9, <2>1, TurnedOnce
  <2> QED
    BY <2>1, <2>2 DEF Leaves, Rotate9Point
<1>10. CASE reg["PC"] = 267 /\ Nine = Turned(in[1], 128)
  <2>1. Leaves(268, {"A", "F"}) /\ Nine' = TurnedOn(Nine)
    BY <1>0, <1>10, RotatedNine, Rotate9Code, Names
  <2>2. Nine' = Turned(in[1], 256)
    BY <1>0, <1>10, <2>1, TurnedOnce
  <2> QED
    BY <2>1, <2>2 DEF Leaves, Rotate9Point
<1>11. CASE reg["PC"] = 268 /\ Nine = Turned(in[1], 256)
  <2>1. Leaves(269, {"A", "F"}) /\ Nine' = TurnedOn(Nine)
    BY <1>0, <1>11, RotatedNine, Rotate9Code, Names
  <2>2. Nine' = Turned(in[1], 512)
    BY <1>0, <1>11, <2>1, TurnedOnce
  <2> QED
    BY <2>1, <2>2 DEF Leaves, Rotate9Point
<1>12. CASE reg["PC"] = 269 /\ Nine = Turned(in[1], 512)
  <2>1. critical' /\ cart_data' = cart_data /\ reg'["A"] = reg["A"] /\ reg'["F"] = reg["F"]
    BY <1>0, <1>12, Ends, Rotate9Code, Names
  <2>2. in[1] < 256 /\ reg["A"] \in Nat /\ CarryOut \in {0, 1}
    BY HoldBytes, Names DEF AluByte
  <2>3. \A n \in Nat : n < 256 => Turned(n, 512) = n
    BY DEF Turned
  <2>4. reg["A"] + 256 * CarryOut = in[1]
    BY <1>0, <1>12, <2>2, <2>3 DEF Nine
  <2>5. reg["A"] = in[1] /\ CarryOut = 0
    BY <1>0, <2>2, <2>4
  <2> QED
    BY <2>1, <2>5 DEF CarryOut
<1> QED
  BY <1>1, <1>2, <1>3, <1>4, <1>5, <1>6, <1>7, <1>8, <1>9, <1>10, <1>11, <1>12 DEF Rotate9Point

-----------------------------------------------------------------------------
(* AND, OR and XOR of the same operands.                                   *)
LEMMA LogicalCode ==
  ASSUME NEW in, cart_data = Logical(in)
  PROVE  /\ At3(256, 250, 2, 0) /\ At(259, 79) /\ At3(260, 250, 1, 0)
         /\ At2(263, 230, in[2]) /\ At(265, 71) /\ At3(266, 250, 1, 0)
         /\ At(269, 177) /\ At(270, 87) /\ At3(271, 250, 1, 0)
         /\ At(274, 169) /\ At(275, 95) /\ At(276, 118)
         /\ At(1, in[1]) /\ At(2, in[2]) /\ At(3, in[3]) /\ At(4, in[4])
         /\ cart_data[0] = 6
<1> DEFINE code == LdA(2) \o <<79>> \o LdA(1) \o <<230, in[2], 71>> \o LdA(1) \o <<177, 87>>
                      \o LdA(1) \o <<169, 95>>
<1>1. cart_data = Rom(6, in, code)
  BY DEF Logical
<1>2. Len(code) = 20 /\ 20 \in 1 .. 99
  BY DEF LdA, LdSp
<1>3. /\ code[1] = 250 /\ code[2] = 2 /\ code[3] = 0 /\ code[4] = 79
      /\ code[5] = 250 /\ code[6] = 1 /\ code[7] = 0 /\ code[8] = 230
      /\ code[9] = in[2] /\ code[10] = 71 /\ code[11] = 250 /\ code[12] = 1
      /\ code[13] = 0 /\ code[14] = 177 /\ code[15] = 87 /\ code[16] = 250
      /\ code[17] = 1 /\ code[18] = 0 /\ code[19] = 169 /\ code[20] = 95
  BY DEF LdA, LdSp
<1> HIDE DEF code
<1>4. Holds(20, 6, in, code)
  BY <1>1, <1>2, RomRead
<1> QED
  BY <1>3, <1>4 DEF Holds, At3, At2

LogicalPoint(in) ==
  LET pc == reg["PC"]
  IN  \/ pc = 256
      \/ pc = 259 /\ reg["A"] = in[2]
      \/ pc = 260 /\ reg["C"] = in[2]
      \/ pc = 263 /\ reg["C"] = in[2] /\ reg["A"] = in[1]
      \/ pc = 265 /\ reg["C"] = in[2] /\ reg["A"] = And(in[1], in[2]).value
      \/ pc = 266 /\ reg["C"] = in[2] /\ reg["B"] = And(in[1], in[2]).value
      \/ pc = 269 /\ reg["C"] = in[2] /\ reg["B"] = And(in[1], in[2]).value
            /\ reg["A"] = in[1]
      \/ pc = 270 /\ reg["C"] = in[2] /\ reg["B"] = And(in[1], in[2]).value
            /\ reg["A"] = Or(in[1], in[2]).value
      \/ pc = 271 /\ reg["C"] = in[2] /\ reg["B"] = And(in[1], in[2]).value
            /\ reg["D"] = Or(in[1], in[2]).value
      \/ pc = 274 /\ reg["C"] = in[2] /\ reg["B"] = And(in[1], in[2]).value
            /\ reg["D"] = Or(in[1], in[2]).value /\ reg["A"] = in[1]
      \/ pc = 275 /\ reg["B"] = And(in[1], in[2]).value
            /\ reg["D"] = Or(in[1], in[2]).value
            /\ reg["A"] = Xor(in[1], in[2]).value
            /\ reg["F"] = Xor(in[1], in[2]).flags
      \/ pc = 276 /\ reg["B"] = And(in[1], in[2]).value
            /\ reg["D"] = Or(in[1], in[2]).value
            /\ reg["E"] = Xor(in[1], in[2]).value
            /\ reg["F"] = Xor(in[1], in[2]).flags

LogicalExact(in) ==
  /\ reg["B"] + reg["D"] = in[1] + in[2]
  /\ reg["D"] - reg["B"] = reg["E"]
  /\ IsSet(reg["F"], FLAG_Z) <=> in[1] = in[2]

LEMMA LogicalStep ==
  ASSUME NEW in, \A k \in 1 .. 4 : in[k] \in AluByte,
         cart_data = Logical(in), Ready, CpuStep, LogicalPoint(in)
  PROVE  cart_data' = cart_data /\ IF critical' THEN LogicalExact(in)' ELSE LogicalPoint(in)'
<1>0. \A p : reg["PC"] = p => Runs(p)
  BY DEF Runs
<1>1. CASE reg["PC"] = 256
  <2>1. /\ Leaves(259, {"A"}) /\ reg'["A"] = in[2]
    BY <1>0, <1>1, LdAAt, LogicalCode, Names
  <2> QED
    BY <1>1, <2>1, Names DEF Leaves, LogicalPoint
<1>2. CASE /\ reg["PC"] = 259 /\ reg["A"] = in[2]
  <2>1. /\ Leaves(260, {"C"}) /\ reg'["C"] = reg["A"]
    BY <1>0, <1>2, LdFromA, LogicalCode, Names
  <2> QED
    BY <1>2, <2>1, Names DEF Leaves, LogicalPoint
<1>3. CASE /\ reg["PC"] = 260 /\ reg["C"] = in[2]
  <2>1. /\ Leaves(263, {"A"}) /\ reg'["A"] = in[1]
    BY <1>0, <1>3, LdAAt, LogicalCode, Names
  <2> QED
    BY <1>3, <2>1, Names DEF Leaves, LogicalPoint
<1>4. CASE /\ reg["PC"] = 263 /\ reg["C"] = in[2] /\ reg["A"] = in[1]
  <2>1. /\ Leaves(265, {"A", "F"}) /\ reg'["A"] = And(in[1], in[2]).value
    BY <1>0, <1>4, LogicalBytes, LogicalCode, Names
  <2> QED
    BY <1>4, <2>1, Names DEF Leaves, LogicalPoint
<1>5. CASE /\ reg["PC"] = 265 /\ reg["C"] = in[2]
           /\ reg["A"] = And(in[1], in[2]).value
  <2>1. /\ Leaves(266, {"B"}) /\ reg'["B"] = reg["A"]
    BY <1>0, <1>5, LdFromA, LogicalCode, Names
  <2> QED
    BY <1>5, <2>1, Names DEF Leaves, LogicalPoint
<1>6. CASE /\ reg["PC"] = 266 /\ reg["C"] = in[2]
           /\ reg["B"] = And(in[1], in[2]).value
  <2>1. /\ Leaves(269, {"A"}) /\ reg'["A"] = in[1]
    BY <1>0, <1>6, LdAAt, LogicalCode, Names
  <2> QED
    BY <1>6, <2>1, Names DEF Leaves, LogicalPoint
<1>7. CASE /\ reg["PC"] = 269 /\ reg["C"] = in[2]
           /\ reg["B"] = And(in[1], in[2]).value /\ reg["A"] = in[1]
  <2>1. /\ Leaves(270, {"A", "F"}) /\ reg'["A"] = Or(in[1], in[2]).value
    BY <1>0, <1>7, LogicalBytes, LogicalCode, Names
  <2> QED
    BY <1>7, <2>1, Names DEF Leaves, LogicalPoint
<1>8. CASE /\ reg["PC"] = 270 /\ reg["C"] = in[2]
           /\ reg["B"] = And(in[1], in[2]).value
           /\ reg["A"] = Or(in[1], in[2]).value
  <2>1. /\ Leaves(271, {"D"}) /\ reg'["D"] = reg["A"]
    BY <1>0, <1>8, LdFromA, LogicalCode, Names
  <2> QED
    BY <1>8, <2>1, Names DEF Leaves, LogicalPoint
<1>9. CASE /\ reg["PC"] = 271 /\ reg["C"] = in[2]
           /\ reg["B"] = And(in[1], in[2]).value
           /\ reg["D"] = Or(in[1], in[2]).value
  <2>1. /\ Leaves(274, {"A"}) /\ reg'["A"] = in[1]
    BY <1>0, <1>9, LdAAt, LogicalCode, Names
  <2> QED
    BY <1>9, <2>1, Names DEF Leaves, LogicalPoint
<1>10. CASE /\ reg["PC"] = 274 /\ reg["C"] = in[2]
           /\ reg["B"] = And(in[1], in[2]).value
           /\ reg["D"] = Or(in[1], in[2]).value /\ reg["A"] = in[1]
  <2>1. /\ Leaves(275, {"A", "F"}) /\ reg'["A"] = Xor(in[1], in[2]).value
        /\ reg'["F"] = Xor(in[1], in[2]).flags
    BY <1>0, <1>10, LogicalBytes, LogicalCode, Names
  <2> QED
    BY <1>10, <2>1, Names DEF Leaves, LogicalPoint
<1>11. CASE /\ reg["PC"] = 275 /\ reg["B"] = And(in[1], in[2]).value
           /\ reg["D"] = Or(in[1], in[2]).value
           /\ reg["A"] = Xor(in[1], in[2]).value
           /\ reg["F"] = Xor(in[1], in[2]).flags
  <2>1. /\ Leaves(276, {"E"}) /\ reg'["E"] = reg["A"]
    BY <1>0, <1>11, LdFromA, LogicalCode, Names
  <2> QED
    BY <1>11, <2>1, Names DEF Leaves, LogicalPoint
<1>12. CASE /\ reg["PC"] = 276 /\ reg["B"] = And(in[1], in[2]).value
           /\ reg["D"] = Or(in[1], in[2]).value
           /\ reg["E"] = Xor(in[1], in[2]).value
           /\ reg["F"] = Xor(in[1], in[2]).flags
  <2>1. /\ critical' /\ cart_data' = cart_data
        /\ \A r \in R8 \cup {"SP"} : reg'[r] = reg[r]
    BY <1>0, <1>12, Ends, LogicalCode, Names
  <2>2. /\ And(in[1], in[2]).value + Or(in[1], in[2]).value = in[1] + in[2]
        /\ Or(in[1], in[2]).value = And(in[1], in[2]).value + Xor(in[1], in[2]).value
        /\ IsSet(Xor(in[1], in[2]).flags, FLAG_Z) <=> in[1] = in[2]
    BY LogicIsExact
  <2>3. LogicalExact(in)
    <3>1. reg["B"] \in Nat /\ reg["E"] \in Nat
      BY HoldBytes, Names
    <3>2. reg["D"] = reg["B"] + reg["E"]
      BY <1>12, <2>2
    <3> QED
      BY <1>12, <2>2, <3>1, <3>2 DEF LogicalExact
  <2> QED
    BY <2>1, <2>3, Names DEF LogicalExact
<1> QED
  BY <1>1, <1>2, <1>3, <1>4, <1>5, <1>6, <1>7, <1>8, <1>9, <1>10, <1>11, <1>12 DEF LogicalPoint

-----------------------------------------------------------------------------
(* SUB undone by ADD, and CP with JR C.                                    *)
LEMMA LesserCode ==
  ASSUME NEW in, cart_data = Lesser(in)
  PROVE  /\ At3(256, 250, 2, 0) /\ At(259, 79) /\ At3(260, 250, 1, 0)
         /\ At(263, 145) /\ At(264, 71) /\ At(265, 129) /\ At(266, 87)
         /\ At2(267, 254, in[2]) /\ At2(269, 56, 2) /\ At2(271, 62, in[2])
         /\ At(273, 118)
         /\ At(1, in[1]) /\ At(2, in[2]) /\ At(3, in[3]) /\ At(4, in[4])
         /\ cart_data[0] = 7
<1> DEFINE code == LdA(2) \o <<79>> \o LdA(1)
                      \o <<145, 71, 129, 87, 254, in[2], 56, 2, 62, in[2]>>
<1>1. cart_data = Rom(7, in, code)
  BY DEF Lesser
<1>2. Len(code) = 17 /\ 17 \in 1 .. 99
  BY DEF LdA, LdSp
<1>3. /\ code[1] = 250 /\ code[2] = 2 /\ code[3] = 0 /\ code[4] = 79
      /\ code[5] = 250 /\ code[6] = 1 /\ code[7] = 0 /\ code[8] = 145
      /\ code[9] = 71 /\ code[10] = 129 /\ code[11] = 87 /\ code[12] = 254
      /\ code[13] = in[2] /\ code[14] = 56 /\ code[15] = 2 /\ code[16] = 62
      /\ code[17] = in[2]
  BY DEF LdA, LdSp
<1> HIDE DEF code
<1>4. Holds(17, 7, in, code)
  BY <1>1, <1>2, RomRead
<1> QED
  BY <1>3, <1>4 DEF Holds, At3, At2

LesserPoint(in) ==
  LET pc == reg["PC"]
  IN  \/ pc = 256
      \/ pc = 259 /\ reg["A"] = in[2]
      \/ pc = 260 /\ reg["C"] = in[2]
      \/ pc = 263 /\ reg["C"] = in[2] /\ reg["A"] = in[1]
      \/ pc = 264 /\ reg["C"] = in[2]
            /\ reg["A"] = (in[1] + 256 - in[2]) % 256
      \/ pc = 265 /\ reg["C"] = in[2]
            /\ reg["B"] = (in[1] + 256 - in[2]) % 256
            /\ reg["A"] = (in[1] + 256 - in[2]) % 256
      \/ pc = 266 /\ reg["B"] = (in[1] + 256 - in[2]) % 256
            /\ reg["A"] = in[1]
      \/ pc = 267 /\ reg["B"] = (in[1] + 256 - in[2]) % 256
            /\ reg["D"] = in[1] /\ reg["A"] = in[1]
      \/ pc = 269 /\ reg["B"] = (in[1] + 256 - in[2]) % 256
            /\ reg["D"] = in[1] /\ reg["A"] = in[1]
            /\ (CarryOut = IF in[1] < in[2] THEN 1 ELSE 0)
      \/ pc = 271 /\ reg["B"] = (in[1] + 256 - in[2]) % 256
            /\ reg["D"] = in[1] /\ ~(in[1] < in[2])
      \/ pc = 273 /\ reg["B"] = (in[1] + 256 - in[2]) % 256
            /\ reg["D"] = in[1]
            /\ reg["A"] = (IF in[1] < in[2] THEN in[1] ELSE in[2])

LesserExact(in) ==
  /\ reg["D"] = in[1]
  /\ reg["A"] = (IF in[1] < in[2] THEN in[1] ELSE in[2])
  /\ reg["B"] = (in[1] + 256 - in[2]) % 256

(* A difference that wrapped comes back when its subtrahend is added.      *)
LEMMA AddedBack ==
  ASSUME NEW x \in 0 .. 255, NEW y \in 0 .. 255
  PROVE  ((x + 256 - y) % 256) + y \in {x, x + 256}
<1>1. CASE x >= y
  <2>1. (x + 256 - y) % 256 = x - y
    <3>1. \A m \in 0 .. 255 : (256 + m) % 256 = m
      OBVIOUS
    <3>2. x - y \in 0 .. 255 /\ x + 256 - y = 256 + (x - y)
      BY <1>1
    <3> QED
      BY <3>1, <3>2
  <2> QED
    BY <2>1
<1>2. CASE x < y
  <2>1. (x + 256 - y) % 256 = x + 256 - y
    BY <1>2
  <2> QED
    BY <2>1
<1> QED
  BY <1>1, <1>2

LEMMA LesserStep ==
  ASSUME NEW in, \A k \in 1 .. 4 : in[k] \in AluByte,
         cart_data = Lesser(in), Ready, CpuStep, LesserPoint(in)
  PROVE  cart_data' = cart_data /\ IF critical' THEN LesserExact(in)' ELSE LesserPoint(in)'
<1>0. \A p : reg["PC"] = p => Runs(p)
  BY DEF Runs
<1>1. CASE reg["PC"] = 256
  <2>1. /\ Leaves(259, {"A"}) /\ reg'["A"] = in[2]
    BY <1>0, <1>1, LdAAt, LesserCode, Names
  <2> QED
    BY <1>1, <2>1, Names DEF Leaves, LesserPoint
<1>2. CASE /\ reg["PC"] = 259 /\ reg["A"] = in[2]
  <2>1. /\ Leaves(260, {"C"}) /\ reg'["C"] = reg["A"]
    BY <1>0, <1>2, LdFromA, LesserCode, Names
  <2> QED
    BY <1>2, <2>1, Names DEF Leaves, LesserPoint
<1>3. CASE /\ reg["PC"] = 260 /\ reg["C"] = in[2]
  <2>1. /\ Leaves(263, {"A"}) /\ reg'["A"] = in[1]
    BY <1>0, <1>3, LdAAt, LesserCode, Names
  <2> QED
    BY <1>3, <2>1, Names DEF Leaves, LesserPoint
<1>4. CASE /\ reg["PC"] = 263 /\ reg["C"] = in[2] /\ reg["A"] = in[1]
  <2>1. /\ Leaves(264, {"A", "F"}) /\ reg'["A"] = (in[1] + 256 - in[2]) % 256
    BY <1>0, <1>4, SubAC, LesserCode, Names
  <2> QED
    BY <1>4, <2>1, Names DEF Leaves, LesserPoint
<1>5. CASE /\ reg["PC"] = 264 /\ reg["C"] = in[2]
           /\ reg["A"] = (in[1] + 256 - in[2]) % 256
  <2>1. /\ Leaves(265, {"B"}) /\ reg'["B"] = reg["A"]
    BY <1>0, <1>5, LdFromA, LesserCode, Names
  <2> QED
    BY <1>5, <2>1, Names DEF Leaves, LesserPoint
<1>6. CASE /\ reg["PC"] = 265 /\ reg["C"] = in[2]
           /\ reg["B"] = (in[1] + 256 - in[2]) % 256
           /\ reg["A"] = (in[1] + 256 - in[2]) % 256
  <2>1. Leaves(266, {"A", "F"}) /\ reg'["A"] + 256 * CarryOut' = reg["A"] + reg["C"]
    BY <1>0, <1>6, AddAC, LesserCode, Names
  <2>2. reg'["A"] \in 0 .. 255 /\ in[1] \in 0 .. 255 /\ in[2] \in 0 .. 255
    BY HoldNext, Names DEF AluByte
  <2>3. CarryOut' \in {0, 1} /\ reg'["A"] + 256 * CarryOut' = ((in[1] + 256 - in[2]) % 256) + in[2]
    BY <1>6, <2>1, HoldNext
  <2>4. reg'["A"] = in[1]
    <3> DEFINE x == in[1]
               y == in[2]
               n == reg'["A"]
               c == CarryOut'
    <3>1. /\ x \in 0 .. 255 /\ y \in 0 .. 255 /\ n \in 0 .. 255 /\ c \in {0, 1}
          /\ n + 256 * c = ((x + 256 - y) % 256) + y
      BY <2>2, <2>3
    <3> HIDE DEF x, y, n, c
    <3>2. ((x + 256 - y) % 256) + y \in {x, x + 256}
      BY <3>1, AddedBack, Zenon
    <3>3. n = x
      BY <3>1, <3>2
    <3> QED
      BY <3>3 DEF n, x
  <2> QED
    BY <1>6, <2>1, <2>4, Names DEF Leaves, LesserPoint
<1>7. CASE /\ reg["PC"] = 266 /\ reg["B"] = (in[1] + 256 - in[2]) % 256
           /\ reg["A"] = in[1]
  <2>1. /\ Leaves(267, {"D"}) /\ reg'["D"] = reg["A"]
    BY <1>0, <1>7, LdFromA, LesserCode, Names
  <2> QED
    BY <1>7, <2>1, Names DEF Leaves, LesserPoint
<1>8. CASE /\ reg["PC"] = 267 /\ reg["B"] = (in[1] + 256 - in[2]) % 256
           /\ reg["D"] = in[1] /\ reg["A"] = in[1]
  <2>1. /\ Leaves(269, {"A", "F"}) /\ reg'["A"] = reg["A"]
        /\ CarryOut' = IF in[1] < in[2] THEN 1 ELSE 0
    BY <1>0, <1>8, CpByte, LesserCode, Names
  <2> QED
    BY <1>8, <2>1, Names DEF Leaves, LesserPoint
<1>9. CASE /\ reg["PC"] = 269 /\ reg["B"] = (in[1] + 256 - in[2]) % 256
           /\ reg["D"] = in[1] /\ reg["A"] = in[1]
           /\ (CarryOut = IF in[1] < in[2] THEN 1 ELSE 0)
  <2>1. Leaves(IF CarryOut = 1 THEN 273 ELSE 271, {})
    BY <1>0, <1>9, Jumps, LesserCode, Names
  <2>2. CASE in[1] < in[2]
    BY <1>9, <2>1, <2>2, Names DEF Leaves, LesserPoint
  <2>3. CASE ~(in[1] < in[2])
    BY <1>9, <2>1, <2>3, Names DEF Leaves, LesserPoint
  <2> QED
    BY <2>2, <2>3
<1>10. CASE /\ reg["PC"] = 271 /\ reg["B"] = (in[1] + 256 - in[2]) % 256
           /\ reg["D"] = in[1] /\ ~(in[1] < in[2])
  <2>1. /\ Leaves(273, {"A"}) /\ reg'["A"] = in[2]
    BY <1>0, <1>10, LdByte, LesserCode, Names
  <2> QED
    BY <1>10, <2>1, Names DEF Leaves, LesserPoint
<1>11. CASE /\ reg["PC"] = 273 /\ reg["B"] = (in[1] + 256 - in[2]) % 256
           /\ reg["D"] = in[1]
           /\ reg["A"] = (IF in[1] < in[2] THEN in[1] ELSE in[2])
  <2>1. /\ critical' /\ cart_data' = cart_data
        /\ \A r \in R8 \cup {"SP"} : reg'[r] = reg[r]
    BY <1>0, <1>11, Ends, LesserCode, Names
  <2> QED
    BY <1>11, <2>1, Names DEF LesserExact
<1> QED
  BY <1>1, <1>2, <1>3, <1>4, <1>5, <1>6, <1>7, <1>8, <1>9, <1>10, <1>11 DEF LesserPoint

-----------------------------------------------------------------------------
(* ADD HL,HL, then a conditional call and two relative jumps.              *)
LEMMA Double16Code ==
  ASSUME NEW in, cart_data = Double16(in)
  PROVE  /\ At3(256, 49, 8, 192) /\ At3(259, 33, in[1], in[2])
         /\ At(262, 41) /\ At2(263, 6, 0) /\ At3(265, 212, 18, 1)
         /\ At2(268, 24, 2) /\ At(270, 118) /\ At2(272, 24, 252)
         /\ At(274, 4) /\ At(275, 201)
         /\ At(1, in[1]) /\ At(2, in[2]) /\ At(3, in[3]) /\ At(4, in[4])
         /\ cart_data[0] = 9
<1> DEFINE code == LdSp \o <<33, in[1], in[2], 41, 6, 0, 212, 18, 1, 24, 2, 118>>
                     \o <<4, 24, 252, 4, 201>>
<1>1. cart_data = Rom(9, in, code)
  BY DEF Double16
<1>2. Len(code) = 20 /\ 20 \in 1 .. 99
  BY DEF LdA, LdSp
<1>3. /\ code[1] = 49 /\ code[2] = 8 /\ code[3] = 192 /\ code[4] = 33
      /\ code[5] = in[1] /\ code[6] = in[2] /\ code[7] = 41 /\ code[8] = 6
      /\ code[9] = 0 /\ code[10] = 212 /\ code[11] = 18 /\ code[12] = 1
      /\ code[13] = 24 /\ code[14] = 2 /\ code[15] = 118
      /\ code[17] = 24 /\ code[18] = 252 /\ code[19] = 4 /\ code[20] = 201
  BY DEF LdA, LdSp
<1> HIDE DEF code
<1>4. Holds(20, 9, in, code)
  BY <1>1, <1>2, RomRead
<1> QED
  BY <1>3, <1>4 DEF Holds, At3, At2

Doubling(in) == HL + 65536 * CarryOut = 2 * WordOf(in[2], in[1])

Double16Point(in) ==
  LET pc == reg["PC"]
  IN  \/ pc = 256
      \/ pc = 259 /\ reg["SP"] = 49160
      \/ pc = 262 /\ reg["SP"] = 49160 /\ HL = WordOf(in[2], in[1])
      \/ pc = 263 /\ reg["SP"] = 49160 /\ Doubling(in)
      \/ pc = 265 /\ reg["SP"] = 49160 /\ Doubling(in) /\ reg["B"] = 0
      \/ pc \in {268, 270, 272} /\ Doubling(in) /\ reg["B"] + CarryOut = 1
      \/ pc = 274 /\ Doubling(in) /\ OnTop(268) /\ reg["B"] = 0
            /\ CarryOut = 0
      \/ pc = 275 /\ Doubling(in) /\ OnTop(268) /\ reg["B"] = 1
            /\ CarryOut = 0

Double16Exact(in) == Doubling(in) /\ reg["B"] + CarryOut = 1

(* Words that the programs build.                                          *)
LEMMA Words ==
  /\ WordOf(192, 8) = 49160 /\ WordOf(1, 15) = 271 /\ WordOf(1, 18) = 274
  /\ WordOf(1, 19) = 275 /\ WordOf(0, 1) = 1 /\ WordOf(192, 0) = 49152 /\ WordOf(0, 0) = 0
  /\ 49160 \in Stack /\ 49158 \in Stack /\ 49156 \in Stack
BY DEF WordOf, Stack

(* What depends on a few registers stays when they do.                     *)
LEMMA Keeps ==
  /\ reg'["F"] = reg["F"] => CarryOut' = CarryOut /\ (Zero' <=> Zero)
  /\ reg'["H"] = reg["H"] /\ reg'["L"] = reg["L"] => HL' = HL
  /\ reg'["D"] = reg["D"] /\ reg'["E"] = reg["E"] => DE' = DE
  /\ reg'["B"] = reg["B"] /\ reg'["C"] = reg["C"] => BC' = BC
  /\ \A v : reg'["SP"] = reg["SP"] /\ frames' = frames /\ OnTop(v) => OnTop(v)'
BY DEF CarryOut, Zero, HL, DE, BC, Pair, OnTop

LEMMA Double16Step ==
  ASSUME NEW in, \A k \in 1 .. 4 : in[k] \in AluByte,
         cart_data = Double16(in), Ready, CpuStep, Double16Point(in)
  PROVE  cart_data' = cart_data /\ IF critical' THEN Double16Exact(in)' ELSE Double16Point(in)'
<1>0. \A p : reg["PC"] = p => Runs(p)
  BY DEF Runs
<1>1. CASE reg["PC"] = 256
  <2>1. /\ Leaves(259, {"SP"}) /\ reg'["SP"] = 49160
    BY <1>0, <1>1, LdSpImm16, Words, Double16Code, Names
  <2> QED
    BY <1>1, <2>1, Names DEF Leaves, Double16Point
<1>2. CASE /\ reg["PC"] = 259 /\ reg["SP"] = 49160
  <2>1. in[1] \in Byte /\ in[2] \in Byte
    BY Bytes
  <2>2. Leaves(262, {"H", "L"}) /\ reg'["H"] = in[2] /\ reg'["L"] = in[1]
    BY <1>0, <1>2, <2>1, LdPair, Double16Code, Names
  <2>3. HL' = WordOf(in[2], in[1])
    BY <2>2 DEF HL, Pair
  <2> QED
    BY <1>2, <2>2, <2>3, Names DEF Leaves, Double16Point
<1>3. CASE /\ reg["PC"] = 262 /\ reg["SP"] = 49160
           /\ HL = WordOf(in[2], in[1])
  <2>1. /\ Leaves(263, {"H", "L", "F"}) /\ HL' + 65536 * CarryOut' = 2 * HL
    BY <1>0, <1>3, Doubled, Double16Code, Names
  <2>2. Doubling(in)'
    BY <1>3, <2>1 DEF Doubling
  <2> QED
    BY <1>3, <2>1, <2>2, Names DEF Leaves, Double16Point
<1>4. CASE /\ reg["PC"] = 263 /\ reg["SP"] = 49160 /\ Doubling(in)
  <2>1. /\ Leaves(265, {"B"}) /\ reg'["B"] = 0
    BY <1>0, <1>4, LdByte, Double16Code, Names
  <2>2. Doubling(in)'
    BY <1>4, <2>1, Keeps, Names DEF Doubling, Leaves
  <2> QED
    BY <1>4, <2>1, <2>2, Names DEF Leaves, Double16Point
<1>5. CASE /\ reg["PC"] = 265 /\ reg["SP"] = 49160 /\ Doubling(in)
           /\ reg["B"] = 0
  <2>1. CASE CarryOut = 0
    <3>1. /\ Leaves(274, {"SP"}) /\ reg'["SP"] = 49158
          /\ [at |-> 49158, word |-> 268] \in frames'
      BY <1>0, <1>5, <2>1, Calls, Words, Double16Code, Names
    <3>2. OnTop(268)'
      BY <3>1, Words DEF OnTop
    <3>3. Doubling(in)' /\ CarryOut' = 0
      BY <1>5, <2>1, <3>1, Keeps, Names DEF Doubling, Leaves
    <3> QED
      BY <1>5, <3>1, <3>2, <3>3, Names DEF Leaves, Double16Point
  <2>2. CASE CarryOut # 0
    <3>1. Leaves(268, {})
      <4>1. /\ Runs(265) /\ 265 \in Code /\ reg["SP"] \in Stack
            /\ At3(265, 212, 18, 1) /\ 265 + 3 = 268
        BY <1>0, <1>5, Words, Double16Code, Names
      <4>2. Leaves(265 + 3, {})
        BY <2>2, <4>1, NoCall
      <4> QED
        BY <4>1, <4>2
    <3>2. Doubling(in)' /\ CarryOut' = 1
      BY <1>5, <2>2, <3>1, HoldBytes, Keeps, Names DEF Doubling, Leaves
    <3> QED
      BY <1>5, <3>1, <3>2, Names DEF Leaves, Double16Point
  <2> QED
    BY <2>1, <2>2
<1>6. CASE /\ reg["PC"] \in {268, 272}
           /\ Doubling(in) /\ reg["B"] + CarryOut = 1
  <2>1. Leaves(IF reg["PC"] = 268 THEN 272 ELSE 270, {})
    <3>1. 2 \in Byte /\ 252 \in Byte /\ 2 < 128 /\ ~(252 < 128)
      BY DEF Byte
    <3>2. CASE reg["PC"] = 268
      <4>1. Leaves(268 + 2 + 2, {})
        BY <1>0, <3>1, <3>2, JumpsAlways, Double16Code, Names
      <4> QED
        BY <3>2, <4>1
    <3>3. CASE reg["PC"] = 272
      <4>1. Leaves(272 + 252 - 254, {})
        BY <1>0, <3>1, <3>3, JumpsAlways, Double16Code, Names
      <4> QED
        BY <3>3, <4>1
    <3> QED
      BY <1>6, <3>2, <3>3
  <2>2. Doubling(in)'
    BY <1>6, <2>1, Keeps, Names DEF Doubling, Leaves
  <2>3. reg'["B"] + CarryOut' = 1
    BY <1>6, <2>1, Keeps, Names DEF Leaves
  <2> QED
    BY <1>6, <2>1, <2>2, <2>3, Names DEF Leaves, Double16Point
<1>7. CASE /\ reg["PC"] = 274 /\ Doubling(in) /\ OnTop(268) /\ reg["B"] = 0
           /\ CarryOut = 0
  <2>1. /\ Leaves(275, {"B", "F"}) /\ Quiet
        /\ reg'["B"] = 1 /\ CarryOut' = CarryOut
    BY <1>0, <1>7, IncByte, Double16Code, Names
  <2>2. OnTop(268)'
    BY <1>7, <2>1, Keeps, Names DEF Leaves, Quiet
  <2>3. Doubling(in)'
    BY <1>7, <2>1, Keeps, Names DEF Doubling, Leaves
  <2> QED
    BY <1>7, <2>1, <2>2, <2>3 DEF Leaves, Double16Point
<1>8. CASE /\ reg["PC"] = 275 /\ Doubling(in) /\ OnTop(268) /\ reg["B"] = 1
           /\ CarryOut = 0
  <2>1. Leaves(268, {"SP"})
    BY <1>0, <1>8, Returns, Double16Code, Names
  <2>2. Doubling(in)'
    BY <1>8, <2>1, Keeps, Names DEF Doubling, Leaves
  <2>3. reg'["B"] + CarryOut' = 1
    BY <1>8, <2>1, Keeps, Names DEF Leaves
  <2> QED
    BY <1>8, <2>1, <2>2, <2>3, Names DEF Leaves, Double16Point
<1>9. CASE /\ reg["PC"] = 270 /\ Doubling(in) /\ reg["B"] + CarryOut = 1
  <2>1. /\ critical' /\ cart_data' = cart_data
        /\ \A r \in R8 \cup {"SP"} : reg'[r] = reg[r]
    BY <1>0, <1>9, Ends, Double16Code, Names
  <2> QED
    BY <1>9, <2>1, Keeps, Names DEF Double16Exact, Doubling
<1> QED
  BY <1>1, <1>2, <1>3, <1>4, <1>5, <1>6, <1>7, <1>8, <1>9 DEF Double16Point

-----------------------------------------------------------------------------
(* A loop of LDI A,(HL); LD (DE),A; INC DE; DEC B; JR NZ.                  *)
LEMMA CopyCode ==
  ASSUME NEW in, cart_data = Copy(in)
  PROVE  /\ At3(256, 33, 1, 0) /\ At3(259, 17, 0, 192) /\ At2(262, 6, 4)
         /\ At(264, 42) /\ At(265, 18) /\ At(266, 19) /\ At(267, 5)
         /\ At2(268, 32, 250) /\ At(270, 118)
         /\ At(1, in[1]) /\ At(2, in[2]) /\ At(3, in[3]) /\ At(4, in[4])
         /\ cart_data[0] = 4
<1> DEFINE code == <<33, 1, 0, 17, 0, 192, 6, 4, 42, 18, 19, 5, 32, 250>>
<1>1. cart_data = Rom(4, in, code)
  BY DEF Copy
<1>2. Len(code) = 14 /\ 14 \in 1 .. 99
  BY DEF LdA, LdSp
<1>3. /\ code[1] = 33 /\ code[2] = 1 /\ code[3] = 0 /\ code[4] = 17
      /\ code[5] = 0 /\ code[6] = 192 /\ code[7] = 6 /\ code[8] = 4
      /\ code[9] = 42 /\ code[10] = 18 /\ code[11] = 19 /\ code[12] = 5
      /\ code[13] = 32 /\ code[14] = 250
  BY DEF LdA, LdSp
<1> HIDE DEF code
<1>4. Holds(14, 4, in, code)
  BY <1>1, <1>2, RomRead
<1> QED
  BY <1>3, <1>4 DEF Holds, At3, At2

(* The first n inputs are in WRAM.                                         *)
Copied(in, n) == \A i \in 0 .. 3 : i < n => ram[Cell(49152 + i)] = in[i + 1]

(* HL is past the first source inputs, DE in WRAM, and left remain.        *)
Copying(source, left) ==
  /\ reg["H"] = 0 /\ reg["L"] = 1 + source
  /\ reg["D"] = 192 /\ reg["B"] = left

CopyPoint(in) ==
  LET pc == reg["PC"]
      e == reg["E"]
  IN  \/ pc = 256
      \/ pc = 259 /\ reg["H"] = 0 /\ reg["L"] = 1
      \/ pc = 262 /\ reg["H"] = 0 /\ reg["L"] = 1 /\ reg["D"] = 192 /\ e = 0
      \/ pc = 264 /\ e \in 0 .. 3 /\ Copying(e, 4 - e) /\ Copied(in, e)
      \/ pc = 265 /\ e \in 0 .. 3 /\ Copying(e + 1, 4 - e) /\ Copied(in, e)
            /\ reg["A"] = in[e + 1]
      \/ pc = 266 /\ e \in 0 .. 3 /\ Copying(e + 1, 4 - e) /\ Copied(in, e + 1)
      \/ pc = 267 /\ e \in 1 .. 4 /\ Copying(e, 5 - e) /\ Copied(in, e)
      \/ pc = 268 /\ e \in 1 .. 4 /\ Copying(e, 4 - e) /\ Copied(in, e)
            /\ (Zero <=> reg["B"] = 0)
      \/ pc = 270 /\ Copied(in, 4)

CopyExact(in) == Copied(in, 4)

(* Small sums of bytes and words.                                          *)
LEMMA SmallNumbers ==
  /\ \A b \in 1 .. 255 : (b + 255) % 256 = b - 1
  /\ \A n \in 0 .. 9 : /\ WordOf(0, n) = n /\ Up(n) = n + 1 /\ Hi(n) = 0 /\ Lo(n) = n
                        /\ WordOf(192, n) = 49152 + n
                        /\ Hi(49152 + n) = 192 /\ Lo(49152 + n) = n
BY DEF WordOf, Up, Hi, Lo

LEMMA CopyTarget == \A i \in 0 .. 3 : 49152 + i \in Word /\ IsRam(49152 + i)
<1>1. \A i \in 0 .. 3 : 49152 + i \in Stack
  BY DEF Stack
<1>2. \A w \in Stack : w \in Word
  <2>1. \A w \in Stack : w \in Nat /\ w <= 65535
    BY DEF Stack
  <2> QED
    BY <2>1, WordIs
<1> QED
  BY <1>1, <1>2, UpAndDown

LEMMA CopyStores ==
  ASSUME NEW in, Ready, NEW n \in 0 .. 3, Copied(in, n), DE = 49152 + n, reg["A"] = in[n + 1],
         ram' = RamAfter(ram, DE, reg["A"])
  PROVE  Copied(in, n + 1)'
<1>1. \A i \in 0 .. 3 : 49152 + i \in Word /\ IsRam(49152 + i)
  BY CopyTarget
<1>2. ram \in [Cells -> Byte] /\ Address = Word
  BY DEF Ready, CpuInv, MemoryOK, BusTypeOK
<1>3. ram'[Cell(49152 + n)] = in[n + 1]
  <2>1. 49152 + n \in Word /\ IsRam(49152 + n)
    BY <1>1
  <2>2. RamAfter(ram, 49152 + n, reg["A"])[Cell(49152 + n)] = reg["A"]
    BY <1>2, <2>1, CellWritten
  <2> QED
    BY <2>2
<1>4. ASSUME NEW i \in 0 .. 3, i < n
      PROVE  ram'[Cell(49152 + i)] = in[i + 1]
  <2>1. /\ 49152 + n \in Word /\ 49152 + i \in Word /\ IsRam(49152 + i)
        /\ 49152 + n # 49152 + i
    BY <1>1, <1>4
  <2>2. RamAfter(ram, 49152 + n, reg["A"])[Cell(49152 + i)] = ram[Cell(49152 + i)]
    BY <2>1, OtherCellsKept
  <2>3. ram[Cell(49152 + i)] = in[i + 1]
    BY <1>4 DEF Copied
  <2> QED
    BY <2>2, <2>3
<1>5. \A i \in 0 .. 3 : i < n + 1 => i < n \/ i = n
  OBVIOUS
<1> QED
  BY <1>3, <1>4, <1>5 DEF Copied

LEMMA CopyStep ==
  ASSUME NEW in, \A k \in 1 .. 4 : in[k] \in AluByte,
         cart_data = Copy(in), Ready, CpuStep, CopyPoint(in)
  PROVE  cart_data' = cart_data /\ IF critical' THEN CopyExact(in)' ELSE CopyPoint(in)'
<1>0. \A p : reg["PC"] = p => Runs(p)
  BY DEF Runs
<1>1. CASE reg["PC"] = 256
  <2>0. 0 \in Byte /\ 1 \in Byte
    BY DEF Byte
  <2>1. Leaves(259, {"H", "L"}) /\ reg'["H"] = 0 /\ reg'["L"] = 1
    BY <1>0, <1>1, <2>0, LdPair, CopyCode, Names
  <2> QED
    BY <2>1 DEF Leaves, CopyPoint
<1>2. CASE reg["PC"] = 259 /\ reg["H"] = 0 /\ reg["L"] = 1
  <2>0. 0 \in Byte /\ 192 \in Byte
    BY DEF Byte
  <2>1. Leaves(262, {"D", "E"}) /\ reg'["D"] = 192 /\ reg'["E"] = 0
    BY <1>0, <1>2, <2>0, LdPair, CopyCode, Names
  <2> QED
    BY <1>2, <2>1, Names DEF Leaves, CopyPoint
<1>3. CASE /\ reg["PC"] = 262 /\ reg["H"] = 0 /\ reg["L"] = 1 /\ reg["D"] = 192
           /\ reg["E"] = 0
  <2>1. Leaves(264, {"B"}) /\ reg'["B"] = 4
    BY <1>0, <1>3, LdByte, CopyCode, Names
  <2>2. Copied(in, 0)'
    BY DEF Copied
  <2>3. Copying(0, 4)' /\ reg'["E"] = 0
    BY <1>3, <2>1, Names DEF Leaves, Copying
  <2> QED
    BY <2>1, <2>2, <2>3 DEF Leaves, CopyPoint
<1>4. CASE /\ reg["PC"] = 264 /\ reg["E"] \in 0 .. 3 /\ Copying(reg["E"], 4 - reg["E"])
           /\ Copied(in, reg["E"])
  <2>0. PICK e \in 0 .. 3 : e = reg["E"]
    BY <1>4
  <2>1. HL = 1 + e
    BY <1>4, <2>0, SmallNumbers DEF HL, Pair, Copying
  <2>2. At(1 + e, in[1 + e])
    <3>1. \A k \in 1 .. 4 : At(k, in[k])
      BY CopyCode
    <3> QED
      BY <1>4, <2>0, <3>1
  <2>3. /\ Leaves(265, {"A", "H", "L"}) /\ Quiet
        /\ reg'["A"] = in[1 + e] /\ reg'["H"] = Hi(Up(1 + e)) /\ reg'["L"] = Lo(Up(1 + e))
    BY <1>0, <1>4, <2>0, <2>1, <2>2, LdiA, CopyCode, Names
  <2>4. Hi(Up(1 + e)) = 0 /\ Lo(Up(1 + e)) = 2 + e /\ 1 + e = e + 1
    BY <1>4, <2>0, SmallNumbers
  <2>5. reg'["E"] = e /\ Copying(e + 1, 4 - e)'
    BY <1>4, <2>0, <2>3, <2>4, Names DEF Leaves, Copying
  <2>6. Copied(in, e)'
    BY <1>4, <2>0, <2>3, <2>5 DEF Copied, Quiet
  <2> QED
    BY <1>4, <2>0, <2>3, <2>4, <2>5, <2>6 DEF Leaves, CopyPoint
<1>5. CASE /\ reg["PC"] = 265 /\ reg["E"] \in 0 .. 3 /\ Copying(reg["E"] + 1, 4 - reg["E"])
           /\ Copied(in, reg["E"]) /\ reg["A"] = in[reg["E"] + 1]
  <2>0. PICK e \in 0 .. 3 : e = reg["E"]
    BY <1>5
  <2>1. Leaves(266, {}) /\ ram' = RamAfter(ram, DE, reg["A"])
    BY <1>0, <1>5, <2>0, LdDeA, CopyCode, Names
  <2>2. DE = 49152 + e
    BY <1>5, <2>0, SmallNumbers DEF DE, Pair, Copying
  <2>3. Copied(in, e + 1)'
    <3>1. Copied(in, e) /\ reg["A"] = in[e + 1]
      BY <1>5, <2>0
    <3> QED
      BY <2>1, <2>2, <3>1, CopyStores
  <2>4. reg'["E"] = e /\ Copying(e + 1, 4 - e)'
    BY <1>5, <2>0, <2>1, Names DEF Leaves, Copying
  <2> QED
    BY <1>5, <2>0, <2>1, <2>3, <2>4 DEF Leaves, CopyPoint, Copied
<1>6. CASE /\ reg["PC"] = 266 /\ reg["E"] \in 0 .. 3 /\ Copying(reg["E"] + 1, 4 - reg["E"])
           /\ Copied(in, reg["E"] + 1)
  <2>0. PICK e \in 0 .. 3 : e = reg["E"]
    BY <1>6
  <2>1. DE = 49152 + e /\ 49152 + e < 65535 /\ 49152 + e + 1 = 49152 + (e + 1)
        /\ e + 1 \in 1 .. 4 /\ 4 - e = 5 - (e + 1)
    BY <1>6, <2>0, SmallNumbers DEF DE, Pair, Copying
  <2>2. /\ Leaves(267, {"D", "E"}) /\ Quiet
        /\ reg'["D"] = Hi(49152 + (e + 1)) /\ reg'["E"] = Lo(49152 + (e + 1))
    BY <1>0, <1>6, <2>0, <2>1, NextDE, CopyCode, Names
  <2>3. reg'["D"] = 192 /\ reg'["E"] = e + 1
    BY <1>6, <2>0, <2>2, SmallNumbers
  <2>4. Copying(e + 1, 5 - (e + 1))' /\ Copied(in, e + 1)'
    BY <1>6, <2>0, <2>1, <2>2, <2>3, Names DEF Leaves, Copying, Copied, Quiet
  <2> QED
    BY <2>0, <2>1, <2>2, <2>3, <2>4 DEF Leaves, CopyPoint
<1>7. CASE /\ reg["PC"] = 267 /\ reg["E"] \in 1 .. 4 /\ Copying(reg["E"], 5 - reg["E"])
           /\ Copied(in, reg["E"])
  <2>0. PICK e \in 1 .. 4 : e = reg["E"]
    BY <1>7
  <2>1. /\ Leaves(268, {"B", "F"}) /\ Quiet
        /\ reg'["B"] = (reg["B"] + 255) % 256 /\ (Zero' <=> reg'["B"] = 0)
    BY <1>0, <1>7, <2>0, DecByte, CopyCode, Names
  <2>2. reg'["B"] = 4 - e
    BY <1>7, <2>0, <2>1, SmallNumbers DEF Copying
  <2>3. reg'["E"] = e /\ Copying(e, 4 - e)' /\ Copied(in, e)'
    BY <1>7, <2>0, <2>1, <2>2, Names DEF Leaves, Copying, Copied, Quiet
  <2> QED
    BY <1>7, <2>0, <2>1, <2>3 DEF Leaves, CopyPoint
<1>8. CASE /\ reg["PC"] = 268 /\ reg["E"] \in 1 .. 4 /\ Copying(reg["E"], 4 - reg["E"])
           /\ Copied(in, reg["E"]) /\ (Zero <=> reg["B"] = 0)
  <2>0. PICK e \in 1 .. 4 : e = reg["E"]
    BY <1>8
  <2>1. Quiet /\ Leaves(IF Zero THEN 270 ELSE 264, {})
    BY <1>0, <1>8, <2>0, Jumps, CopyCode, Names
  <2>2. reg'["E"] = e /\ Copying(e, 4 - e)' /\ Copied(in, e)'
    BY <1>8, <2>0, <2>1, Names DEF Leaves, Copying, Copied, Quiet
  <2>3. IF Zero THEN e = 4 ELSE e \in 0 .. 3
    BY <1>8, <2>0 DEF Copying
  <2>4. CASE Zero
    BY <2>0, <2>1, <2>2, <2>3, <2>4 DEF Leaves, CopyPoint
  <2>5. CASE ~Zero
    BY <2>0, <2>1, <2>2, <2>3, <2>5 DEF Leaves, CopyPoint
  <2> QED
    BY <2>4, <2>5
<1>9. CASE reg["PC"] = 270 /\ Copied(in, 4)
  <2>1. critical' /\ cart_data' = cart_data /\ Quiet
    BY <1>0, <1>9, Ends, CopyCode, Names
  <2> QED
    BY <1>9, <2>1 DEF CopyExact, Copied, Quiet
<1> QED
  BY <1>1, <1>2, <1>3, <1>4, <1>5, <1>6, <1>7, <1>8, <1>9 DEF CopyPoint

-----------------------------------------------------------------------------
(* Eight calls of a routine that shifts a bit out of B and counts it.      *)
LEMMA CountBitsCode ==
  ASSUME NEW in, cart_data = CountBits(in)
  PROVE  /\ At3(256, 49, 8, 192) /\ At3(259, 250, 1, 0) /\ At(262, 71)
         /\ At3(263, 17, 0, 0) /\ At2(266, 14, 8) /\ At3(268, 205, 19, 1)
         /\ At(271, 13) /\ At2(272, 32, 250) /\ At(274, 118)
         /\ At2(275, 203, 56) /\ At(277, 208) /\ At(278, 28)
         /\ At(279, 201) /\ At(280, 118)
         /\ At(1, in[1]) /\ At(2, in[2]) /\ At(3, in[3]) /\ At(4, in[4])
         /\ cart_data[0] = 8
<1> DEFINE code == LdSp \o LdA(1) \o <<71, 17, 0, 0, 14, 8, 205, 19, 1, 13, 32, 250, 118,
                                       203, 56, 208, 28, 201>>
<1>1. cart_data = Rom(8, in, code)
  BY DEF CountBits
<1>2. Len(code) = 24 /\ 24 \in 1 .. 99
  BY DEF LdA, LdSp
<1>3. /\ code[1] = 49 /\ code[2] = 8 /\ code[3] = 192 /\ code[4] = 250
      /\ code[5] = 1 /\ code[6] = 0 /\ code[7] = 71 /\ code[8] = 17
      /\ code[9] = 0 /\ code[10] = 0 /\ code[11] = 14 /\ code[12] = 8
      /\ code[13] = 205 /\ code[14] = 19 /\ code[15] = 1 /\ code[16] = 13
      /\ code[17] = 32 /\ code[18] = 250 /\ code[19] = 118 /\ code[20] = 203
      /\ code[21] = 56 /\ code[22] = 208 /\ code[23] = 28 /\ code[24] = 201
  BY DEF LdA, LdSp
<1> HIDE DEF code
<1>4. Holds(24, 8, in, code)
  BY <1>1, <1>2, RomRead
<1> QED
  BY <1>3, <1>4 DEF Holds, At3, At2

(* c bits are left in a byte that is less than Below(c).                   *)
Below(c) == <<1, 2, 4, 8, 16, 32, 64, 128, 256>>[c + 1]

(* The bits counted, those left in B and the one in flight are the bits    *)
(* of the input.                                                           *)
Counted(in, flight) == reg["E"] + (Bits(reg["B"]) + flight) = Bits(in[1])

CountBitsPoint(in) ==
  LET pc == reg["PC"]
      c == reg["C"]
      Outer == reg["SP"] = 49160 /\ Counted(in, 0)
      Inner == reg["SP"] = 49158 /\ OnTop(271) /\ c \in 1 .. 8
  IN  \/ pc = 256
      \/ pc = 259 /\ reg["SP"] = 49160
      \/ pc = 262 /\ reg["SP"] = 49160 /\ reg["A"] = in[1]
      \/ pc = 263 /\ reg["SP"] = 49160 /\ reg["B"] = in[1]
      \/ pc = 266 /\ Outer /\ reg["B"] = in[1]
      \/ pc = 268 /\ Outer /\ c \in 1 .. 8 /\ reg["B"] < Below(c)
      \/ pc = 271 /\ Outer /\ c \in 1 .. 8 /\ reg["B"] < Below(c - 1)
      \/ pc = 272 /\ Outer /\ c \in 0 .. 7 /\ reg["B"] < Below(c) /\ (Zero <=> c = 0)
      \/ pc = 274 /\ reg["SP"] = 49160 /\ reg["E"] = Bits(in[1])
      \/ pc = 275 /\ Inner /\ Counted(in, 0) /\ reg["B"] < Below(c)
      \/ pc = 277 /\ Inner /\ Counted(in, CarryOut) /\ reg["B"] < Below(c - 1)
      \/ pc = 278 /\ Inner /\ Counted(in, 1) /\ reg["B"] < Below(c - 1)
      \/ pc = 279 /\ Inner /\ Counted(in, 0) /\ reg["B"] < Below(c - 1)

CountBitsExact(in) == reg["E"] = Bits(in[1]) /\ reg["SP"] = 49160

LEMMA BitsAreFew == \A b \in AluByte : Bits(b) \in 0 .. 8
<1>1. \A b \in AluByte, w \in {1, 2, 4, 8, 16, 32, 64, 128} : Bit(b, w) \in {0, 1}
  BY BitIsBit
<1> QED
  BY <1>1 DEF Bits

LEMMA BitShiftedOut ==
  ASSUME NEW b \in AluByte
  PROVE  b \div 2 \in AluByte /\ Bits(b) = Bits(b \div 2) + (b % 2)
<1>1. b \in 0 .. 255
  BY DEF AluByte
<1>2. b \div 2 \in AluByte
  BY <1>1 DEF AluByte
<1>3. /\ Bit(b \div 2, 1) = Bit(b, 2) /\ Bit(b \div 2, 2) = Bit(b, 4)
      /\ Bit(b \div 2, 4) = Bit(b, 8) /\ Bit(b \div 2, 8) = Bit(b, 16)
      /\ Bit(b \div 2, 16) = Bit(b, 32) /\ Bit(b \div 2, 32) = Bit(b, 64)
      /\ Bit(b \div 2, 64) = Bit(b, 128) /\ Bit(b \div 2, 128) = 0
      /\ Bit(b, 1) = b % 2
  BY <1>1 DEF Bit
<1>4. \A w \in {1, 2, 4, 8, 16, 32, 64, 128} : Bit(b, w) \in {0, 1}
  BY BitIsBit
<1> QED
  BY <1>2, <1>3, <1>4 DEF Bits

LEMMA BelowHalved ==
  /\ \A c \in 1 .. 8 : \A b \in Nat : b < Below(c) => b \div 2 < Below(c - 1)
  /\ \A b \in Nat : b < Below(0) => b = 0
  /\ \A b \in AluByte : b < Below(8)
<1>1. /\ Below(0) = 1 /\ Below(1) = 2 /\ Below(2) = 4 /\ Below(3) = 8 /\ Below(4) = 16
      /\ Below(5) = 32 /\ Below(6) = 64 /\ Below(7) = 128 /\ Below(8) = 256
  BY DEF Below
<1>2. ASSUME NEW c \in 1 .. 8
      PROVE  Below(c - 1) \in Nat /\ Below(c) = 2 * Below(c - 1)
  <2>1. c \in {1, 2, 3, 4, 5, 6, 7, 8}
    OBVIOUS
  <2> QED
    BY <1>1, <2>1
<1>3. \A m, b \in Nat : b < 2 * m => b \div 2 < m
  OBVIOUS
<1> QED
  BY <1>1, <1>2, <1>3 DEF AluByte

LEMMA BitsOfZero == Bits(0) = 0
BY DEF Bits, Bit

LEMMA CountBitsStep ==
  ASSUME NEW in, \A k \in 1 .. 4 : in[k] \in AluByte,
         cart_data = CountBits(in), Ready, CpuStep, CountBitsPoint(in)
  PROVE  cart_data' = cart_data /\ IF critical' THEN CountBitsExact(in)' ELSE CountBitsPoint(in)'
<1>0. \A p : reg["PC"] = p => Runs(p)
  BY DEF Runs
<1>1. CASE reg["PC"] = 256
  <2>1. /\ Leaves(259, {"SP"}) /\ reg'["SP"] = 49160
    BY <1>0, <1>1, LdSpImm16, Words, CountBitsCode, Names
  <2> QED
    BY <1>1, <2>1, Names DEF Leaves, CountBitsPoint
<1>2. CASE /\ reg["PC"] = 259 /\ reg["SP"] = 49160
  <2>1. /\ Leaves(262, {"A"}) /\ reg'["A"] = in[1]
    BY <1>0, <1>2, LdAAt, CountBitsCode, Names
  <2> QED
    BY <1>2, <2>1, Names DEF Leaves, CountBitsPoint
<1>3. CASE /\ reg["PC"] = 262 /\ reg["SP"] = 49160 /\ reg["A"] = in[1]
  <2>1. /\ Leaves(263, {"B"}) /\ reg'["B"] = reg["A"]
    BY <1>0, <1>3, LdFromA, CountBitsCode, Names
  <2> QED
    BY <1>3, <2>1, Names DEF Leaves, CountBitsPoint
<1>4. CASE /\ reg["PC"] = 263 /\ reg["SP"] = 49160 /\ reg["B"] = in[1]
  <2>0. 0 \in Byte
    BY DEF Byte
  <2>1. Leaves(266, {"D", "E"}) /\ reg'["E"] = 0
    BY <1>0, <1>4, <2>0, LdPair, CountBitsCode, Names
  <2>2. reg'["SP"] = 49160 /\ reg'["B"] = in[1]
    BY <1>4, <2>1, Names DEF Leaves
  <2>3. Bits(in[1]) \in 0 .. 8
    BY BitsAreFew
  <2>4. Counted(in, 0)'
    BY <2>1, <2>2, <2>3 DEF Counted
  <2> QED
    BY <2>1, <2>2, <2>4 DEF Leaves, CountBitsPoint
<1>5. CASE /\ reg["PC"] = 266 /\ reg["SP"] = 49160 /\ Counted(in, 0) /\ reg["B"] = in[1]
  <2>1. Leaves(268, {"C"}) /\ reg'["C"] = 8
    BY <1>0, <1>5, LdByte, CountBitsCode, Names
  <2>2. /\ reg'["SP"] = 49160 /\ reg'["B"] = in[1] /\ reg'["B"] = reg["B"]
        /\ reg'["E"] = reg["E"]
    BY <1>5, <2>1, Names DEF Leaves
  <2>3. Counted(in, 0)' /\ reg'["B"] < Below(8)
    BY <1>5, <2>2, BelowHalved DEF Counted
  <2> QED
    BY <2>1, <2>2, <2>3 DEF Leaves, CountBitsPoint
<1>6. CASE /\ reg["PC"] = 268 /\ reg["SP"] = 49160 /\ Counted(in, 0)
           /\ reg["C"] \in 1 .. 8 /\ reg["B"] < Below(reg["C"])
  <2>1. /\ Leaves(275, {"SP"}) /\ reg'["SP"] = 49158
        /\ [at |-> 49158, word |-> 271] \in frames'
    BY <1>0, <1>6, Calls, Words, CountBitsCode, Names
  <2>2. OnTop(271)'
    BY <2>1, Words DEF OnTop
  <2>3. reg'["B"] = reg["B"] /\ reg'["C"] = reg["C"] /\ reg'["E"] = reg["E"]
    BY <2>1, Names DEF Leaves
  <2>4. Counted(in, 0)'
    BY <1>6, <2>3 DEF Counted
  <2> QED
    BY <1>6, <2>1, <2>2, <2>3, <2>4 DEF Leaves, CountBitsPoint
<1>7. CASE /\ reg["PC"] = 271 /\ reg["SP"] = 49160 /\ Counted(in, 0)
           /\ reg["C"] \in 1 .. 8 /\ reg["B"] < Below(reg["C"] - 1)
  <2>1. /\ Leaves(272, {"C", "F"})
        /\ reg'["C"] = (reg["C"] + 255) % 256 /\ (Zero' <=> reg'["C"] = 0)
    BY <1>0, <1>7, DecByte, CountBitsCode, Names
  <2>2. reg'["C"] = reg["C"] - 1 /\ reg["C"] - 1 \in 0 .. 7
    BY <1>7, <2>1, SmallNumbers
  <2>3. reg'["B"] = reg["B"] /\ reg'["SP"] = reg["SP"] /\ reg'["E"] = reg["E"]
    BY <2>1, Names DEF Leaves
  <2>4. Counted(in, 0)'
    BY <1>7, <2>3 DEF Counted
  <2> QED
    BY <1>7, <2>1, <2>2, <2>3, <2>4 DEF Leaves, CountBitsPoint
<1>8. CASE /\ reg["PC"] = 272 /\ reg["SP"] = 49160 /\ Counted(in, 0)
           /\ reg["C"] \in 0 .. 7 /\ reg["B"] < Below(reg["C"]) /\ (Zero <=> reg["C"] = 0)
  <2>1. Leaves(IF Zero THEN 274 ELSE 268, {})
    BY <1>0, <1>8, Jumps, CountBitsCode, Names
  <2>2. /\ reg'["B"] = reg["B"] /\ reg'["SP"] = reg["SP"] /\ reg'["E"] = reg["E"]
        /\ reg'["C"] = reg["C"]
    BY <2>1, Names DEF Leaves
  <2>3. CASE Zero
    <3>1. reg["B"] = 0 /\ reg["E"] \in Nat
      BY <1>8, <2>3, HoldBytes, Names, BelowHalved
    <3>2. reg["E"] = Bits(in[1])
      BY <1>8, <3>1, BitsOfZero DEF Counted
    <3> QED
      BY <1>8, <2>1, <2>2, <2>3, <3>2 DEF Leaves, CountBitsPoint
  <2>4. CASE ~Zero
    <3>1. Counted(in, 0)' /\ reg["C"] \in 1 .. 8
      BY <1>8, <2>2, <2>4 DEF Counted
    <3> QED
      BY <1>8, <2>1, <2>2, <2>4, <3>1 DEF Leaves, CountBitsPoint
  <2> QED
    BY <2>3, <2>4
<1>9. CASE reg["PC"] = 274 /\ reg["SP"] = 49160 /\ reg["E"] = Bits(in[1])
  <2>1. critical' /\ cart_data' = cart_data /\ reg'["E"] = reg["E"] /\ reg'["SP"] = reg["SP"]
    BY <1>0, <1>9, Ends, CountBitsCode, Names
  <2> QED
    BY <1>9, <2>1 DEF CountBitsExact
<1>10. CASE /\ reg["PC"] = 275 /\ reg["SP"] = 49158 /\ OnTop(271) /\ reg["C"] \in 1 .. 8
            /\ Counted(in, 0) /\ reg["B"] < Below(reg["C"])
  <2>1. /\ Leaves(277, {"B", "F"}) /\ Quiet
        /\ reg'["B"] = reg["B"] \div 2 /\ CarryOut' = reg["B"] % 2
    BY <1>0, <1>10, SrlB, CountBitsCode, Names
  <2>2. reg'["C"] = reg["C"] /\ reg'["SP"] = reg["SP"] /\ reg'["E"] = reg["E"]
    BY <2>1, Names DEF Leaves
  <2>3. OnTop(271)'
    BY <1>10, <2>1, <2>2, Keeps DEF Quiet
  <2>4. reg'["B"] < Below(reg["C"] - 1)
    BY <1>10, <2>1, BelowHalved, HoldBytes, Names
  <2>5. Counted(in, CarryOut)'
    <3>1. Bits(reg["B"]) = Bits(reg["B"] \div 2) + (reg["B"] % 2)
      BY BitShiftedOut, HoldBytes, Names
    <3>2. Bits(reg["B"]) + 0 = Bits(reg["B"])
      BY BitsAreFew, HoldBytes, Names
    <3> QED
      BY <1>10, <2>1, <2>2, <3>1, <3>2 DEF Counted
  <2> QED
    BY <1>10, <2>1, <2>2, <2>3, <2>4, <2>5 DEF Leaves, CountBitsPoint
<1>11. CASE /\ reg["PC"] = 277 /\ reg["SP"] = 49158 /\ OnTop(271) /\ reg["C"] \in 1 .. 8
            /\ Counted(in, CarryOut) /\ reg["B"] < Below(reg["C"] - 1)
  <2>1. CASE CarryOut = 0
    <3>1. Leaves(271, {"SP"}) /\ reg'["SP"] = 49160
      BY <1>0, <1>11, <2>1, Returns, CountBitsCode, Names
    <3>2. reg'["B"] = reg["B"] /\ reg'["C"] = reg["C"] /\ reg'["E"] = reg["E"]
      BY <3>1, Names DEF Leaves
    <3>3. Counted(in, 0)'
      BY <1>11, <2>1, <3>2 DEF Counted
    <3> QED
      BY <1>11, <3>1, <3>2, <3>3 DEF Leaves, CountBitsPoint
  <2>2. CASE CarryOut # 0
    <3>1. Leaves(278, {}) /\ Quiet
      BY <1>0, <1>11, <2>2, Returns, CountBitsCode, Names
    <3>2. /\ reg'["B"] = reg["B"] /\ reg'["C"] = reg["C"] /\ reg'["E"] = reg["E"]
          /\ reg'["SP"] = reg["SP"]
      BY <3>1, Names DEF Leaves
    <3>3. Counted(in, 1)' /\ OnTop(271)'
      BY <1>11, <2>2, <3>1, <3>2, HoldBytes, Keeps DEF Counted, Quiet
    <3> QED
      BY <1>11, <3>1, <3>2, <3>3 DEF Leaves, CountBitsPoint
  <2> QED
    BY <2>1, <2>2
<1>12. CASE /\ reg["PC"] = 278 /\ reg["SP"] = 49158 /\ OnTop(271) /\ reg["C"] \in 1 .. 8
            /\ Counted(in, 1) /\ reg["B"] < Below(reg["C"] - 1)
  <2>1. /\ Leaves(279, {"E", "F"}) /\ Quiet
        /\ reg'["E"] = (reg["E"] + 1) % 256
    BY <1>0, <1>12, IncByte, CountBitsCode, Names
  <2>2. reg'["C"] = reg["C"] /\ reg'["SP"] = reg["SP"] /\ reg'["B"] = reg["B"]
    BY <2>1, Names DEF Leaves
  <2>3. OnTop(271)'
    BY <1>12, <2>1, <2>2, Keeps DEF Quiet
  <2>4. Counted(in, 0)'
    <3>1. Bits(reg["B"]) \in 0 .. 8 /\ Bits(in[1]) \in 0 .. 8 /\ reg["E"] \in Nat
      BY BitsAreFew, HoldBytes, Names
    <3>2. \A n, b \in Nat : n + (b + 1) <= 8 =>
            (n + 1) % 256 = n + 1 /\ (n + 1) + (b + 0) = n + (b + 1)
      OBVIOUS
    <3>3. reg["E"] + (Bits(reg["B"]) + 1) <= 8
      BY <1>12, <3>1 DEF Counted
    <3>4. /\ (reg["E"] + 1) % 256 = reg["E"] + 1
          /\ (reg["E"] + 1) + (Bits(reg["B"]) + 0) = reg["E"] + (Bits(reg["B"]) + 1)
      BY <3>1, <3>2, <3>3
    <3> QED
      BY <1>12, <2>1, <2>2, <3>4 DEF Counted
  <2> QED
    BY <1>12, <2>1, <2>2, <2>3, <2>4 DEF Leaves, CountBitsPoint
<1>13. CASE /\ reg["PC"] = 279 /\ reg["SP"] = 49158 /\ OnTop(271) /\ reg["C"] \in 1 .. 8
            /\ Counted(in, 0) /\ reg["B"] < Below(reg["C"] - 1)
  <2>1. Leaves(271, {"SP"}) /\ reg'["SP"] = 49160
    BY <1>0, <1>13, Returns, CountBitsCode, Names
  <2>2. reg'["B"] = reg["B"] /\ reg'["C"] = reg["C"] /\ reg'["E"] = reg["E"]
    BY <2>1, Names DEF Leaves
  <2>3. Counted(in, 0)'
    BY <1>13, <2>2 DEF Counted
  <2> QED
    BY <1>13, <2>1, <2>2, <2>3 DEF Leaves, CountBitsPoint
<1> QED
  BY <1>1, <1>2, <1>3, <1>4, <1>5, <1>6, <1>7, <1>8, <1>9, <1>10, <1>11, <1>12, <1>13 DEF CountBitsPoint

-----------------------------------------------------------------------------
(* A loop of calls of a loop, which saves its caller's counter.            *)
Factor(x) == 1 + (x % 4)
LEMMA MultiplyCode ==
  ASSUME NEW in, cart_data = Multiply(in)
  PROVE  /\ At3(256, 49, 8, 192) /\ At3(259, 17, 0, 0)
         /\ At2(262, 6, Factor(in[1])) /\ At3(264, 205, 15, 1)
         /\ At(267, 5) /\ At2(268, 32, 250) /\ At(270, 118) /\ At(271, 197)
         /\ At2(272, 6, Factor(in[2])) /\ At(274, 19) /\ At(275, 5)
         /\ At2(276, 32, 252) /\ At(278, 193) /\ At(279, 201)
         /\ At(280, 118)
         /\ At(1, in[1]) /\ At(2, in[2]) /\ At(3, in[3]) /\ At(4, in[4])
         /\ cart_data[0] = 5
<1> DEFINE code == LdSp \o <<17, 0, 0, 6, 1 + (in[1] % 4), 205, 15, 1, 5, 32, 250, 118,
                       197, 6, 1 + (in[2] % 4), 19, 5, 32, 252, 193, 201>>
<1>1. cart_data = Rom(5, in, code)
  BY DEF Multiply
<1>2. Len(code) = 24 /\ 24 \in 1 .. 99
  BY DEF LdA, LdSp
<1>3. /\ code[1] = 49 /\ code[2] = 8 /\ code[3] = 192 /\ code[4] = 17
      /\ code[5] = 0 /\ code[6] = 0 /\ code[7] = 6 /\ code[8] = 1 + (in[1] % 4)
      /\ code[9] = 205 /\ code[10] = 15 /\ code[11] = 1 /\ code[12] = 5
      /\ code[13] = 32 /\ code[14] = 250 /\ code[15] = 118 /\ code[16] = 197
      /\ code[17] = 6 /\ code[18] = 1 + (in[2] % 4) /\ code[19] = 19 /\ code[20] = 5
      /\ code[21] = 32 /\ code[22] = 252 /\ code[23] = 193 /\ code[24] = 201
  BY DEF LdA, LdSp
<1> HIDE DEF code
<1>4. Holds(24, 5, in, code)
  BY <1>1, <1>2, RomRead
<1> QED
  BY <1>3, <1>4 DEF Holds, At3, At2, Factor

(* What has been added up when the outer counter is b.                     *)
Upto(in, b) == (Factor(in[1]) - b) * Factor(in[2])

(* The routine's frame: the counters it saved and its return address.      *)
Saved(b) ==
  /\ reg["SP"] = 49156
  /\ [at |-> 49156, word |-> WordOf(b, reg["C"])] \in frames
  /\ [at |-> 49158, word |-> 267] \in frames

Called == reg["SP"] = 49158 /\ [at |-> 49158, word |-> 267] \in frames

(* The outer loop in its round s, and the inner one in its round t.        *)
MultiplyOuter(in, s) ==
  LET pc == reg["PC"]
      top == reg["SP"] = 49160
  IN  \/ pc = 264 /\ top /\ reg["B"] = s /\ DE = Upto(in, s)
      \/ pc = 267 /\ top /\ reg["B"] = s /\ DE = Upto(in, s - 1)
      \/ pc = 268 /\ top /\ reg["B"] = s - 1 /\ DE = Upto(in, s - 1) /\ (Zero <=> s = 1)
      \/ pc = 271 /\ Called /\ reg["B"] = s /\ DE = Upto(in, s)
      \/ pc = 272 /\ Saved(s) /\ DE = Upto(in, s)
      \/ pc = 278 /\ Saved(s) /\ DE = Upto(in, s - 1)
      \/ pc = 279 /\ Called /\ reg["B"] = s /\ DE = Upto(in, s - 1)

MultiplyInner(in, s, t) ==
  LET pc == reg["PC"]
  IN  /\ Saved(s)
      /\ \/ pc = 274 /\ reg["B"] = t /\ DE + t = Upto(in, s - 1)
         \/ pc = 275 /\ reg["B"] = t /\ DE + (t - 1) = Upto(in, s - 1)
         \/ /\ pc = 276 /\ reg["B"] = t - 1 /\ DE + (t - 1) = Upto(in, s - 1)
            /\ (Zero <=> t = 1)

MultiplyPoint(in) ==
  LET pc == reg["PC"]
      top == reg["SP"] = 49160
      m == Factor(in[1])
      k == Factor(in[2])
  IN  \/ pc = 256
      \/ pc = 259 /\ top
      \/ pc = 262 /\ top /\ DE = 0
      \/ pc = 270 /\ top /\ DE = m * k
      \/ \E s \in 1 .. m : MultiplyOuter(in, s)
      \/ \E s \in 1 .. m, t \in 1 .. k : MultiplyInner(in, s, t)

MultiplyExact(in) == DE = Factor(in[1]) * Factor(in[2]) /\ reg["SP"] = 49160

LEMMA Products ==
  ASSUME NEW in, in[1] \in AluByte, in[2] \in AluByte
  PROVE  /\ Factor(in[1]) \in 1 .. 4 /\ Factor(in[2]) \in 1 .. 4
         /\ Upto(in, Factor(in[1])) = 0
         /\ Upto(in, 0) = Factor(in[1]) * Factor(in[2])
         /\ \A b \in 0 .. Factor(in[1]) : Upto(in, b) \in 0 .. 16
         /\ \A b \in 1 .. Factor(in[1]) : Upto(in, b) + Factor(in[2]) = Upto(in, b - 1)
<1> DEFINE m == Factor(in[1])
           k == Factor(in[2])
<1>1. m \in 1 .. 4 /\ k \in {1, 2, 3, 4}
  BY DEF Factor, AluByte
<1>2. \A b : Upto(in, b) = (m - b) * k
  BY DEF Upto
<1> HIDE DEF m, k
<1>3. /\ (m - m) * k = 0 /\ (m - 0) * k = m * k
      /\ \A b \in 0 .. m : (m - b) * k \in 0 .. 16
      /\ \A b \in 1 .. m : (m - b) * k + k = (m - (b - 1)) * k
  <2>1. CASE k = 1
    BY <1>1, <2>1
  <2>2. CASE k = 2
    BY <1>1, <2>2
  <2>3. CASE k = 3
    BY <1>1, <2>3
  <2>4. CASE k = 4
    BY <1>1, <2>4
  <2> QED
    BY <1>1, <2>1, <2>2, <2>3, <2>4
<1>4. k \in 1 .. 4
  BY <1>1
<1>5. /\ Upto(in, m) = 0 /\ Upto(in, 0) = m * k
      /\ \A b \in 0 .. m : Upto(in, b) \in 0 .. 16
      /\ \A b \in 1 .. m : Upto(in, b) + k = Upto(in, b - 1)
  BY <1>2, <1>3
<1> QED
  BY <1>1, <1>4, <1>5 DEF m, k

LEMMA SavedStays ==
  ASSUME NEW s, Saved(s), Quiet, reg'["SP"] = reg["SP"], reg'["C"] = reg["C"]
  PROVE  Saved(s)'
BY DEF Saved, Quiet

LEMMA MultiplyStartStep ==
  ASSUME NEW in, \A k \in 1 .. 4 : in[k] \in AluByte,
         cart_data = Multiply(in), Ready, CpuStep,
         \/ reg["PC"] = 256
         \/ reg["PC"] = 259 /\ reg["SP"] = 49160
         \/ reg["PC"] = 262 /\ reg["SP"] = 49160 /\ DE = 0
         \/ reg["PC"] = 270 /\ reg["SP"] = 49160 /\ DE = Factor(in[1]) * Factor(in[2])
  PROVE  cart_data' = cart_data /\ IF critical' THEN MultiplyExact(in)' ELSE MultiplyPoint(in)'
<1>0. \A p : reg["PC"] = p => Runs(p)
  BY DEF Runs
<1>1. CASE reg["PC"] = 256
  <2>1. Leaves(259, {"SP"}) /\ reg'["SP"] = 49160
    BY <1>0, <1>1, LdSpImm16, Words, MultiplyCode, Names
  <2> QED
    BY <1>1, <2>1, Names DEF Leaves, MultiplyPoint
<1>2. CASE reg["PC"] = 259 /\ reg["SP"] = 49160
  <2>0. 0 \in Byte
    BY DEF Byte
  <2>1. Leaves(262, {"D", "E"}) /\ reg'["D"] = 0 /\ reg'["E"] = 0
    BY <1>0, <1>2, <2>0, LdPair, MultiplyCode, Names
  <2>2. DE' = 0
    BY <2>1, Words DEF DE, Pair
  <2> QED
    BY <1>2, <2>1, <2>2, Names DEF Leaves, MultiplyPoint
<1>3. CASE reg["PC"] = 262 /\ reg["SP"] = 49160 /\ DE = 0
  <2>1. Leaves(264, {"B"}) /\ reg'["B"] = Factor(in[1])
    BY <1>0, <1>3, LdByte, MultiplyCode, Names
  <2>2. DE' = DE /\ reg'["SP"] = 49160
    BY <1>3, <2>1, Names, Keeps DEF Leaves
  <2>3. PICK s \in 1 .. Factor(in[1]) : s = Factor(in[1]) /\ Upto(in, s) = 0
    BY Products
  <2>4. MultiplyOuter(in, s)'
    BY <1>3, <2>1, <2>2, <2>3 DEF Leaves, MultiplyOuter
  <2> QED
    BY <2>1, <2>3, <2>4 DEF Leaves, MultiplyPoint
<1>4. CASE /\ reg["PC"] = 270 /\ reg["SP"] = 49160
           /\ DE = Factor(in[1]) * Factor(in[2])
  <2>1. critical' /\ cart_data' = cart_data /\ \A r \in R8 \cup {"SP"} : reg'[r] = reg[r]
    BY <1>0, <1>4, Ends, MultiplyCode, Names
  <2>2. DE' = DE /\ reg'["SP"] = reg["SP"]
    BY <2>1, Names, Keeps
  <2> QED
    BY <1>4, <2>1, <2>2 DEF MultiplyExact
<1> QED
  BY <1>1, <1>2, <1>3, <1>4

LEMMA MultiplyOuterStep ==
  ASSUME NEW in, \A k \in 1 .. 4 : in[k] \in AluByte,
         cart_data = Multiply(in), Ready, CpuStep,
         NEW s \in 1 .. Factor(in[1]), MultiplyOuter(in, s)
  PROVE  cart_data' = cart_data /\ critical' = FALSE /\ MultiplyPoint(in)'
<1> DEFINE Done == cart_data' = cart_data /\ critical' = FALSE /\ MultiplyPoint(in)'
<1> SUFFICES Done
  OBVIOUS
<1>0. \A p : reg["PC"] = p => Runs(p)
  BY DEF Runs
<1>a. s \in 1 .. 4 /\ s \in AluByte /\ Factor(in[1]) \in 1 .. 4
  BY Products DEF AluByte
<1>1. CASE /\ reg["PC"] = 264 /\ reg["SP"] = 49160 /\ reg["B"] = s /\ DE = Upto(in, s)
  <2>1. /\ Leaves(271, {"SP"}) /\ reg'["SP"] = 49158
        /\ [at |-> 49158, word |-> 267] \in frames'
    BY <1>0, <1>1, Calls, Words, MultiplyCode, Names
  <2>2. DE' = DE /\ reg'["B"] = s
    BY <1>1, <2>1, Names, Keeps DEF Leaves
  <2>3. MultiplyOuter(in, s)'
    BY <1>1, <2>1, <2>2 DEF Leaves, MultiplyOuter, Called
  <2> QED
    BY <2>1, <2>3 DEF Leaves, MultiplyPoint
<1>2. CASE /\ reg["PC"] = 267 /\ reg["SP"] = 49160 /\ reg["B"] = s /\ DE = Upto(in, s - 1)
  <2>1. /\ Leaves(268, {"B", "F"})
        /\ reg'["B"] = (reg["B"] + 255) % 256 /\ (Zero' <=> reg'["B"] = 0)
    BY <1>0, <1>2, DecByte, MultiplyCode, Names
  <2>2. DE' = DE /\ reg'["SP"] = 49160
    BY <1>2, <2>1, Names, Keeps DEF Leaves
  <2>3. reg'["B"] = s - 1 /\ (Zero' <=> s = 1)
    BY <1>2, <1>a, <2>1, SmallNumbers
  <2>4. MultiplyOuter(in, s)'
    BY <1>2, <2>1, <2>2, <2>3 DEF Leaves, MultiplyOuter
  <2> QED
    BY <2>1, <2>4 DEF Leaves, MultiplyPoint
<1>3. CASE /\ reg["PC"] = 268 /\ reg["SP"] = 49160 /\ reg["B"] = s - 1
           /\ DE = Upto(in, s - 1) /\ (Zero <=> s = 1)
  <2>1. Leaves(IF Zero THEN 270 ELSE 264, {})
    BY <1>0, <1>3, Jumps, MultiplyCode, Names
  <2>2. DE' = DE /\ reg'["SP"] = 49160 /\ reg'["B"] = s - 1
    BY <1>3, <2>1, Names, Keeps DEF Leaves
  <2>3. CASE Zero
    <3>1. DE = Factor(in[1]) * Factor(in[2])
      BY <1>3, <1>a, <2>3, Products
    <3> QED
      BY <2>1, <2>2, <2>3, <3>1 DEF Leaves, MultiplyPoint
  <2>4. CASE ~Zero
    <3>1. PICK u \in 1 .. Factor(in[1]) : u = s - 1
      BY <1>3, <1>a, <2>4
    <3>2. MultiplyOuter(in, u)'
      BY <1>3, <2>1, <2>2, <2>4, <3>1 DEF Leaves, MultiplyOuter
    <3> QED
      BY <2>1, <3>2 DEF Leaves, MultiplyPoint
  <2> QED
    BY <2>3, <2>4
<1>4. CASE /\ reg["PC"] = 271 /\ Called /\ reg["B"] = s /\ DE = Upto(in, s)
  <2>1. /\ Leaves(272, {"SP"}) /\ reg'["SP"] = 49156
        /\ [at |-> 49156, word |-> BC] \in frames'
        /\ \A f \in frames : f.at >= 49158 /\ f.at \in Stack => f \in frames'
    BY <1>0, <1>4, PushBC, Words, MultiplyCode, Names DEF Called
  <2>2. DE' = DE /\ reg'["C"] = reg["C"] /\ BC = WordOf(s, reg["C"])
    BY <1>4, <2>1, Names, Keeps DEF Leaves, BC, Pair
  <2>3. [at |-> 49158, word |-> 267] \in frames'
    <3> DEFINE f == [at |-> 49158, word |-> 267]
    <3>1. f \in frames /\ f.at >= 49158 /\ f.at \in Stack
      BY <1>4, Words DEF Called
    <3> QED
      BY <2>1, <3>1
  <2>4. Saved(s)'
    BY <2>1, <2>2, <2>3 DEF Saved
  <2>5. MultiplyOuter(in, s)'
    BY <1>4, <2>1, <2>2, <2>4 DEF Leaves, MultiplyOuter
  <2> QED
    BY <2>1, <2>5 DEF Leaves, MultiplyPoint
<1>5. CASE /\ reg["PC"] = 272 /\ Saved(s) /\ DE = Upto(in, s)
  <2>1. Leaves(274, {"B"}) /\ reg'["B"] = Factor(in[2]) /\ Quiet
    BY <1>0, <1>5, LdByte, MultiplyCode, Names
  <2>2. DE' = DE /\ Saved(s)'
    BY <1>5, <2>1, Names, Keeps, SavedStays DEF Leaves
  <2>3. PICK t \in 1 .. Factor(in[2]) : t = Factor(in[2])
    BY Products
  <2>4. Upto(in, s) + t = Upto(in, s - 1)
    BY <2>3, Products
  <2>5. MultiplyInner(in, s, t)'
    BY <1>5, <2>1, <2>2, <2>3, <2>4 DEF Leaves, MultiplyInner
  <2> QED
    BY <2>1, <2>5 DEF Leaves, MultiplyPoint
<1>6. CASE /\ reg["PC"] = 278 /\ Saved(s) /\ DE = Upto(in, s - 1)
  <2>0. PICK v : v = WordOf(s, reg["C"])
    OBVIOUS
  <2>1. OnTop(v) /\ Hi(v) = s
    BY <1>6, <1>a, <2>0, Words, HoldBytes, Names, Joined, Bytes DEF OnTop, Saved
  <2>2. /\ Leaves(279, {"SP", "B", "C"}) /\ Quiet /\ reg'["SP"] = reg["SP"] + 2
        /\ reg'["B"] = s
    BY <1>0, <1>6, <2>1, PopBC, MultiplyCode, Names
  <2>3. DE' = DE /\ Called'
    BY <1>6, <2>2, Names, Keeps DEF Leaves, Called, Saved, Quiet
  <2>4. MultiplyOuter(in, s)'
    BY <1>6, <2>2, <2>3 DEF Leaves, MultiplyOuter
  <2> QED
    BY <2>2, <2>4 DEF Leaves, MultiplyPoint
<1>7. CASE /\ reg["PC"] = 279 /\ Called /\ reg["B"] = s /\ DE = Upto(in, s - 1)
  <2>0. OnTop(267)
    BY <1>7, Words DEF OnTop, Called
  <2>1. Leaves(267, {"SP"}) /\ reg'["SP"] = 49160
    BY <1>0, <1>7, <2>0, Returns, MultiplyCode, Names DEF Called
  <2>2. DE' = DE /\ reg'["B"] = s
    BY <1>7, <2>1, Names, Keeps DEF Leaves
  <2>3. MultiplyOuter(in, s)'
    BY <1>7, <2>1, <2>2 DEF Leaves, MultiplyOuter
  <2> QED
    BY <2>1, <2>3 DEF Leaves, MultiplyPoint
<1> HIDE DEF Done
<1> QED
  BY <1>1, <1>2, <1>3, <1>4, <1>5, <1>6, <1>7 DEF MultiplyOuter

LEMMA MultiplyInnerStep ==
  ASSUME NEW in, \A k \in 1 .. 4 : in[k] \in AluByte,
         cart_data = Multiply(in), Ready, CpuStep,
         NEW s \in 1 .. Factor(in[1]), NEW t \in 1 .. Factor(in[2]), MultiplyInner(in, s, t)
  PROVE  cart_data' = cart_data /\ critical' = FALSE /\ MultiplyPoint(in)'
<1>0. \A p : reg["PC"] = p => Runs(p)
  BY DEF Runs
<1>a. t \in 1 .. 4 /\ Factor(in[2]) \in 1 .. 4 /\ Upto(in, s - 1) \in 0 .. 16 /\ DE \in Nat
  <2>1. s - 1 \in 0 .. Factor(in[1]) /\ Factor(in[2]) \in 1 .. 4
    BY Products
  <2>2. DE \in Nat
    BY FromReady, RegistersOK, Bytes
  <2> QED
    BY <2>1, <2>2, Products
<1>1. CASE /\ Saved(s) /\ reg["PC"] = 274 /\ reg["B"] = t /\ DE + t = Upto(in, s - 1)
  <2>0. /\ DE < 65535 /\ DE + 1 + (t - 1) = Upto(in, s - 1)
    <3>1. \A d, n \in Nat : d + t = n /\ n <= 16 => d < 65535 /\ d + 1 + (t - 1) = n
      BY <1>a
    <3> QED
      BY <1>1, <1>a, <3>1
  <2>1. /\ Leaves(275, {"D", "E"}) /\ Quiet /\ DE' = DE + 1
    BY <1>0, <1>1, <2>0, NextDE, MultiplyCode, Names
  <2>2. reg'["B"] = t /\ Saved(s)'
    BY <1>1, <2>1, Names, SavedStays DEF Leaves
  <2>3. MultiplyInner(in, s, t)'
    BY <1>1, <2>0, <2>1, <2>2 DEF Leaves, MultiplyInner
  <2> QED
    BY <2>1, <2>3 DEF Leaves, MultiplyPoint
<1>2. CASE /\ Saved(s) /\ reg["PC"] = 275 /\ reg["B"] = t
           /\ DE + (t - 1) = Upto(in, s - 1)
  <2>1. /\ Leaves(276, {"B", "F"}) /\ Quiet
        /\ reg'["B"] = (reg["B"] + 255) % 256 /\ (Zero' <=> reg'["B"] = 0)
    BY <1>0, <1>2, DecByte, MultiplyCode, Names
  <2>2. DE' = DE /\ Saved(s)'
    BY <1>2, <2>1, Names, Keeps, SavedStays DEF Leaves
  <2>3. reg'["B"] = t - 1 /\ (Zero' <=> t = 1)
    BY <1>2, <1>a, <2>1, SmallNumbers
  <2>4. MultiplyInner(in, s, t)'
    BY <1>2, <2>1, <2>2, <2>3 DEF Leaves, MultiplyInner
  <2> QED
    BY <2>1, <2>4 DEF Leaves, MultiplyPoint
<1>3. CASE /\ Saved(s) /\ reg["PC"] = 276 /\ reg["B"] = t - 1
           /\ DE + (t - 1) = Upto(in, s - 1) /\ (Zero <=> t = 1)
  <2>1. Leaves(IF Zero THEN 278 ELSE 274, {}) /\ Quiet
    BY <1>0, <1>3, Jumps, MultiplyCode, Names
  <2>2. DE' = DE /\ reg'["B"] = t - 1 /\ Saved(s)'
    BY <1>3, <2>1, Names, Keeps, SavedStays DEF Leaves
  <2>3. CASE Zero
    <3>1. DE = Upto(in, s - 1)
      BY <1>3, <1>a, <2>3
    <3>2. MultiplyOuter(in, s)'
      BY <2>1, <2>2, <2>3, <3>1 DEF Leaves, MultiplyOuter
    <3> QED
      BY <2>1, <3>2 DEF Leaves, MultiplyPoint
  <2>4. CASE ~Zero
    <3>1. PICK u \in 1 .. Factor(in[2]) : u = t - 1
      BY <1>3, <1>a, <2>4
    <3>2. MultiplyInner(in, s, u)'
      BY <1>3, <2>1, <2>2, <2>4, <3>1 DEF Leaves, MultiplyInner
    <3> QED
      BY <2>1, <3>2 DEF Leaves, MultiplyPoint
  <2> QED
    BY <2>3, <2>4
<1> QED
  BY <1>1, <1>2, <1>3 DEF MultiplyInner

LEMMA MultiplyStep ==
  ASSUME NEW in, \A k \in 1 .. 4 : in[k] \in AluByte,
         cart_data = Multiply(in), Ready, CpuStep, MultiplyPoint(in)
  PROVE  cart_data' = cart_data /\ IF critical' THEN MultiplyExact(in)' ELSE MultiplyPoint(in)'
<1>1. CASE \E s \in 1 .. Factor(in[1]) : MultiplyOuter(in, s)
  BY <1>1, MultiplyOuterStep
<1>2. CASE \E s \in 1 .. Factor(in[1]), t \in 1 .. Factor(in[2]) : MultiplyInner(in, s, t)
  BY <1>2, MultiplyInnerStep
<1>3. CASE \/ reg["PC"] = 256
           \/ reg["PC"] = 259 /\ reg["SP"] = 49160
           \/ reg["PC"] = 262 /\ reg["SP"] = 49160 /\ DE = 0
           \/ reg["PC"] = 270 /\ reg["SP"] = 49160 /\ DE = Factor(in[1]) * Factor(in[2])
  BY <1>3, MultiplyStartStep
<1> QED
  BY <1>1, <1>2, <1>3 DEF MultiplyPoint

-----------------------------------------------------------------------------
(***************************************************************************)
(* What holds at every program counter value, for all programs together.   *)
(***************************************************************************)
Quad(in) == \A k \in 1 .. 4 : in[k] \in AluByte

Sum16Follows(in) ==
  /\ cart_data = Sum16(in)
  /\ IF critical THEN Sum16Exact(in, reg["H"], reg["L"]) ELSE Sum16Point(in)
Shift32Follows(in) ==
  cart_data = Shift32(in) /\ IF critical THEN Shift32Exact(in) ELSE Shift32Point(in)
Rotate9Follows(in) ==
  /\ cart_data = Rotate9(in)
  /\ IF critical THEN reg["A"] = in[1] /\ CarryOut = 0 ELSE Rotate9Point(in)
CopyFollows(in) ==
  cart_data = Copy(in) /\ IF critical THEN CopyExact(in) ELSE CopyPoint(in)
MultiplyFollows(in) ==
  cart_data = Multiply(in) /\ IF critical THEN MultiplyExact(in) ELSE MultiplyPoint(in)
LogicalFollows(in) ==
  cart_data = Logical(in) /\ IF critical THEN LogicalExact(in) ELSE LogicalPoint(in)
LesserFollows(in) ==
  cart_data = Lesser(in) /\ IF critical THEN LesserExact(in) ELSE LesserPoint(in)
CountBitsFollows(in) ==
  cart_data = CountBits(in) /\ IF critical THEN CountBitsExact(in) ELSE CountBitsPoint(in)
Double16Follows(in) ==
  cart_data = Double16(in) /\ IF critical THEN Double16Exact(in) ELSE Double16Point(in)

Follows(in) ==
  \/ Sum16Follows(in) \/ Shift32Follows(in) \/ Rotate9Follows(in)
  \/ CopyFollows(in) \/ MultiplyFollows(in) \/ LogicalFollows(in)
  \/ LesserFollows(in) \/ CountBitsFollows(in) \/ Double16Follows(in)

ProgramInv == \E in : Quad(in) /\ Follows(in)

LEMMA ProgramsStart ==
  ASSUME Roms \subseteq ProgramRoms, Inputs \subseteq Byte, CpuInit
  PROVE  ProgramInv
<1> DEFINE Quads == Inputs \X Inputs \X Inputs \X Inputs
           Pairs == Inputs \X Inputs \X {0} \X {0}
           Singles == Inputs \X {0} \X {0} \X {0}
<1>1. /\ cart_data \in ProgramRoms /\ reg["PC"] = 256 /\ critical = FALSE
  BY DEF CpuInit, BusInit, ResetRegisters, R16
<1>2. ASSUME NEW in \in Quads \cup Pairs \cup Singles
      PROVE  Quad(in)
  <2>1. Inputs \cup {0} \subseteq AluByte
    BY Bytes DEF AluByte
  <2>2. /\ in[1] \in Inputs \cup {0} /\ in[2] \in Inputs \cup {0}
        /\ in[3] \in Inputs \cup {0} /\ in[4] \in Inputs \cup {0}
    OBVIOUS
  <2>3. \A k \in 1 .. 4 : k \in {1, 2, 3, 4}
    OBVIOUS
  <2> QED
    BY <2>1, <2>2, <2>3 DEF Quad
<1>3. \A in : /\ Sum16Point(in) /\ Shift32Point(in) /\ Rotate9Point(in)
              /\ CopyPoint(in) /\ MultiplyPoint(in) /\ LogicalPoint(in)
              /\ LesserPoint(in) /\ CountBitsPoint(in) /\ Double16Point(in)
  BY <1>1 DEF Sum16Point, Shift32Point, Rotate9Point, CopyPoint, MultiplyPoint,
              LogicalPoint, LesserPoint, CountBitsPoint, Double16Point
<1>4. \/ \E in \in Quads : \/ cart_data = Sum16(in) \/ cart_data = Shift32(in)
                           \/ cart_data = Copy(in)
      \/ \E in \in Pairs : \/ cart_data = Multiply(in) \/ cart_data = Logical(in)
                           \/ cart_data = Lesser(in) \/ cart_data = Double16(in)
      \/ \E in \in Singles : cart_data = Rotate9(in) \/ cart_data = CountBits(in)
  BY <1>1 DEF ProgramRoms
<1> HIDE DEF Quads, Pairs, Singles
<1>5. \E in \in Quads \cup Pairs \cup Singles : Follows(in)
  BY <1>1, <1>3, <1>4
     DEF Follows, Sum16Follows, Shift32Follows, Rotate9Follows, CopyFollows,
         MultiplyFollows, LogicalFollows, LesserFollows, CountBitsFollows, Double16Follows
<1> QED
  BY <1>2, <1>5 DEF ProgramInv

LEMMA ProgramsStep ==
  ASSUME Ready, ~critical, CpuStep, ProgramInv
  PROVE  ProgramInv'
<1>1. PICK in : Quad(in) /\ Follows(in)
  BY DEF ProgramInv
<1>2. \A k \in 1 .. 4 : in[k] \in AluByte
  BY <1>1 DEF Quad
<1>3. Follows(in)'
  <2>1. CASE Sum16Follows(in)
    BY <1>2, <2>1, Sum16Step DEF Follows, Sum16Follows
  <2>2. CASE Shift32Follows(in)
    BY <1>2, <2>2, Shift32Step DEF Follows, Shift32Follows
  <2>3. CASE Rotate9Follows(in)
    BY <1>2, <2>3, Rotate9Step DEF Follows, Rotate9Follows
  <2>4. CASE CopyFollows(in)
    BY <1>2, <2>4, CopyStep DEF Follows, CopyFollows
  <2>5. CASE MultiplyFollows(in)
    BY <1>2, <2>5, MultiplyStep DEF Follows, MultiplyFollows
  <2>6. CASE LogicalFollows(in)
    BY <1>2, <2>6, LogicalStep DEF Follows, LogicalFollows
  <2>7. CASE LesserFollows(in)
    BY <1>2, <2>7, LesserStep DEF Follows, LesserFollows
  <2>8. CASE CountBitsFollows(in)
    BY <1>2, <2>8, CountBitsStep DEF Follows, CountBitsFollows
  <2>9. CASE Double16Follows(in)
    BY <1>2, <2>9, Double16Step DEF Follows, Double16Follows
  <2> QED
    BY <1>1, <2>1, <2>2, <2>3, <2>4, <2>5, <2>6, <2>7, <2>8, <2>9 DEF Follows
<1>4. Quad(in)'
  BY <1>1 DEF Quad
<1> QED
  BY <1>3, <1>4 DEF ProgramInv

LEMMA ProgramsStutter ==
  ASSUME UNCHANGED vars, ProgramInv
  PROVE  ProgramInv'
<1>1. reg' = reg /\ frames' = frames /\ ram' = ram /\ cart_data' = cart_data
      /\ critical' = critical
  BY DEF vars, busVars, cpuVars
<1>2. PICK in : Quad(in) /\ Follows(in)
  BY DEF ProgramInv
<1>3. Sum16Follows(in) => Sum16Follows(in)'
  BY <1>1 DEF Sum16Follows, Sum16Exact, Sum16Point, LowExact, CarryOut
<1>4. Shift32Follows(in) => Shift32Follows(in)'
  BY <1>1 DEF Shift32Follows, Shift32Exact, Shift32Point, CarryOut
<1>5. Rotate9Follows(in) => Rotate9Follows(in)'
  BY <1>1 DEF Rotate9Follows, Rotate9Point, Nine, CarryOut
<1>6. CopyFollows(in) => CopyFollows(in)'
  BY <1>1 DEF CopyFollows, CopyExact, CopyPoint, Copied, Copying, Zero
<1>7. MultiplyFollows(in) => MultiplyFollows(in)'
  BY <1>1 DEF MultiplyFollows, MultiplyExact, MultiplyPoint, MultiplyOuter, MultiplyInner,
         Saved, Called, DE, Pair, Zero
<1>8. LogicalFollows(in) => LogicalFollows(in)'
  BY <1>1 DEF LogicalFollows, LogicalExact, LogicalPoint
<1>9. LesserFollows(in) => LesserFollows(in)'
  BY <1>1 DEF LesserFollows, LesserExact, LesserPoint, CarryOut
<1>10. CountBitsFollows(in) => CountBitsFollows(in)'
  BY <1>1 DEF CountBitsFollows, CountBitsExact, CountBitsPoint, Counted, OnTop, Zero,
         CarryOut
<1>11. Double16Follows(in) => Double16Follows(in)'
  BY <1>1 DEF Double16Follows, Double16Exact, Double16Point, Doubling, OnTop, HL, Pair,
         CarryOut
<1>12. Quad(in)' /\ Follows(in)'
  BY <1>2, <1>3, <1>4, <1>5, <1>6, <1>7, <1>8, <1>9, <1>10, <1>11 DEF Follows, Quad
<1> QED
  BY <1>12 DEF ProgramInv

LEMMA ProgramInvariance ==
  ASSUME Address = Word, Roms \subseteq ProgramRoms, Inputs \subseteq Byte
  PROVE  RunnerSpec => [](ProgramInv /\ TypedAndFetched)
<1>1. CpuInit => ProgramInv
  BY ProgramsStart
<1>2. TypedAndFetched /\ ProgramInv /\ [RunnerNext]_vars => ProgramInv'
  <2>1. TypedAndFetched => Ready
    BY DEF Ready, TypedAndFetched
  <2>2. CASE RunnerNext
    BY <2>1, <2>2, ProgramsStep DEF RunnerNext, Stopped
  <2>3. CASE UNCHANGED vars
    BY <2>3, ProgramsStutter
  <2> QED
    BY <2>2, <2>3
<1>3. [RunnerNext]_vars => [ApiNext]_vars
  BY DEF ApiNext
<1>4. ApiSpec => []TypedAndFetched
  BY CpuIsTyped
<1> QED
  BY <1>1, <1>2, <1>3, <1>4, PTL DEF RunnerSpec, ApiSpec

(* The bytes of a cartridge as ResultsAreExact names them.                 *)
LEMMA RomInputs ==
  ASSUME NEW name, NEW in, NEW code, cart_data = Rom(name, in, code)
  PROVE  In(0) = name /\ In(1) = in[1] /\ In(2) = in[2] /\ In(3) = in[3] /\ In(4) = in[4]
BY DEF In, Rom, Start

LEMMA CopiedIsRead ==
  ASSUME NEW in, Address = Word, Copied(in, 4)
  PROVE  \A n \in 0 .. 3 : ReadMemory(49152 + n) = {in[n + 1]}
<1> SUFFICES ASSUME NEW n \in 0 .. 3
             PROVE  ReadMemory(49152 + n) = {in[n + 1]}
  OBVIOUS
<1> QED
  BY CopyTarget, RamIsRead DEF Copied

LEMMA ExactResults ==
  ASSUME Address = Word, ProgramInv, critical
  PROVE  ResultsAreExact
<1>1. PICK in : Quad(in) /\ Follows(in)
  BY DEF ProgramInv
<1>2. CASE Sum16Follows(in)
  <2>1. In(0) = 1 /\ In(1) = in[1] /\ In(2) = in[2] /\ In(3) = in[3] /\ In(4) = in[4]
    BY <1>2, RomInputs DEF Sum16Follows, Sum16
  <2> QED
    BY <1>2, <2>1 DEF Sum16Follows, Sum16Exact, ResultsAreExact, HL, Pair
<1>3. CASE Shift32Follows(in)
  <2>1. In(0) = 2 /\ In(1) = in[1] /\ In(2) = in[2] /\ In(3) = in[3] /\ In(4) = in[4]
    BY <1>3, RomInputs DEF Shift32Follows, Shift32
  <2> QED
    BY <1>3, <2>1 DEF Shift32Follows, Shift32Exact, ResultsAreExact
<1>4. CASE Rotate9Follows(in)
  <2>1. In(0) = 3 /\ In(1) = in[1]
    BY <1>4, RomInputs DEF Rotate9Follows, Rotate9
  <2> QED
    BY <1>4, <2>1 DEF Rotate9Follows, ResultsAreExact
<1>5. CASE CopyFollows(in)
  <2>1. In(0) = 4 /\ In(1) = in[1] /\ In(2) = in[2] /\ In(3) = in[3] /\ In(4) = in[4]
    BY <1>5, RomInputs DEF CopyFollows, Copy
  <2>2. \A n \in 0 .. 3 : In(n + 1) = in[n + 1]
    BY <2>1
  <2>3. \A n \in 0 .. 3 : ReadMemory(49152 + n) = {In(n + 1)}
    BY <1>5, <2>2, CopiedIsRead DEF CopyFollows, CopyExact
  <2> QED
    BY <2>1, <2>3 DEF ResultsAreExact
<1>6. CASE MultiplyFollows(in)
  <2>1. In(0) = 5 /\ In(1) = in[1] /\ In(2) = in[2]
    BY <1>6, RomInputs DEF MultiplyFollows, Multiply
  <2> QED
    BY <1>6, <2>1 DEF MultiplyFollows, MultiplyExact, Factor, ResultsAreExact
<1>7. CASE LogicalFollows(in)
  <2>1. In(0) = 6 /\ In(1) = in[1] /\ In(2) = in[2]
    BY <1>7, RomInputs DEF LogicalFollows, Logical
  <2> QED
    BY <1>7, <2>1 DEF LogicalFollows, LogicalExact, ResultsAreExact
<1>8. CASE LesserFollows(in)
  <2>1. In(0) = 7 /\ In(1) = in[1] /\ In(2) = in[2]
    BY <1>8, RomInputs DEF LesserFollows, Lesser
  <2> QED
    BY <1>8, <2>1 DEF LesserFollows, LesserExact, ResultsAreExact
<1>9. CASE CountBitsFollows(in)
  <2>1. In(0) = 8 /\ In(1) = in[1]
    BY <1>9, RomInputs DEF CountBitsFollows, CountBits
  <2> QED
    BY <1>9, <2>1 DEF CountBitsFollows, CountBitsExact, ResultsAreExact
<1>10. CASE Double16Follows(in)
  <2>1. In(0) = 9 /\ In(1) = in[1] /\ In(2) = in[2]
    BY <1>10, RomInputs DEF Double16Follows, Double16
  <2> QED
    BY <1>10, <2>1 DEF Double16Follows, Double16Exact, Doubling, ResultsAreExact
<1> QED
  BY <1>1, <1>2, <1>3, <1>4, <1>5, <1>6, <1>7, <1>8, <1>9, <1>10 DEF Follows

(* On a cartridge with any of the nine programs, whatever its input bytes, *)
(* the CPU has the result of integer arithmetic when the program has ended:*)
(* carries, flags, branches, calls and the stack together lose nothing.    *)
THEOREM ProgramsAreExact ==
  Address = Word /\ Roms \subseteq ProgramRoms /\ Inputs \subseteq Byte =>
    (RunnerSpec => []ResultsAreExact)
<1> SUFFICES ASSUME Address = Word, Roms \subseteq ProgramRoms, Inputs \subseteq Byte
             PROVE  RunnerSpec => []ResultsAreExact
  OBVIOUS
<1>1. ProgramInv /\ TypedAndFetched => ResultsAreExact
  BY ExactResults DEF ResultsAreExact
<1>2. RunnerSpec => [](ProgramInv /\ TypedAndFetched)
  BY ProgramInvariance
<1> QED
  BY <1>1, <1>2, PTL
=============================================================================
