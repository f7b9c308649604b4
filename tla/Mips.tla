------------------------------- MODULE Mips -------------------------------
(***************************************************************************)
(* The simulated machine (machine/mipssim.cc, machine.cc, translate.cc):   *)
(* registers, memory behind a page table, one instruction at a time with   *)
(* delayed branches and delayed loads, and the traps into the kernel.      *)
(*                                                                         *)
(* A machine state is a record m and an instruction a function on such     *)
(* records, so that a property can run a short program from any state      *)
(* that is reached.  The width of a byte is a parameter: with 2 bits a     *)
(* word has 8 bits, the carries, sign bits and byte lanes stay.  Words are *)
(* held unsigned; Signed(x) is the int of the C code.                      *)
(***************************************************************************)
EXTENDS Integers, Sequences, Bitwise

CONSTANTS ByteBits,      \* 8 in the code
          JBits,         \* 28: IndexToAddr(target) of J and JAL
          GPR,           \* the general registers, with 0, 2 and 31
          PageSize,      \* in bytes
          PageTable,     \* function from 0.. to [physicalPage, valid, readOnly]
          NumPhysPages,
          Code,          \* the encoded instructions a program may hold
          InitRegs,      \* the register files a program may start from
          MemByte(_),    \* what memory holds at the start
          MaxSteps       \* bound: instructions executed

VARIABLES m,     \* registers and memory
          which, \* the exception being raised, or "none"
          steps

vars == <<m, which, steps>>

W == 4 * ByteBits
Word == 0..(2^W - 1)
Wrap(x) == x % 2^W
Sign(x) == x >= 2^(W - 1)
Signed(x) == IF Sign(x) THEN x - 2^W ELSE x
SignExtend(x, bits) == Wrap(IF x >= 2^(bits - 1) THEN x - 2^bits ELSE x)
Mask(bytes) == 2^(bytes * ByteBits) - 1

MemorySize == NumPhysPages * PageSize
Exceptions == {"AddressError", "PageFault", "ReadOnly", "BusError", "Overflow",
               "IllegalInstr", "Syscall", "HostTrap"}

TypeOK ==
  /\ m.reg \in [GPR -> Word]
  /\ {m.hi, m.lo, m.pc, m.next, m.prev, m.loadValue, m.badVAddr} \subseteq Word
  /\ m.loadReg \in GPR
  /\ m.mem \in [0..(MemorySize - 1) -> 0..Mask(1)]
  /\ {m.use, m.dirty} \subseteq SUBSET (DOMAIN PageTable)
  /\ which \in Exceptions \cup {"none"}
  /\ steps \in 0..MaxSteps

\* Machine::Machine, and what InitRegisters and a program's run so far have
\* put into the registers.
Init ==
  /\ \E r \in InitRegs :
       m = [reg |-> r, hi |-> 0, lo |-> 0, pc |-> 0, next |-> 4, prev |-> 0,
            loadReg |-> 0, loadValue |-> 0, badVAddr |-> 0,
            mem |-> [a \in 0..(MemorySize - 1) |-> MemByte(a)],
            use |-> {}, dirty |-> {}]
  /\ which = "none"
  /\ steps = 0

----------------------------------------------------------------------------
(* Address translation.                                                    *)

\* Machine::Translate, the page table branch (the build has no TLB): the
\* exception it returns, "none" if the access is allowed.
Translate(addr, size, writing) ==
  LET vpn == addr \div PageSize
      entry == PageTable[vpn]
  IN  CASE addr % size # 0 -> "AddressError"
        [] vpn \notin DOMAIN PageTable -> "AddressError"
        [] ~entry.valid -> "PageFault"
        [] entry.readOnly /\ writing -> "ReadOnly"
        [] entry.physicalPage >= NumPhysPages -> "BusError"
        [] OTHER -> "none"

PhysAddr(addr) ==
  PageTable[addr \div PageSize].physicalPage * PageSize + (addr % PageSize)

\* Machine::ReadMem: the value, little endian.  A byte is a signed char.
ReadMem(s, addr, size) ==
  LET b(k) == s.mem[PhysAddr(addr) + k]
  IN  CASE size = 1 -> SignExtend(b(0), ByteBits)
        [] size = 2 -> b(0) + b(1) * 2^ByteBits
        [] size = 4 -> b(0) + b(1) * 2^ByteBits + b(2) * 2^(2 * ByteBits)
                            + b(3) * 2^(3 * ByteBits)

Used(s, addr) == [s EXCEPT !.use = @ \cup {addr \div PageSize}]

\* Mutant: the byte is not cut off at its width.
ByteOfUncut(value, k) == value \div 2^(ByteBits * k)

ByteOf(value, k) == (value \div 2^(ByteBits * k)) % 2^ByteBits

\* Mutant: Translate does not set the dirty bit.
WriteMemClean(s, addr, size, value) ==
  [Used(s, addr) EXCEPT
     !.mem = [a \in DOMAIN @ |->
                IF a - PhysAddr(addr) \in 0..(size - 1)
                THEN ByteOf(value, a - PhysAddr(addr)) ELSE @[a]]]

\* Machine::WriteMem, with the bits Translate sets.
WriteMem(s, addr, size, value) ==
  [Used(s, addr) EXCEPT
     !.dirty = @ \cup {addr \div PageSize},
     !.mem = [a \in DOMAIN @ |->
                IF a - PhysAddr(addr) \in 0..(size - 1)
                THEN ByteOf(value, a - PhysAddr(addr)) ELSE @[a]]]

----------------------------------------------------------------------------
(* Instruction::Decode.  An encoded instruction is the record of the       *)
(* fields the formats read.                                                *)

Fmt(f, ops) == [k \in 1..Len(ops) |-> <<ops[k], f>>]
Rep(x, n) == [k \in 1..n |-> x]

opTable ==
  <<<<"SPECIAL", "R">>, <<"BCOND", "I">>, <<"J", "J">>, <<"JAL", "J">> >>
  \o Fmt("I", <<"BEQ", "BNE", "BLEZ", "BGTZ", "ADDI", "ADDIU", "SLTI", "SLTIU",
                "ANDI", "ORI", "XORI", "LUI">>
              \o Rep("UNIMP", 4) \o Rep("RES", 12)
              \o <<"LB", "LH", "LWL", "LW", "LBU", "LHU", "LWR", "RES",
                   "SB", "SH", "SWL", "SW", "RES", "RES", "SWR", "RES">>
              \o Rep("UNIMP", 4) \o Rep("RES", 4)
              \o Rep("UNIMP", 4) \o Rep("RES", 4))

specialTable ==
  <<"SLL", "RES", "SRL", "SRA", "SLLV", "RES", "SRLV", "SRAV",
    "JR", "JALR", "RES", "RES", "SYSCALL", "UNIMP", "RES", "RES",
    "MFHI", "MTHI", "MFLO", "MTLO">> \o Rep("RES", 4)
  \o <<"MULT", "MULTU", "DIV", "DIVU">> \o Rep("RES", 4)
  \o <<"ADD", "ADDU", "SUB", "SUBU", "AND", "OR", "XOR", "NOR",
       "RES", "RES", "SLT", "SLTU">> \o Rep("RES", 20)

Decode(w) ==
  LET entry == opTable[w.op + 1]
  IN  [op |-> CASE entry[1] = "SPECIAL" -> specialTable[w.funct + 1]
                [] entry[1] = "BCOND" -> CASE w.rt = 0 -> "BLTZ"
                                           [] w.rt = 1 -> "BGEZ"
                                           [] w.rt = 16 -> "BLTZAL"
                                           [] w.rt = 17 -> "BGEZAL"
                                           [] OTHER -> "UNIMP"
                [] OTHER -> entry[1],
       rs |-> w.rs, rt |-> w.rt, rd |-> w.rd,
       extra |-> CASE entry[2] = "I" -> SignExtend(w.imm, W \div 2)
                   [] entry[2] = "R" -> w.shamt
                   [] entry[2] = "J" -> w.target]

----------------------------------------------------------------------------
(* Machine::OneInstruction.                                                *)

Immediate == {"ADDI", "ADDIU", "ANDI", "ORI", "XORI", "SLTI", "SLTIU", "LUI"}
Alu == Immediate \cup {"ADD", "ADDU", "SUB", "SUBU", "AND", "OR", "XOR", "NOR",
         "SLT", "SLTU", "SLL", "SLLV", "SRA", "SRAV", "SRL", "SRLV", "MFHI", "MFLO"}

\* Mutant: the sign of the wrong operand is compared.
OverflowsUnsigned(op, a, b) ==
  CASE op \in {"ADD", "ADDI"} -> a + b >= 2^W
    [] op = "SUB" -> a < b
    [] OTHER -> FALSE

\* The test of OP_ADD, OP_ADDI and OP_SUB on the sign bits.
Overflows(op, a, b) ==
  CASE op = "ADD" -> Sign(a) = Sign(b) /\ Sign(a) # Sign(Wrap(a + b))
    [] op = "ADDI" -> Sign(a) = Sign(b) /\ Sign(b) # Sign(Wrap(a + b))
    [] op = "SUB" -> Sign(a) # Sign(b) /\ Sign(a) # Sign(Wrap(a - b))
    [] OTHER -> FALSE

\* What the one-result instructions put into their destination; a is the rs
\* register, b the rt register or the immediate, x the shift count.  SRL and
\* SRLV shift the int tmp, so they shift in the sign as SRA does.
AluValue(s, op, a, b, x) ==
  CASE op \in {"ADD", "ADDI", "ADDU", "ADDIU"} -> Wrap(a + b)
    [] op \in {"SUB", "SUBU"} -> Wrap(a - b)
    [] op \in {"AND", "ANDI"} -> a & b
    [] op \in {"OR", "ORI"} -> a | b
    [] op \in {"XOR", "XORI"} -> a ^^ b
    [] op = "NOR" -> 2^W - 1 - (a | b)
    [] op \in {"SLT", "SLTI"} -> IF Signed(a) < Signed(b) THEN 1 ELSE 0
    [] op \in {"SLTU", "SLTIU"} -> IF a < b THEN 1 ELSE 0
    [] op = "LUI" -> Wrap(b * 2^(W \div 2))
    [] op = "SLL" -> Wrap(b * 2^x)
    [] op = "SLLV" -> Wrap(b * 2^(a % W))
    [] op \in {"SRA", "SRL"} -> Wrap(Signed(b) \div 2^x)
    [] op \in {"SRAV", "SRLV"} -> Wrap(Signed(b) \div 2^(a % W))
    [] op = "MFHI" -> s.hi
    [] op = "MFLO" -> s.lo

\* C's / and %, which truncate towards zero.
Abs(x) == IF x < 0 THEN -x ELSE x
Quot(a, b) == (Abs(a) \div Abs(b)) * (IF (a < 0) = (b < 0) THEN 1 ELSE -1)

\* Mutant: the carry out of the low word is dropped.
AddCarryDropped(hi, lo, bHi, bLo) == <<Wrap(hi + bHi), Wrap(lo + bLo)>>

\* One addition of Mult, with the carry it finds by comparing.
AddCarry(hi, lo, bHi, bLo) ==
  LET l == Wrap(lo + bLo)
  IN  <<Wrap(hi + bHi + (IF l < bLo THEN 1 ELSE 0)), l>>

\* The loop of Mult from bit i on: <<hi, lo>>.
RECURSIVE MultLoop(_, _, _, _, _, _)
MultLoop(i, a, bHi, bLo, hi, lo) ==
  LET r == IF a % 2 = 1 THEN AddCarry(hi, lo, bHi, bLo) ELSE <<hi, lo>>
  IN  IF i = W \/ a = 1 THEN r
      ELSE MultLoop(i + 1, Wrap(Signed(a) \div 2),
                    Wrap(2 * bHi) + (IF Sign(bLo) THEN 1 ELSE 0), Wrap(2 * bLo),
                    r[1], r[2])

\* Mult: magnitudes, the loop, then the two's complement if negative.
Mult(a, b, signedArith) ==
  LET neg(x) == signedArith /\ Sign(x)
      mag(x) == IF neg(x) THEN Wrap(-x) ELSE x
      r == MultLoop(1, mag(a), 0, mag(b), 0, 0)
      lo == Wrap(-r[2])
      hi == Wrap(2^W - 1 - r[1] + (IF lo = 0 THEN 1 ELSE 0))
  IN  IF a = 0 \/ b = 0 THEN <<0, 0>>
      ELSE IF neg(a) # neg(b) THEN <<hi, lo>> ELSE r

\* OP_DIV, OP_DIVU, OP_MULT, OP_MULTU, OP_MTHI, OP_MTLO: the new <<hi, lo>>.
HiLo(s, op, a, b) ==
  CASE op = "MULT" -> Mult(a, b, TRUE)
    [] op = "MULTU" -> Mult(a, b, FALSE)
    [] op \in {"DIV", "DIVU"} /\ b = 0 -> <<0, 0>>
    [] op = "DIV" /\ b # 0 ->
         LET q == Quot(Signed(a), Signed(b))
         IN  <<Wrap(Signed(a) - q * Signed(b)), Wrap(q)>>
    [] op = "DIVU" /\ b # 0 -> <<a % b, a \div b>>
    [] op = "MTHI" -> <<a, s.lo>>
    [] op = "MTLO" -> <<s.hi, a>>

\* LW, LH, LHU, LB, LBU: bytes read, and the value after extension.
LoadSize(op) == CASE op \in {"LB", "LBU", "SB"} -> 1
                  [] op \in {"LH", "LHU", "SH"} -> 2
                  [] OTHER -> 4
Extended(op, v) ==
  CASE op = "LB" -> SignExtend(v % 2^ByteBits, ByteBits)
    [] op = "LBU" -> v % 2^ByteBits
    [] op = "LH" -> SignExtend(v, 2 * ByteBits)
    [] OTHER -> v

Low(x, bytes) == x % 2^(bytes * ByteBits)
High(x, bytes) == x \div 2^(bytes * ByteBits)

\* Mutant: the register is merged although a load of it is pending.
PendingIgnored(s, rt) == s.reg[rt]

\* The value LWL and LWR merge into: a pending load of rt comes first.
Pending(s, rt) == IF s.loadReg = rt THEN s.loadValue ELSE s.reg[rt]

\* LWL and LWR at byte n of the word v, merged into the old value r.
Merge(op, n, v, r) ==
  CASE op = "LWL" -> Low(r, 3 - n) + Wrap(v * 2^((3 - n) * ByteBits))
    [] op = "LWR" -> High(r, 4 - n) * 2^((4 - n) * ByteBits) + High(v, n)

\* Mutant: SWR shifts the register one byte too little.
PatchShort(op, n, v, r) ==
  CASE op = "SWL" -> High(v, n + 1) * 2^((n + 1) * ByteBits) + High(r, 3 - n)
    [] op = "SWR" -> IF n = 0 THEN r
                     ELSE Low(v, n) + Wrap(r * 2^((n - 1) * ByteBits))

\* SWL and SWR: the register r put into the word v from byte n.
Patch(op, n, v, r) ==
  CASE op = "SWL" -> High(v, n + 1) * 2^((n + 1) * ByteBits) + High(r, 3 - n)
    [] op = "SWR" -> Low(v, n) + Wrap(r * 2^(n * ByteBits))

\* Where the instruction after the delay slot is.
PcAfter(s, i) ==
  LET after == Wrap(s.next + 4)
      a == s.reg[i.rs]
      b == s.reg[i.rt]
      taken == CASE i.op = "BEQ" -> a = b
                 [] i.op = "BNE" -> a # b
                 [] i.op \in {"BGEZ", "BGEZAL"} -> ~Sign(a)
                 [] i.op \in {"BLTZ", "BLTZAL"} -> Sign(a)
                 [] i.op = "BGTZ" -> Signed(a) > 0
                 [] i.op = "BLEZ" -> Signed(a) <= 0
                 [] OTHER -> FALSE
  IN  CASE i.op \in {"J", "JAL"} ->
             (after \div 2^JBits) * 2^JBits + ((i.extra * 4) % 2^JBits)
        [] i.op \in {"JR", "JALR"} -> a
        [] OTHER -> IF taken THEN Wrap(s.next + 4 * i.extra) ELSE after

Link == {"JAL", "JALR", "BGEZAL", "BLTZAL"}

\* The link is written before rs is read.
Linked(s, i) ==
  IF i.op \notin Link THEN s
  ELSE [s EXCEPT !.reg[IF i.op = "JALR" THEN i.rd ELSE 31] = Wrap(s.next + 4)]

\* Mutant: register 0 keeps what was loaded into it.
DelayedLoadInto0(s, nextReg, nextValue) ==
  [s EXCEPT !.reg[s.loadReg] = s.loadValue,
            !.loadReg = nextReg, !.loadValue = nextValue]

\* Machine::DelayedLoad.
DelayedLoad(s, nextReg, nextValue) ==
  [s EXCEPT !.reg = [[@ EXCEPT ![s.loadReg] = s.loadValue] EXCEPT ![0] = 0],
            !.loadReg = nextReg, !.loadValue = nextValue]

Stores == {"SB", "SH", "SW", "SWL", "SWR"}
Loads == {"LB", "LBU", "LH", "LHU", "LW", "LWL", "LWR"}
Partial == {"LWL", "LWR", "SWL", "SWR"}

Ea(s, i) == Wrap(s.reg[i.rs] + i.extra)
WordAddr(s, i) == IF i.op \in Partial THEN Ea(s, i) - (Ea(s, i) % 4) ELSE Ea(s, i)

\* The second operand of a one-result instruction.
Operand(s, i) ==
  CASE i.op \in {"ANDI", "ORI", "XORI"} -> Low(i.extra, 2)
    [] i.op \in Immediate \ {"ANDI", "ORI", "XORI"} -> i.extra
    [] OTHER -> s.reg[i.rt]

\* The exception instruction i raises in s, after the fetch.  Dividing the
\* least int by -1 is a trap of the host.
Fault(s, i) ==
  CASE i.op = "SYSCALL" -> "Syscall"
    [] i.op \in {"RES", "UNIMP"} -> "IllegalInstr"
    [] i.op \in Alu -> IF Overflows(i.op, s.reg[i.rs], Operand(s, i))
                       THEN "Overflow" ELSE "none"
    [] i.op = "DIV" -> IF s.reg[i.rs] = 2^(W - 1) /\ s.reg[i.rt] = 2^W - 1
                       THEN "HostTrap" ELSE "none"
    [] i.op \in Loads \cup Stores ->
         Translate(WordAddr(s, i), LoadSize(i.op), i.op \in Stores)
    [] OTHER -> "none"

\* Registers and memory after instruction i, which raises no exception, up to
\* the delayed load and the program counters.
Effect(s, i) ==
  LET a == s.reg[i.rs]
      addr == WordAddr(s, i)
      n == Ea(s, i) % 4
      v == ReadMem(s, addr, LoadSize(i.op))
  IN  CASE i.op \in Alu ->
             [s EXCEPT !.reg[IF i.op \in Immediate THEN i.rt ELSE i.rd] =
                AluValue(s, i.op, a, Operand(s, i), i.extra)]
        [] i.op \in {"MULT", "MULTU", "DIV", "DIVU", "MTHI", "MTLO"} ->
             LET r == HiLo(s, i.op, a, s.reg[i.rt])
             IN  [s EXCEPT !.hi = r[1], !.lo = r[2]]
        [] i.op \in Loads -> Used(s, addr)
        [] i.op \in {"SB", "SH", "SW"} ->
             WriteMem(s, addr, LoadSize(i.op), s.reg[i.rt])
        [] i.op \in {"SWL", "SWR"} ->
             WriteMem(s, addr, 4, Patch(i.op, n, v, s.reg[i.rt]))
        [] OTHER -> Linked(s, i)

NextLoad(s, i) ==
  LET v == ReadMem(s, WordAddr(s, i), LoadSize(i.op))
  IN  CASE i.op \in {"LWL", "LWR"} ->
             <<i.rt, Merge(i.op, Ea(s, i) % 4, v, Pending(s, i.rt))>>
        [] i.op \in Loads \ Partial -> <<i.rt, Extended(i.op, v)>>
        [] OTHER -> <<0, 0>>

\* Mutant: the program counters have advanced when the trap is taken.
RaiseLate(s, addr) ==
  DelayedLoad([s EXCEPT !.badVAddr = addr, !.prev = s.pc, !.pc = s.next], 0, 0)

\* Machine::RaiseException up to the handler.
Raise(s, addr) ==
  DelayedLoad([s EXCEPT !.badVAddr = addr], 0, 0)

\* The instruction after the fetch: the new state and the exception raised.
\* SWL and SWR read the word before the write is refused.
Exec(s, i) ==
  LET e == Fault(s, i)
      l == NextLoad(s, i)
      addr == IF i.op \in Loads \cup Stores THEN WordAddr(s, i) ELSE 0
      t == Effect(s, i)
      read == i.op \in {"SWL", "SWR"} /\ e = "ReadOnly"
  IN  IF e # "none" THEN <<Raise(IF read THEN Used(s, addr) ELSE s, addr), e>>
      ELSE <<[DelayedLoad(t, l[1], l[2]) EXCEPT
                !.prev = s.pc, !.pc = s.next, !.next = PcAfter(t, i)],
             "none">>

\* One round of Machine::Run: fetch, decode, execute.
OneInstruction(w) ==
  LET e == Translate(m.pc, 4, FALSE)
      r == Exec(Used(m, m.pc), Decode(w))
  IN  /\ which = "none"
      /\ steps < MaxSteps
      /\ steps' = steps + 1
      /\ IF e # "none"
         THEN m' = Raise(m, m.pc) /\ which' = e
         ELSE m' = r[1] /\ which' = r[2]

\* Interrupt::CheckIfDue between two instructions.
Interrupted ==
  /\ which = "none"
  /\ m' = DelayedLoad(m, 0, 0)
  /\ UNCHANGED <<which, steps>>

\* ExceptionHandler for a system call that returns x, with IncreasePC; for
\* every other exception it halts the machine.
SyscallReturns(x) ==
  /\ which = "Syscall"
  /\ m' = [m EXCEPT !.reg[2] = x, !.prev = m.pc, !.pc = Wrap(m.pc + 4),
                    !.next = Wrap(m.pc + 8)]
  /\ which' = "none"
  /\ UNCHANGED steps

Next ==
  \/ \E w \in Code : OneInstruction(w)
  \/ Interrupted
  \/ \E x \in {0, 1} : SyscallReturns(x)

Spec == Init /\ [][Next]_vars

----------------------------------------------------------------------------
(* Properties.                                                             *)

\* Register 0 reads as zero before every instruction, whatever was loaded into
\* it or computed into it (DelayedLoad ends with registers[0] = 0).
R0Zero == m.reg[0] = 0

\* "re-start the instruction execution from the beginning": an instruction
\* that raises an exception has changed no program counter, no memory and no
\* register but those of a load already pending (OneInstruction returns early).
Restartable ==
  [][which = "none" /\ which' # "none" =>
       /\ UNCHANGED <<m.pc, m.next, m.prev, m.hi, m.lo, m.mem, m.dirty>>
       /\ \A r \in GPR \ {0, m.loadReg} : m'.reg[r] = m.reg[r]
       /\ m'.loadReg = 0]_vars

Instr(op, rs, rt, rd, extra) ==
  [op |-> op, rs |-> rs, rt |-> rt, rd |-> rd, extra |-> extra]
Nop == Instr("SLL", 0, 0, 0, 0)
RECURSIVE Run(_, _)
Run(s, prog) ==
  IF prog = <<>> THEN s ELSE Run(Exec(s, Head(prog))[1], Tail(prog))

\* The addresses where a word of any alignment can be read, or written.
Spans(writing) ==
  {a \in 0..(PageSize * 2) : \A k \in {0, 3} :
     Translate((a + k) - ((a + k) % 4), 4, writing) = "none"}
Bytes(s, a) == [k \in 0..3 |-> s.mem[PhysAddr(a + k)]]
WordOf(b) == b[0] + b[1] * 2^ByteBits + b[2] * 2^(2 * ByteBits) + b[3] * 2^(3 * ByteBits)

\* LWL and LWR back to back, in either order and with no slot between them,
\* load the word at any alignment, also across two pages: the second merges
\* into the pending result of the first, or into the register when an
\* interrupt between the two has ended the pending load.
UnalignedLoad ==
  \A a \in Spans(FALSE) :
    LET l == Instr("LWL", 0, 2, 0, a + 3)
        r == Instr("LWR", 0, 2, 0, a)
        v == WordOf(Bytes(m, a))
        interrupted == DelayedLoad(Exec(m, l)[1], 0, 0)
    IN  /\ Run(m, <<l, r, Nop>>).reg[2] = v
        /\ Run(m, <<r, l, Nop>>).reg[2] = v
        /\ Run(interrupted, <<r, Nop>>).reg[2] = v

\* SWL and SWR store the register at any alignment and touch no other byte.
UnalignedStore ==
  m.loadReg # 2 =>
    \A a \in Spans(TRUE) :
      LET s == Run(m, <<Instr("SWL", 0, 2, 0, a + 3), Instr("SWR", 0, 2, 0, a)>>)
          own == {PhysAddr(a + k) : k \in 0..3}
      IN  /\ WordOf(Bytes(s, a)) = m.reg[2]
          /\ \A p \in DOMAIN m.mem \ own : s.mem[p] = m.mem[p]

\* MULT and MULTU leave the double-length product in Hi and Lo (Mult).
Product ==
  LET a == m.reg[1]
      b == m.reg[2]
      hilo(op) == LET s == Exec(m, Instr(op, 1, 2, 0, 0))[1] IN s.hi * 2^W + s.lo
  IN  /\ hilo("MULTU") = a * b
      /\ hilo("MULT") = (Signed(a) * Signed(b)) % 2^(2 * W)

\* ADD, ADDI and SUB trap exactly when the true result does not fit an int.
OverflowExact ==
  LET a == m.reg[1]
      b == m.reg[2]
      fits(x) == x \in -(2^(W - 1))..(2^(W - 1) - 1)
      traps(i) == Exec(m, i)[2] = "Overflow"
  IN  /\ traps(Instr("ADD", 1, 2, 1, 0)) <=> ~fits(Signed(a) + Signed(b))
      /\ traps(Instr("ADDI", 1, 2, 1, b)) <=> ~fits(Signed(a) + Signed(b))
      /\ traps(Instr("SUB", 1, 2, 1, 0)) <=> ~fits(Signed(a) - Signed(b))

\* A page whose contents have changed is writable and has its use and dirty
\* bits set, however it was reached (Translate).
ChangesAreMarked ==
  \A p \in DOMAIN PageTable :
    (\E k \in 0..(PageSize - 1) :
       LET a == PageTable[p].physicalPage * PageSize + k
       IN  a < MemorySize /\ m.mem[a] # MemByte(a))
    => ~PageTable[p].readOnly /\ p \in m.use /\ p \in m.dirty

=============================================================================
