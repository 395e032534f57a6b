-------------------------------- MODULE RiscV ---------------------------------
(***************************************************************************)
(* The instructions of RV32IM that A5/opgave.md asks for, as the RISC-V    *)
(* specification 2.2 it refers to defines them, without the system calls.  *)
(* This is what A5's simulator is compared with.                           *)
(***************************************************************************)
EXTENDS RiscvMemory

VARIABLES reg, PC, mem

inst   == memory_rd_w(mem, PC)
opcode == Field(inst, 0, 7)
rd     == Field(inst, 7, 5)
funct3 == Field(inst, 12, 3)
rs1    == reg[Field(inst, 15, 5)]
rs2    == reg[Field(inst, 20, 5)]
funct7 == Field(inst, 25, 7)

\* Figure 2.4: which bit of the instruction each bit of the immediate is.
ImmI(w) == [i \in Bits |-> IF i < 11 THEN w[20 + i] ELSE w[31]]
ImmS(w) == [i \in Bits |-> IF i < 5 THEN w[7 + i] ELSE IF i < 11 THEN w[20 + i] ELSE w[31]]
ImmB(w) == [i \in Bits |-> IF i = 0 THEN 0
                           ELSE IF i = 11 THEN w[7]
                           ELSE IF i < 5 THEN w[7 + i] ELSE IF i < 11 THEN w[20 + i] ELSE w[31]]
ImmU(w) == [i \in Bits |-> IF i < 12 THEN 0 ELSE w[i]]
ImmJ(w) == [i \in Bits |-> IF i = 0 THEN 0
                           ELSE IF i = 11 THEN w[20]
                           ELSE IF i < 11 THEN w[20 + i] ELSE IF i < 20 THEN w[i] ELSE w[31]]

-----------------------------------------------------------------------------
(* Results.                                                                *)

Flag(condition) == Natural(IF condition THEN 1 ELSE 0)
Shift(b) == Field(b, 0, 5)

Alu(name, a, b) ==
  CASE name = "add"  -> Add(a, b)
    [] name = "sub"  -> Sub(a, b)
    [] name = "sll"  -> ShiftLeft(a, Shift(b))
    [] name = "slt"  -> Flag(Less(a, b))
    [] name = "sltu" -> Flag(Below(a, b))
    [] name = "xor"  -> Xor(a, b)
    [] name = "srl"  -> ShiftRight(a, Shift(b))
    [] name = "sra"  -> ShiftRightArith(a, Shift(b))
    [] name = "or"   -> Or(a, b)
    [] name = "and"  -> And(a, b)
    [] name = "mul"    -> Product(a, b)
    [] name = "mulh"   -> HighOfSigned(a, b)
    [] name = "mulhsu" -> HighOfMixed(a, b)
    [] name = "mulhu"  -> HighOfUnsigned(a, b)
    [] name = "div"  -> IF b = Zero THEN Ones
                        ELSE IF a = Lowest /\ b = Ones THEN a ELSE SignedQuotient(a, b)
    [] name = "divu" -> IF b = Zero THEN Ones ELSE Quotient(a, b)
    [] name = "rem"  -> IF b = Zero THEN a ELSE IF b = Ones THEN Zero ELSE SignedRemainder(a, b)
    [] name = "remu" -> IF b = Zero THEN a ELSE Remainder(a, b)

\* funct7 of each form, by funct3.
Base == <<"add", "sll", "slt", "sltu", "xor", "srl", "or", "and">>
Alternate == [f \in {0, 5} |-> IF f = 0 THEN "sub" ELSE "sra"]
Multiply == <<"mul", "mulh", "mulhsu", "mulhu", "div", "divu", "rem", "remu">>

Compare(f, a, b) ==
  CASE f = 0 -> a = b
    [] f = 1 -> a # b
    [] f = 4 -> Less(a, b)
    [] f = 5 -> ~ Less(a, b)
    [] f = 6 -> Below(a, b)
    [] f = 7 -> ~ Below(a, b)

-----------------------------------------------------------------------------
(* Steps.                                                                  *)

Write(value) == reg' = IF rd = 0 THEN reg ELSE [reg EXCEPT ![rd] = value]
Follow == PC' = Plus(PC, 4) /\ UNCHANGED mem

Register == /\ opcode = 51
            /\ \/ funct7 = 0 /\ Write(Alu(Base[funct3 + 1], rs1, rs2))
               \/ funct7 = 32 /\ funct3 \in {0, 5} /\ Write(Alu(Alternate[funct3], rs1, rs2))
               \/ funct7 = 1 /\ Write(Alu(Multiply[funct3 + 1], rs1, rs2))
            /\ Follow

Immediate == /\ opcode = 19
             /\ \/ (funct3 \in {1, 5} => funct7 = 0)
                   /\ Write(Alu(Base[funct3 + 1], rs1, ImmI(inst)))
                \/ funct3 = 5 /\ funct7 = 32 /\ Write(Alu("sra", rs1, ImmI(inst)))
             /\ Follow

\* Memory as bytes, a word's lowest byte first.
Loaded(addr, n) ==
  [i \in Bits |-> IF i < 8 * n THEN memory_rd_b(mem, Plus(addr, i \div 8))[i % 8] ELSE 0]
SignExtended(value, n) == [i \in Bits |-> IF i < n THEN value[i] ELSE value[n - 1]]

Load == LET addr == Add(rs1, ImmI(inst))
        IN /\ opcode = 3
           /\ \/ funct3 = 0 /\ Write(SignExtended(Loaded(addr, 1), 8))
              \/ funct3 = 1 /\ Write(SignExtended(Loaded(addr, 2), 16))
              \/ funct3 = 2 /\ Write(Loaded(addr, 4))
              \/ funct3 = 4 /\ Write(Loaded(addr, 1))
              \/ funct3 = 5 /\ Write(Loaded(addr, 2))
           /\ Follow

\* The n bytes from addr on are those of rs2, and the others of memory are kept: the ones around
\* them and every word that another address is in.
Stored(addr, n) ==
  /\ \A k \in -4 .. 7 :
       LET at == Add(addr, OfInt(k))
       IN memory_rd_b(mem', at) = IF k \in 0 .. n - 1 THEN Extract(rs2, 8 * k, 8) ELSE memory_rd_b(mem, at)
  /\ \A p \in DOMAIN mem \ {place(addr)} : mem'[p] = mem[p]

Store == LET addr == Add(rs1, ImmS(inst))
         IN /\ opcode = 35
            /\ \/ funct3 = 0 /\ Stored(addr, 1)
               \/ funct3 = 1 /\ Stored(addr, 2)
               \/ funct3 = 2 /\ Stored(addr, 4)
            /\ PC' = Plus(PC, 4)
            /\ UNCHANGED reg

Branch == /\ opcode = 99
          /\ funct3 \notin {2, 3}
          /\ PC' = IF Compare(funct3, rs1, rs2) THEN Add(PC, ImmB(inst)) ELSE Plus(PC, 4)
          /\ UNCHANGED <<reg, mem>>

Jal == /\ opcode = 111
       /\ Write(Plus(PC, 4))
       /\ PC' = Add(PC, ImmJ(inst))
       /\ UNCHANGED mem

Jalr == /\ opcode = 103
        /\ funct3 = 0
        /\ Write(Plus(PC, 4))
        /\ PC' = [Add(rs1, ImmI(inst)) EXCEPT ![0] = 0]
        /\ UNCHANGED mem

Lui   == opcode = 55 /\ Write(ImmU(inst)) /\ Follow
Auipc == opcode = 23 /\ Write(Add(PC, ImmU(inst))) /\ Follow

Next == Register \/ Immediate \/ Load \/ Store \/ Branch \/ Jal \/ Jalr \/ Lui \/ Auipc
=============================================================================
