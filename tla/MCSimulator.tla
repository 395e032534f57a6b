----------------------------- MODULE MCSimulator ------------------------------
(* Programs for the simulator, one instruction of interest in each.        *)
EXTENDS Simulator

B(n, k) == (n \div 2 ^ k) % 2

\* An instruction by its fields, and the formats in terms of them.
Instr(op, d, f3, r1, r2, f7) ==
  [i \in Bits |-> CASE i < 7 -> B(op, i) [] i \in 7 .. 11 -> B(d, i - 7) [] i \in 12 .. 14 -> B(f3, i - 12)
                    [] i \in 15 .. 19 -> B(r1, i - 15) [] i \in 20 .. 24 -> B(r2, i - 20)
                    [] OTHER -> B(f7, i - 25)]
IForm(op, d, f3, r1, imm) == Instr(op, d, f3, r1, imm % 32, (imm \div 32) % 128)
SForm(f3, r1, r2, imm) == Instr(opcode_S, imm % 32, f3, r1, r2, (imm \div 32) % 128)
BForm(f3, r1, r2, imm) == Instr(opcode_B, 2 * ((imm \div 2) % 16) + B(imm, 11), f3, r1, r2,
                                ((imm \div 32) % 64) + 64 * B(imm, 12))
UForm(op, d, imm) == Instr(op, d, imm % 8, (imm \div 8) % 32, (imm \div 256) % 32, imm \div 8192)
addi(d, r, imm) == IForm(opcode_I_1, d, 0, r, imm)
ecall == IForm(opcode_I_4, 0, 0, 0, 0)

OfRegisters == {Instr(opcode_R, 3, f3, 1, 2, f7) : f3 \in 0 .. 7, f7 \in {0, 1, 32}}
               \cup {Instr(opcode_R, 3, 5, 1, 2, 5)}
OfConstants == {IForm(opcode_I_1, 3, f3, 1, imm) : f3 \in {0, 2, 3, 4, 6, 7}, imm \in {-3, 5}}
               \cup {IForm(opcode_I_1, 1, f3, 1, imm) : f3 \in {1, 5}, imm \in {5, 20, 67, 1027}}
               \cup {addi(0, 0, 1)}
Branches == {BForm(f3, 1, 2, 32) : f3 \in 0 .. 7} \cup {BForm(0, 0, 0, 8), BForm(0, 0, 0, -260)}
Jumps == {IForm(opcode_I_3, 1, 0, 1, 76), IForm(opcode_I_3, 1, 0, 0, 76), IForm(opcode_I_3, 0, 1, 1, 0),
          UForm(opcode_J, 1, 2048)}
Others == {UForm(op, 3, imm) : op \in {opcode_U_1, opcode_U_2}, imm \in {0, 1, 8}}
          \cup {IForm(opcode_I_4, 0, 0, 0, 1), Zero}

\* Put at address 0 and executed once with x2 = 0 and once with x2 = -2.
OfMemory == {IForm(opcode_I_2, 3, f3, 0, at) : f3 \in 0 .. 5, at \in {128, 130, 131}}
            \cup {SForm(f3, 0, 2, at) : f3 \in 0 .. 3, at \in {128, 130, 131}}

-----------------------------------------------------------------------------
(* Listings.                                                               *)

BytesOf(word) == [k \in 1 .. 4 |-> Field(word, 8 * (k - 1), 8)]
Data(addr, bytes, junk) == [kind |-> "data", addr |-> Natural(addr), bytes |-> bytes, junk |-> junk]
Insn(addr, word) == [kind |-> "insn", addr |-> Natural(addr), word |-> word, text |-> addr]
Entry(addr, symbol) == [kind |-> "entry", addr |-> Natural(addr), symbol |-> symbol]
Other == [kind |-> "other"]

Disassembly(base, words) == [n \in 1 .. Len(words) |-> Insn(base + 4 * (n - 1), words[n])]

\* The section .text, cut behind three words so that junk follows, .rodata, then the disassembly.
Listing(base, words) ==
  <<Other, Data(base, BytesOf(words[1]) \o BytesOf(words[2]) \o BytesOf(words[3]), <<190>>),
    Data(128, <<1, 130, 255, 4, 5, 6, 7, 8, 9, 10, 11, 12, 13, 14, 15, 16>>, <<>>),
    Data(144, <<17, 18, 19, 20, 21, 22>>, <<171>>), Entry(base, StartSymbol)>>
  \o Disassembly(base, words)

\* Sections that are not loaded, .comment and .riscv.attributes, are listed both from address 0.
NotLoaded == <<Data(0, <<71, 67, 67, 58>>, <<>>), Data(0, <<65, 40>>, <<>>)>>

\* x1 and x2 get values, the instruction is at 72, and ecall is behind it and at 104.
RegisterProgram(instruction, x1, x2) ==
  NotLoaded \o Listing(64, <<addi(1, 0, x1), addi(2, 0, x2), instruction, ecall>>) \o <<Insn(104, ecall)>>
MemoryProgram(instruction) ==
  Listing(0, <<instruction, BForm(1, 4, 0, 32), addi(2, 0, -2), addi(4, 0, 1), IForm(opcode_I_3, 5, 0, 0, 0)>>)
  \o <<Insn(36, ecall)>>
\* -2^31 divided by -1.
TrapProgram == Listing(64, <<addi(1, 0, 1), addi(2, 0, 31), Instr(opcode_R, 1, 1, 1, 2, 0),
                             addi(2, 0, -1), Instr(opcode_R, 3, 4, 1, 2, 1)>>)

Programs ==
  {RegisterProgram(p[1], p[2][1], p[2][2]) :
     p \in (OfRegisters \cup OfConstants \cup Branches \cup Jumps \cup Others)
           \X {<<5, -3>>, <<-2048, 1>>, <<7, 7>>, <<-9, 0>>}}
  \cup {MemoryProgram(i) : i \in OfMemory}
  \cup {TrapProgram, <<Insn(2, ecall)>>, <<Entry(0, "main>:")>>}

\* Command lines: with and without arguments and options, and two that are refused.
Word1 == <<97>>
MCDashes == <<45, 45>>
MCLogFlag == <<45, 108>>
Plain == <<Word1, Word1>>
CommandLines == {Plain \o <<MCDashes>>, Plain \o <<MCDashes, <<98, 99>>, <<100>>>>,
                 Plain \o <<MCLogFlag, Word1, MCDashes, <<>>, <<101, 102, 103, 104>>>>,
                 Plain \o <<<<45, 115>>, Word1>>, <<Word1>>, Plain \o <<Word1>>}

MCInputs == {[argv |-> Plain, listing |-> p] : p \in Programs}
            \cup {[argv |-> line, listing |-> TrapProgram] : line \in CommandLines}
=============================================================================
