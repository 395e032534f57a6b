------------------------------ MODULE Simulator -------------------------------
(***************************************************************************)
(* The loop of A5/src/simulate.c over the memory that Loader has filled:   *)
(* each turn decodes the word at PC and executes it.  There is one action  *)
(* per opcode.  An instruction that no branch of the code matches leaves   *)
(* PC alone, so the loop meets it again: the action is then a stutter.     *)
(*                                                                         *)
(* The names of the code are kept: rs1, rs2 are the values of registers,   *)
(* rd is the number of one.                                                *)
(***************************************************************************)
EXTENDS Loader

VARIABLES reg, \* x0 .. x31; x0 is a register like the others
          PC

vars == <<loaderVars, reg, PC>>

Init == LoaderInit /\ reg = [r \in 0 .. 31 |-> Zero] /\ PC = Zero

-----------------------------------------------------------------------------
(* Decoding.                                                               *)

opcode_R   == 51   opcode_I_1 == 19
opcode_I_2 == 3    opcode_I_3 == 103
opcode_I_4 == 115  opcode_S   == 35
opcode_B   == 99   opcode_J   == 111
opcode_U_1 == 55   opcode_U_2 == 23

\* Sign bit not extended.
immediate_INoSign(w) == [i \in Bits |-> IF i < 12 THEN w[i + 20] ELSE 0]

\* calculate_immediate, one operator per format.
immediate_I(w) == [i \in Bits |-> IF i <= 10 THEN w[i + 20] ELSE w[31]]
immediate_S(w) == [i \in Bits |-> IF i = 0 THEN w[7] ELSE IF i <= 4 THEN w[i + 7]
                                  ELSE IF i <= 10 THEN w[i + 20] ELSE w[31]]
\* Bits 4 to 1 come from bits 31 to 28.
immediate_B(w) == [i \in Bits |-> IF i = 0 THEN 0 ELSE IF i <= 4 THEN w[i + 27]
                                  ELSE IF i <= 10 THEN w[i + 20]
                                  ELSE IF i = 11 THEN w[7] ELSE w[31]]
\* Bit 0 is set.
immediate_J(w) == [i \in Bits |-> IF i = 0 THEN 1 ELSE IF i <= 10 THEN w[i + 20]
                                  ELSE IF i = 11 THEN w[20]
                                  ELSE IF i <= 19 THEN w[i] ELSE w[31]]
\* The mask is 0x7FFFF800.
immediate_U(w) == [i \in Bits |-> IF i \in 11 .. 30 THEN w[i] ELSE 0]

calculate_immediate(w) ==
  LET opcode == Field(w, 0, 7)
  IN CASE opcode \in {opcode_I_1, opcode_I_2, opcode_I_3, opcode_I_4} -> immediate_I(w)
       [] opcode = opcode_S -> immediate_S(w)
       [] opcode = opcode_B -> immediate_B(w)
       [] opcode = opcode_J -> immediate_J(w)
       [] opcode \in {opcode_U_1, opcode_U_2} -> immediate_U(w)
       [] OTHER -> Zero   \* not set, and not used

\* struct instruction, with the number of a register for the pointer to it.
decode(w) == [opcode |-> Field(w, 0, 7),     rd |-> Field(w, 7, 5),
              funct3 |-> Field(w, 12, 3),    rs1 |-> reg[Field(w, 15, 5)],
              rs2 |-> reg[Field(w, 20, 5)],  funct7 |-> Field(w, 25, 7),
              immediate |-> calculate_immediate(w), word |-> w]

-----------------------------------------------------------------------------
(* Executing.                                                              *)

Executing == phase = "running" /\ WordAligned(PC)

\* The instruction at PC, if there is one to execute and it has one of these opcodes.
Fetched(opcodes) == {ins \in {decode(w) : w \in {memory_rd_w(mem, PC)}} :
                       Executing /\ ins.opcode \in opcodes}

KeepsRunning == UNCHANGED <<phase, input, rest, text, start>>
Dies(how)    == phase' = how /\ UNCHANGED <<input, rest, mem, text, start, reg, PC>>

Set(rd, value) == reg' = [reg EXCEPT ![rd] = value]
increment_PC   == PC' = Plus(PC, 4)
NoBranch       == UNCHANGED <<reg, PC>>

\* What a matching branch computes, or nothing when none matches.
Finish(rd, results) ==
  IF results = {} THEN NoBranch ELSE \E value \in results : Set(rd, value) /\ increment_PC

Flag(condition) == Natural(IF condition THEN 1 ELSE 0)
\* Shifting by a register: the build's shift instructions take the count modulo 32.
Count(b) == Field(b, 0, 5)

\* case opcode_R.  mulhsu and mulhu multiply in 32 bits, so the upper half is always zero.
\* slt and rem stand behind the condition of another branch and are not reached.
result_R(funct3, funct7, a, b) ==
  CASE funct3 = 0 /\ funct7 = 0  -> {Add(a, b)}
    [] funct3 = 0 /\ funct7 = 32 -> {Sub(a, b)}
    [] funct3 = 0 /\ funct7 = 1  -> {Product(a, b)}
    [] funct3 = 2 /\ funct7 = 1  -> {Zero}
    [] funct3 = 4 /\ funct7 = 0  -> {Xor(a, b)}
    [] funct3 = 4 /\ funct7 = 1 /\ b # Zero -> {SignedQuotient(a, b)}
    [] funct3 = 6 /\ funct7 = 0  -> {Or(a, b)}
    [] funct3 = 7 /\ funct7 = 0  -> {And(a, b)}
    [] funct3 = 7 /\ funct7 = 1  -> {Remainder(a, b)}
    [] funct3 = 1 /\ funct7 = 0  -> {ShiftLeft(a, Count(b))}
    [] funct3 = 1 /\ funct7 = 1  -> {HighOfSigned(a, b)}
    [] funct3 = 5 /\ funct7 = 0  -> {ShiftRight(a, Count(b))}
    [] funct3 = 5 /\ funct7 = 5  -> {ShiftRightArith(a, Count(b))}
    [] funct3 = 5 /\ funct7 = 1 /\ b # Zero -> {Quotient(a, b)}
    [] funct3 = 3 /\ funct7 = 1  -> {Zero}
    [] funct3 = 3 /\ funct7 = 0  -> {Flag(Below(a, b))}
    [] OTHER -> {}

\* The host's division traps.
Trap(ins) == /\ ins.opcode = opcode_R
             /\ ins.funct7 = 1
             /\ \/ ins.funct3 = 7 /\ ins.rs2 = Zero
                \/ ins.funct3 = 4 /\ ins.rs1 = Lowest /\ ins.rs2 = Ones

Register == \E ins \in Fetched({opcode_R}) :
              /\ ~ Trap(ins)
              /\ Finish(ins.rd, result_R(ins.funct3, ins.funct7, ins.rs1, ins.rs2))
              /\ UNCHANGED mem /\ KeepsRunning

RegisterTrap == \E ins \in Fetched({opcode_R}) : Trap(ins) /\ Dies("killed")

\* case opcode_I_1.  The shifts use the lowest four bits of the immediate; srai wants 2 in the
\* upper seven.
result_I(funct3, a, imm) ==
  LET upper == Field(imm, 5, 7)  count == Field(imm, 0, 4)
  IN CASE funct3 = 0 -> {Add(a, imm)}
       [] funct3 = 4 -> {Xor(a, imm)}
       [] funct3 = 6 -> {Or(a, imm)}
       [] funct3 = 7 -> {And(a, imm)}
       [] funct3 = 1 /\ upper = 0 -> {ShiftLeft(a, count)}
       [] funct3 = 5 /\ upper = 0 -> {ShiftRight(a, count)}
       [] funct3 = 5 /\ upper = 2 -> {ShiftRightArith(a, count)}
       [] funct3 = 2 -> {Flag(Less(a, imm))}
       [] funct3 = 3 -> {Flag(Below(a, imm))}
       [] OTHER -> {}

Immediate == \E ins \in Fetched({opcode_I_1}) :
               /\ Finish(ins.rd, result_I(ins.funct3, ins.rs1, ins.immediate))
               /\ UNCHANGED mem /\ KeepsRunning

\* Where loads and stores go: addresses count from PC.
Address(ins) == Add(Add(PC, ins.rs1), ins.immediate)

\* Reading or writing a word or halfword off its boundary exits.
Unaligned(size, addr) == \/ size = 2 /\ ~ WordAligned(addr)
                         \/ size = 1 /\ ~ HalfAligned(addr)

\* case opcode_I_2.  Nothing is sign extended.
loaded(funct3, addr) == CASE funct3 \in {0, 4} -> {memory_rd_b(mem, addr)}
                          [] funct3 \in {1, 5} -> {memory_rd_h(mem, addr)}
                          [] funct3 = 2 -> {memory_rd_w(mem, addr)}
                          [] OTHER -> {}

Load == \E ins \in Fetched({opcode_I_2}), addr \in {Address(i) : i \in Fetched({opcode_I_2})} :
          IF ins.funct3 \in {1, 2, 5} /\ Unaligned(ins.funct3 % 4, addr) THEN Dies("failed")
          ELSE Finish(ins.rd, loaded(ins.funct3, addr)) /\ UNCHANGED mem /\ KeepsRunning

\* case opcode_S.
stored(funct3, addr, data) == CASE funct3 = 0 -> memory_wr_b(mem, addr, data)
                                [] funct3 = 1 -> memory_wr_h(mem, addr, data)
                                [] funct3 = 2 -> memory_wr_w(mem, addr, data)

Store == \E ins \in Fetched({opcode_S}), addr \in {Address(i) : i \in Fetched({opcode_S})} :
           IF ins.funct3 > 2 THEN NoBranch /\ UNCHANGED mem /\ KeepsRunning
           ELSE IF Unaligned(ins.funct3, addr) THEN Dies("failed")
           ELSE /\ mem' = stored(ins.funct3, addr, ins.rs2)
                /\ increment_PC
                /\ UNCHANGED reg /\ KeepsRunning

\* case opcode_B.
TakenNever(f, a, b) == FALSE
Taken(f, a, b) ==
  CASE f = 0 -> a = b
    [] f = 1 -> a # b
    [] f = 4 -> Less(a, b)
    [] f = 5 -> ~ Less(a, b)
    [] f = 6 -> Below(a, b)
    [] f = 7 -> ~ Below(a, b)
    [] OTHER -> FALSE

Branch == \E ins \in Fetched({opcode_B}) :
            /\ IF ins.funct3 \in {2, 3} THEN UNCHANGED PC
               ELSE PC' = IF Taken(ins.funct3, ins.rs1, ins.rs2) THEN Add(PC, ins.immediate)
                          ELSE Plus(PC, 4)
            /\ UNCHANGED <<mem, reg>> /\ KeepsRunning

\* case opcode_J, opcode_I_3.
Jal == \E ins \in Fetched({opcode_J}) :
         /\ Set(ins.rd, Plus(PC, 4))
         /\ PC' = Add(PC, ins.immediate)
         /\ UNCHANGED mem /\ KeepsRunning

Jalr == \E ins \in Fetched({opcode_I_3}) :
          /\ IF ins.funct3 = 0 THEN Set(ins.rd, Plus(PC, 4)) /\ PC' = Add(ins.rs1, ins.immediate)
             ELSE NoBranch
          /\ UNCHANGED mem /\ KeepsRunning

\* case opcode_U_1, opcode_U_2.  The immediate is in its place already and shifted again.
Lui == \E ins \in Fetched({opcode_U_1}) :
         /\ Finish(ins.rd, {ShiftLeft(ins.immediate, 12)})
         /\ UNCHANGED mem /\ KeepsRunning

Auipc == \E ins \in Fetched({opcode_U_2}) :
           /\ Finish(ins.rd, IF ins.funct3 = 0 THEN {Add(PC, ShiftLeft(ins.immediate, 12))} ELSE {})
           /\ UNCHANGED mem /\ KeepsRunning

\* case opcode_I_4.  Whatever a7 asks for, the simulator exits.
Ecall == \E ins \in Fetched({opcode_I_4}) :
           IF ins.funct3 = 0 /\ ins.immediate = Zero THEN Dies("exited")
           ELSE NoBranch /\ UNCHANGED mem /\ KeepsRunning

\* default.
Unknown == /\ Fetched((0 .. 127) \ {opcode_R, opcode_I_1, opcode_I_2, opcode_I_3, opcode_I_4,
                                  opcode_S, opcode_B, opcode_J, opcode_U_1, opcode_U_2}) # {}
           /\ UNCHANGED vars

\* The fetch of a word off its boundary.
FetchUnaligned == phase = "running" /\ ~ WordAligned(PC) /\ Dies("failed")

Begin == FinishLoading /\ PC' = start /\ UNCHANGED reg

Next == \/ LoaderNext /\ UNCHANGED <<reg, PC>>
        \/ Begin
        \/ Register \/ RegisterTrap \/ Immediate \/ Load \/ Store \/ Branch
        \/ Jal \/ Jalr \/ Lui \/ Auipc \/ Ecall \/ Unknown \/ FetchUnaligned

\* One thread, which nothing stops.
Spec == Init /\ [][Next]_vars /\ WF_vars(Next)

-----------------------------------------------------------------------------
(* Properties.                                                             *)

\* The words that the listing shows, and the bytes of its data lines.
ListedWords == {n \in 1 .. Len(input.listing) : input.listing[n].kind = "insn"}
ListedBytes == {nk \in (1 .. Len(input.listing)) \X (1 .. 16) :
                  input.listing[nk[1]].kind = "data" /\ nk[2] <= Len(input.listing[nk[1]].bytes)}

ByteIn(addr) == memory_rd_b(mem, addr)

\* The argument whose string begins at an address, as the simulated main finds it.
StringAt(addr, string) ==
  \A k \in 1 .. Len(string) + 1 :
    ByteIn(Plus(addr, k - 1)) = Natural(IF k <= Len(string) THEN string[k] ELSE 0)

ArgsPassed ==
  LET args == ProgramArgs(input.argv)
  IN args # <<>> =>
       /\ memory_rd_w(mem, Natural(count_addr)) = Natural(Len(args))
       /\ \A n \in 1 .. Len(args) :
            StringAt(memory_rd_w(mem, Natural(argv_addr + 4 * (n - 1))), args[n])

\* The bytes that a line stores, and those of them that it shows, with their addresses.
Located(addr, bytes) == {<<Plus(addr, k - 1), bytes[k]>> : k \in DOMAIN bytes}
Numbers(bytes) == [k \in DOMAIN bytes |-> Natural(bytes[k])]
BytesOfWord(word) == [k \in 1 .. 4 |-> Extract(word, 8 * (k - 1), 8)]
Stored(line) == CASE line.kind = "data" -> Located(line.addr, Numbers(BytesRead(line)))
                  [] line.kind = "insn" -> Located(line.addr, BytesOfWord(line.word))
                  [] OTHER -> {}
Shown(line) == IF line.kind = "data" THEN Located(line.addr, Numbers(line.bytes)) ELSE Stored(line)

\* The addresses of the arguments: their number, the pointers and the strings.
MaxNatural == 2147483647
ArgsEnd(args) == str_addr(args, Len(args)) + Len(args[Len(args)]) + 1
ArgsArea(args) == {Natural(x) : x \in count_addr .. ArgsEnd(args) - 1}

\* What the lines store: their places in the listing, the addresses and the bytes.
Storing(listing) == UNION {{<<n, p[1], p[2]>> : p \in Stored(listing[n])} : n \in DOMAIN listing}

\* What line n stores at an address is not replaced: no line behind it stores something else there
\* (the same may well be shown twice, as data and disassembled), and no instruction behind it has
\* its address and another text.  The arguments are kept if no line is for where they are.
Lasting(storing, n, p) == \A q \in storing : n < q[1] /\ p[1] = q[2] => p[2] = q[3]
LastText(listing, n) ==
  \A m \in {k \in DOMAIN listing : listing[k].kind = "insn"} :
    n < m /\ listing[n].addr = listing[m].addr => listing[n].text = listing[m].text
Apart(storing, args) == /\ ArgsEnd(args) <= MaxNatural
                        /\ \A q \in storing : q[2] \notin ArgsArea(args)

\* When the last line has been read, memory holds what the listing shows last for each address,
\* every instruction and every byte of data, whatever stood in the column of characters; and next to
\* that the arguments, which were written before, each with its end.
MemoryReady ==
  phase = "loading" /\ rest = <<>> =>
    LET storing == Storing(input.listing)
        args == ProgramArgs(input.argv)
    IN /\ \A n \in ListedWords :
            LET line == input.listing[n]
            IN /\ (\A p \in Stored(line) : Lasting(storing, n, p)) => memory_rd_w(mem, line.addr) = line.word
               /\ LastText(input.listing, n) => text[line.addr] = line.text
       /\ \A nk \in ListedBytes :
            LET line == input.listing[nk[1]]
                addr == Plus(line.addr, nk[2] - 1)
                byte == Natural(line.bytes[nk[2]])
            IN Lasting(storing, nk[1], <<addr, byte>>) => ByteIn(addr) = byte
       /\ args # <<>> /\ Apart(storing, args) => ArgsPassed

\* The instructions that the code executes as RISC-V defines them.  What is left out deviates:
\* anything that writes x0; slt, sra, rem, srai and the remainder by zero are never done; mulhsu
\* and mulhu give zero; shifts by an immediate of 16 and more lose a bit; a taken branch whose
\* bits 31 to 28 differ from its bits 11 to 8, and every jal, go to another place; lui and auipc
\* lose their operand unless it is zero; loads and stores are relative to PC, and the signed
\* loads are not sign extended.
Faithful(ins) ==
  LET w == ins.word  opcode == ins.opcode  f3 == ins.funct3  f7 == ins.funct7
  IN \/ /\ opcode = opcode_R
        /\ ins.rd # 0
        /\ <<f3, f7>> \notin {<<2, 0>>, <<5, 32>>, <<2, 1>>, <<3, 1>>, <<6, 1>>}
        /\ (f7 \in {0, 1} \/ <<f3, f7>> = <<0, 32>>)
        /\ (f7 = 1 /\ f3 >= 4 => ins.rs2 # Zero /\ ~ Trap(ins))
     \/ /\ opcode = opcode_I_1
        /\ ins.rd # 0
        /\ (f3 \in {1, 5} => f7 = 0 /\ w[24] = 0)
     \/ opcode = opcode_I_2 /\ ins.rd # 0 /\ PC = Zero /\ f3 \in {2, 4, 5}
     \/ opcode = opcode_S /\ PC = Zero /\ f3 \in {0, 1, 2}
     \/ /\ opcode = opcode_B
        /\ f3 \notin {2, 3}
        /\ (Taken(f3, ins.rs1, ins.rs2) => \A i \in 28 .. 31 : w[i] = w[i - 20])
     \/ /\ opcode = opcode_I_3
        /\ ins.rd # 0 /\ f3 = 0
        /\ Add(ins.rs1, ins.immediate)[0] = 0
     \/ /\ opcode \in {opcode_U_1, opcode_U_2}
        /\ ins.rd \in 1 .. 15
        /\ \A i \in 12 .. 31 : w[i] = 0

Covered == reg[0] = Zero /\ \E ins \in Fetched(0 .. 127) : Faithful(ins)

ISA == INSTANCE RiscV

\* A covered instruction changes registers, PC and memory as the specification of RISC-V says.
\* (A load or store off its boundary ends the simulation.)
FollowsISA == [][Covered /\ phase' = "running" => ISA!Next]_<<phase, reg, PC, mem>>

AtEcall == \E ins \in Fetched({opcode_I_4}) : ins.funct3 = 0 /\ ins.immediate = Zero

\* The simulation ends, at ecall at the latest, or it comes to something the code does not do as
\* RISC-V defines it: it does not stay at a covered instruction, nor go round in a loop of them
\* that the program leaves.
ProgramEnds == <>(phase \in Ended \/ (phase = "running" /\ ~ Covered /\ ~ AtEcall))
=============================================================================
