-------------------------------- MODULE Loader --------------------------------
(***************************************************************************)
(* What A5's main does before the first instruction: the arguments behind  *)
(* "--" are put into the simulated memory (main.c), then the listing of    *)
(* the program is read line by line (read_exec.c).  Lines are told apart   *)
(* as the three sscanf calls tell them apart:                              *)
(*   data  an address and up to 16 bytes in hexadecimal, then the bytes as *)
(*         characters.  When the bytes end with a full group of four, the  *)
(*         characters are read as one more group: junk are the bytes that  *)
(*         their beginning spells;                                         *)
(*   insn  an address, a word and its assembler text;                      *)
(*   entry an address and a symbol;                                        *)
(*   other anything else.                                                  *)
(* A string is the sequence of its characters; Dashes is "--".             *)
(***************************************************************************)
EXTENDS RiscvMemory, Sequences

CONSTANTS Inputs,          \* records of argv and listing, the command line and the file
          Dashes, LogFlag, \* the strings "--" and "-l"
          StartSymbol      \* "_start>:"

Byte == 0 .. 255

\* What sscanf leaves of a line, of each kind: four groups of four bytes, and one group of junk.
Readable(line) == /\ line.kind = "data" => /\ line.addr \in Word
                                          /\ line.bytes \in Seq(Byte) /\ Len(line.bytes) <= 16
                                          /\ line.junk \in Seq(Byte) /\ Len(line.junk) <= 4
                  /\ line.kind = "insn" => line.addr \in Word /\ line.word \in Word
                  /\ line.kind = "entry" => line.addr \in Word

\* A command line is a sequence of strings, a file a sequence of lines.
ASSUME InputsAssumption ==
  \A i \in Inputs : LET lines == {i.listing[n] : n \in DOMAIN i.listing}
                   IN /\ i.argv \in Seq(Seq(Byte))
                      /\ i.listing \in Seq(lines) /\ \A line \in lines : Readable(line)

VARIABLES phase, \* where main is: starting, opening, loading, running, or how it ended
          input, \* the command line and the file
          rest,  \* the lines not yet read
          mem,
          text,  \* the assembly table
          start  \* start_addr

loaderVars == <<phase, input, rest, mem, text, start>>

NoStart == Ones   \* -1
Ended == {"exited", "failed", "killed"}   \* exit(0), exit(-1), a signal

LoaderInit == /\ phase = "starting"
              /\ input \in Inputs
              /\ rest = input.listing
              /\ mem = NoWords
              /\ text = <<>>
              /\ start = NoStart

-----------------------------------------------------------------------------
(* main.c.  argv[n] of the code is argv[n + 1] here.                       *)

seperator_position(argv) ==
  LET found == {n \in 1 .. Len(argv) - 1 : argv[n + 1] = Dashes}
  IN IF found = {} THEN Len(argv) ELSE CHOOSE n \in found : \A other \in found : n <= other

ProgramArgs(argv) == SubSeq(argv, seperator_position(argv) + 1, Len(argv))

count_addr == 16777216   \* 0x1000000
argv_addr  == 16777220

\* The member of a set of one.  (before is bound to memory as it is then: TLC computes it once.)
Only(S) == CHOOSE m \in S : TRUE

WriteBytes(m, addr, bytes) ==
  LET written[n \in 0 .. Len(bytes)] ==
        IF n = 0 THEN m
        ELSE Only({memory_wr_b(before, Plus(addr, n - 1), Natural(bytes[n])) : before \in {written[n - 1]}})
  IN written[Len(bytes)]

\* Off by one: as if strings were not terminated.
str_addrNoEnd(args, n) ==
  LET begin[k \in 1 .. n] == IF k = 1 THEN argv_addr + 4 * Len(args)
                             ELSE begin[k - 1] + Len(args[k - 1])
  IN begin[n]

\* Where the string of the n-th argument begins: behind the pointers and the strings before it.
str_addr(args, n) ==
  LET begin[k \in 1 .. n] == IF k = 1 THEN argv_addr + 4 * Len(args)
                             ELSE begin[k - 1] + Len(args[k - 1]) + 1
  IN begin[n]

WriteArgs(m, args) ==
  LET written[n \in 0 .. Len(args)] ==
        IF n = 0 THEN memory_wr_w(m, Natural(count_addr), Natural(Len(args)))
        ELSE Only({WriteBytes(memory_wr_w(before, Natural(argv_addr + 4 * (n - 1)),
                                          Natural(str_addr(args, n))),
                              Natural(str_addr(args, n)), Append(args[n], 0)) : before \in {written[n - 1]}})
  IN written[Len(args)]

\* With one or three words before the separator main goes on; the log file may not open.
PassArgs ==
  LET argv == input.argv  argc == seperator_position(argv)
  IN /\ phase = "starting"
     /\ mem' = IF ProgramArgs(argv) # <<>> THEN WriteArgs(mem, ProgramArgs(argv)) ELSE mem
     /\ \/ phase' = "opening" /\ argc \in {2, 4}
        \/ phase' = "failed" /\ (argc = 4 => argv[3] = LogFlag) /\ argc # 2
     /\ UNCHANGED <<input, rest, text, start>>

-----------------------------------------------------------------------------
(* read_exec.c.                                                            *)

\* The listing need not exist.
OpenListing == /\ phase = "opening"
               /\ phase' \in {"loading", "failed"}
               /\ UNCHANGED <<input, rest, mem, text, start>>

\* The bytes count_hexes finds: all groups are full, or the one that is not ends the count.
BytesRead(line) == IF Len(line.bytes) \in {4, 8, 12} THEN line.bytes \o line.junk ELSE line.bytes

NextLine(kind) == /\ phase = "loading"
                  /\ rest # <<>>
                  /\ Head(rest).kind = kind
                  /\ rest' = Tail(rest)

ReadData == /\ NextLine("data")
            /\ mem' = WriteBytes(mem, Head(rest).addr, BytesRead(Head(rest)))
            /\ UNCHANGED <<phase, input, text, start>>

ReadInsn == LET line == Head(rest)
            IN /\ NextLine("insn")
               /\ IF WordAligned(line.addr)
                  THEN /\ mem' = memory_wr_w(mem, line.addr, line.word)
                       /\ text' = [a \in DOMAIN text \cup {line.addr} |-> IF a = line.addr THEN line.text ELSE text[a]]
                       /\ UNCHANGED phase
                  ELSE phase' = "failed" /\ UNCHANGED <<mem, text>>
               /\ UNCHANGED <<input, start>>

ReadEntry == /\ NextLine("entry")
             /\ start' = IF Head(rest).symbol = StartSymbol THEN Head(rest).addr ELSE start
             /\ UNCHANGED <<phase, input, mem, text>>

ReadOther == NextLine("other") /\ UNCHANGED <<phase, input, mem, text, start>>

FinishLoading == /\ phase = "loading"
                 /\ rest = <<>>
                 /\ phase' = IF start # NoStart THEN "running" ELSE "failed"
                 /\ UNCHANGED <<input, rest, mem, text, start>>

LoaderNext == \/ PassArgs \/ OpenListing
              \/ ReadData \/ ReadInsn \/ ReadEntry \/ ReadOther
=============================================================================
