------------------------------ MODULE FileType -------------------------------
(***************************************************************************)
(* CheckType of A0/file.c: the bytes of a file are read one after the      *)
(* other until one decides what the file is.                               *)
(*                                                                         *)
(* A byte is the class the program puts it in: "nul"; "ascii"; "cont1",    *)
(* 80 to 9F, and "cont2", A0 to BF, which continue a UTF-8 character;      *)
(* "head2", "head3" and "head4", which begin one; and "high", F8 to FF.    *)
(***************************************************************************)
EXTENDS Integers, Sequences

CONSTANTS MaxBytes, \* bound on the length of a file
          None      \* no type yet

Types == {"empty", "data", "UTF", "ISO", "ASCII"}

ASSUME MaxBytesAssumption == MaxBytes \in Nat
ASSUME TypesAssumption == None \notin Types

Heads == {"head2", "head3", "head4"}
Continuations == {"cont1", "cont2"}
Bytes == {"nul", "ascii", "high"} \cup Continuations \cup Heads

VARIABLES buffer,      \* the file, None before it is opened
          pos,         \* the index of the next byte
          byteMissing, \* the bytes the character begun still lacks
          type         \* what CheckType returned, or None

fvars == <<buffer, pos, byteMissing, type>>

FInit == buffer = <<>> /\ pos = 0 /\ byteMissing = 0 /\ type = None

OpenFile == /\ pos = 0
            /\ \E len \in 0 .. MaxBytes : buffer' \in [1 .. len -> Bytes]
            /\ pos' = 1
            /\ type' = IF buffer' = <<>> THEN "empty" ELSE None
            /\ UNCHANGED byteMissing

Length(head) == CASE head = "head2" -> 2 [] head = "head3" -> 3 [] head = "head4" -> 4

\* Faulty: the first byte of a character is counted as missing.
ByteCountsHead(b) ==
  CASE b = "nul" -> type' = "data" /\ UNCHANGED byteMissing
    [] b = "cont1" -> type' = "UTF" /\ UNCHANGED byteMissing
    [] b = "cont2" /\ byteMissing = 0 -> type' = "ISO" /\ UNCHANGED byteMissing
    [] b \in Heads /\ byteMissing # 0 -> type' = "ISO" /\ UNCHANGED byteMissing
    [] b \in Heads /\ byteMissing = 0 -> byteMissing' = Length(b) /\ UNCHANGED type
    [] b = "cont2" /\ byteMissing # 0 -> /\ byteMissing' = byteMissing - 1
                                         /\ type' = IF byteMissing = 1 THEN "UTF" ELSE None
    [] OTHER -> UNCHANGED <<byteMissing, type>>

\* One turn of the loop.
Byte(b) ==
  CASE b = "nul" -> type' = "data" /\ UNCHANGED byteMissing
    [] b = "cont1" -> type' = "UTF" /\ UNCHANGED byteMissing
    [] b = "cont2" /\ byteMissing = 0 -> type' = "ISO" /\ UNCHANGED byteMissing
    [] b \in Heads /\ byteMissing # 0 -> type' = "ISO" /\ UNCHANGED byteMissing
    [] b \in Heads /\ byteMissing = 0 -> byteMissing' = Length(b) - 1 /\ UNCHANGED type
    [] b = "cont2" /\ byteMissing # 0 -> /\ byteMissing' = byteMissing - 1
                                         /\ type' = IF byteMissing = 1 THEN "UTF" ELSE None
    [] OTHER -> UNCHANGED <<byteMissing, type>>

ReadByte == /\ pos \in DOMAIN buffer /\ type = None
            /\ Byte(buffer[pos])
            /\ pos' = pos + 1
            /\ UNCHANGED buffer

EndOfBytes == /\ pos > Len(buffer) /\ pos > 0 /\ type = None
              /\ type' = IF byteMissing # 0 THEN "ISO" ELSE "ASCII"
              /\ UNCHANGED <<buffer, pos, byteMissing>>

FNext == OpenFile \/ ReadByte \/ EndOfBytes
FSpec == FInit /\ [][FNext]_fvars

-----------------------------------------------------------------------------
(* Correctness.                                                            *)

\* Well-formed UTF-8 without the byte nul: every first byte of a character is followed by as many
\* bytes as it announces, and every byte that continues a character belongs to one.
Utf8(s) == \A i \in DOMAIN s :
  /\ s[i] \notin {"nul", "high"}
  /\ s[i] \in Heads => \A j \in i + 1 .. i + Length(s[i]) - 1 : j \in DOMAIN s /\ s[j] \in Continuations
  /\ s[i] \in Continuations => \E h \in DOMAIN s : h < i /\ s[h] \in Heads /\ i < h + Length(s[h])

Has(S) == \E i \in DOMAIN buffer : buffer[i] \in S

\* file.c:63-123: text that is well-formed UTF-8 and not all ASCII is called UTF-8, however many
\* bytes its first character has and however long the ASCII before it is; what is called ASCII
\* has no byte from 80 to F7, and what is called ISO-8859 has one of them.
Classified == /\ type # None /\ Utf8(buffer) /\ Has(Heads) => type = "UTF"
              /\ type = "ASCII" => ~ Has(Heads \cup Continuations \cup {"nul"})
              /\ type = "ISO" => Has(Heads \cup Continuations)
=============================================================================
