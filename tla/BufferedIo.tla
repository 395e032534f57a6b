----------------------------- MODULE BufferedIo ------------------------------
(***************************************************************************)
(* Reading and writing connections with compsys_helpers.c, the support     *)
(* code of A3 and A4: writen at one end of a connection; readn, or readnb  *)
(* and readlineb with their buffer, at the other.  A read or a write       *)
(* transfers some of what it could, may be interrupted and may fail.       *)
(*                                                                         *)
(* The bytes are numbered in the order in which writen is given them.      *)
(***************************************************************************)
EXTENDS Integers, Sequences

CONSTANTS BufSize,   \* COMPSYS_BUFSIZE
          MaxAsk,    \* bound on the bytes one call asks for
          MaxTotal,  \* bound on the bytes of a connection
          Newlines   \* the bytes that end a line

ASSUME IoAssumption == BufSize \in Nat \ {0} /\ MaxAsk \in Nat /\ MaxTotal \in Nat

VARIABLES pipe,     \* the bytes on their way
          written,  \* the number of bytes writen was given
          wbufp,    \* how many of them it has written
          wstate,   \* "open", "closed", "failed": the writing end
          ibuf,     \* compsys_helper_buf
          bufptr,   \* compsys_helper_bufptr, an index into ibuf
          cnt,      \* compsys_helper_cnt
          call,     \* the call of the reader: its name and the number of bytes asked for
          usrbuf,   \* the bytes it has been given
          base,     \* the bytes given to the calls before
          result    \* what the call returned, or Running

Running == -2
writer == <<written, wbufp, wstate>>
state == <<ibuf, bufptr, cnt>>
ivars == <<pipe, writer, state, call, usrbuf, base, result>>

\* A reader is buffered, as in peer.c, or not.
Calls == {{"readn"}, {"readnb", "readlineb"}}

IInit == /\ pipe = <<>> /\ written = 0 /\ wbufp = 0 /\ wstate = "open"
         /\ ibuf = [i \in 0 .. BufSize - 1 |-> 0] /\ bufptr = 0 /\ cnt = 0
         /\ call = [may |-> UNION Calls, name |-> "none", n |-> 0]
         /\ usrbuf = <<>> /\ base = 0 /\ result = 0

-----------------------------------------------------------------------------
(* The writing end.                                                        *)

Writen == /\ wstate = "open" /\ wbufp = written
          /\ \E n \in 1 .. MaxTotal - written : written' = written + n
          /\ UNCHANGED <<pipe, wbufp, wstate, state, call, usrbuf, base, result>>

\* One write takes k of the bytes that are left.
WriteSome == \E k \in 1 .. written - wbufp :
  /\ wstate = "open"
  /\ pipe' = pipe \o [i \in 1 .. k |-> wbufp + i]
  /\ wbufp' = wbufp + k
  /\ UNCHANGED <<written, wstate, state, call, usrbuf, base, result>>

\* A write fails, or everything is written and the connection is closed.
CloseEnd == /\ wstate = "open"
            /\ wstate' = IF wbufp < written THEN "failed" ELSE "closed"
            /\ UNCHANGED <<pipe, written, wbufp, state, call, usrbuf, base, result>>

-----------------------------------------------------------------------------
(* The reading end.                                                        *)

ReadCall == \E may \in Calls, name \in call.may, n \in 0 .. MaxAsk :
  /\ result # Running /\ name \in may
  /\ call' = [may |-> may, name |-> name, n |-> n]
  /\ base' = base + Len(usrbuf) /\ usrbuf' = <<>>
  /\ result' = IF n = 0 THEN 0 ELSE Running
  /\ UNCHANGED <<pipe, writer, state>>

Least(a, b) == IF a < b THEN a ELSE b
Wants == IF call.name = "readlineb" THEN 1 ELSE call.n - Len(usrbuf)

\* The caller's buffer gets bytes, and the call returns when it has enough.
Give(bytes) ==
  LET all == usrbuf \o bytes
      endOfLine == call.name = "readlineb" /\ all[Len(all)] \in Newlines
  IN /\ usrbuf' = all
     /\ result' = IF Len(all) = call.n \/ endOfLine THEN Len(all) ELSE Running
     /\ UNCHANGED <<writer, call, base>>

Active(names) == result = Running /\ call.name \in names
Buffered == Active({"readnb", "readlineb"})

\* readn reads right into the caller's buffer.
ReadPlain == \E k \in 1 .. Least(Wants, Len(pipe)) :
  /\ Active({"readn"})
  /\ Give(SubSeq(pipe, 1, k))
  /\ pipe' = SubSeq(pipe, k + 1, Len(pipe))
  /\ UNCHANGED state

\* Faulty: the pointer is not set back to the beginning.
RefillOnwards == \E k \in 1 .. Least(BufSize, Len(pipe)) :
  /\ Buffered /\ cnt <= 0
  /\ ibuf' = [i \in DOMAIN ibuf |-> IF i < k THEN pipe[i + 1] ELSE ibuf[i]]
  /\ bufptr' = bufptr % BufSize /\ cnt' = k
  /\ pipe' = SubSeq(pipe, k + 1, Len(pipe))
  /\ UNCHANGED <<writer, call, usrbuf, base, result>>

\* compsys_helper_read fills the buffer if it is empty,
Refill == \E k \in 1 .. Least(BufSize, Len(pipe)) :
  /\ Buffered /\ cnt <= 0
  /\ ibuf' = [i \in DOMAIN ibuf |-> IF i < k THEN pipe[i + 1] ELSE ibuf[i]]
  /\ bufptr' = 0 /\ cnt' = k
  /\ pipe' = SubSeq(pipe, k + 1, Len(pipe))
  /\ UNCHANGED <<writer, call, usrbuf, base, result>>

\* and copies from it what there is of what is asked for.
Copy == LET c == Least(Wants, cnt) IN
  /\ Buffered /\ cnt > 0
  /\ Give([i \in 1 .. c |-> ibuf[bufptr + i - 1]])
  /\ bufptr' = bufptr + c /\ cnt' = cnt - c
  /\ UNCHANGED <<pipe, ibuf>>

\* A read that is interrupted is repeated.
Interrupted == /\ Buffered /\ cnt <= 0
               /\ cnt' = -1
               /\ UNCHANGED <<pipe, writer, ibuf, bufptr, call, usrbuf, base, result>>

\* The end of the connection: the call returns what it has.  A read that fails: it returns -1.
ReadEnds == /\ Active({"readn"}) \/ (Buffered /\ cnt <= 0)
            /\ \/ /\ pipe = <<>> /\ wstate # "open"
                  /\ result' = Len(usrbuf) /\ cnt' = IF Buffered THEN 0 ELSE cnt
               \/ result' = -1 /\ cnt' = IF Buffered THEN -1 ELSE cnt
            /\ UNCHANGED <<pipe, writer, ibuf, bufptr, call, usrbuf, base>>

INext == \/ Writen \/ WriteSome \/ CloseEnd
         \/ ReadCall \/ ReadPlain \/ Refill \/ Copy \/ Interrupted \/ ReadEnds
ISpec == IInit /\ [][INext]_ivars

-----------------------------------------------------------------------------
(* Correctness.                                                            *)

\* compsys_helpers.h:25, "Robust read and writes": however reads and writes cut what is sent, the
\* calls are given every byte once and in order; one that returns fewer bytes than it was asked
\* for has met the end of the line or has been given the last byte there will be.
ReadsStream ==
  /\ \A i \in DOMAIN usrbuf : usrbuf[i] = base + i
  /\ \A i \in 1 .. Len(usrbuf) - 1 : call.name = "readlineb" => usrbuf[i] \notin Newlines
  /\ result # Running /\ result >= 0 =>
       /\ result = Len(usrbuf)
       /\ result < call.n => \/ /\ call.name = "readlineb" /\ usrbuf # <<>>
                                /\ usrbuf[Len(usrbuf)] \in Newlines
                             \/ wstate = "closed" /\ base + result = written
                             \/ wstate = "failed" /\ base + result = wbufp
=============================================================================
