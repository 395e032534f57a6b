--------------------------- MODULE MCRetrieveFile ---------------------------
(* RetrieveFile and CPeer for TLC: Python peers, of which the first has    *)
(* the file, and a C peer that fetches two files.                          *)
EXTENDS CPeer

CONSTANTS first, second, third, cpeer, tiny, hamlet
FirstHas == [p \in Peers |-> [f \in Files |->
  IF p = first THEN "whole" ELSE IF p = cpeer /\ f = hamlet THEN "long" ELSE "absent"]]
Both == <<tiny, hamlet>>
NoGets == <<>>
AlikeNone == [p \in CPeers |-> {}]
=============================================================================
