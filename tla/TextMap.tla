------------------------------- MODULE TextMap --------------------------------
(* What A5/src/assembly.h promises: a map from addresses to the assembler  *)
(* text that was last attached to them, and no text for the others.        *)
CONSTANTS Addrs, Texts, NoText

VARIABLE text

Init == text = [a \in Addrs |-> NoText]

Set(a, t) == text' = [text EXCEPT ![a] = t]

Next == \E a \in Addrs, t \in Texts : Set(a, t)

Spec == Init /\ [][Next]_text
=============================================================================
