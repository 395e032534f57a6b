--------------------------- MODULE MCPeerNetwork ----------------------------
(* PeerNetwork for TLC.  The peers other than the contact are alike.       *)
EXTENDS PeerNetwork, TLC

CONSTANT Second  \* a peer other than the contact

Alike == Permutations(Peers \ {Contact})

\* One of the events that users and failures cause, or crashes of peers other than the contact
\* with three connections open at once.
FewEvents == \/ crashes + ticks + gets <= 1
             \/ up[Contact] /\ ticks + gets = 0 /\ Conns \ FreeConns \subseteq 1 .. 3

ContactStays == up[Contact]

\* The peers of S have joined, the contact and at most one other, and nothing is under way.
AfterJoining(S, used) ==
  /\ up = [p \in Peers |-> p \in S] /\ listening = up
  /\ network = [p \in Peers |-> IF p \in S THEN <<Own(p)>> \o [k \in 1 .. Cardinality(S) - 1 |->
                                                      Entry(CHOOSE q \in S : q # p)]
                                ELSE <<>>]
  /\ mutex = [p \in Peers |-> None]
  /\ client = [p \in Peers |-> IF p \in S \ {Contact} THEN "ready" ELSE "none"]
  /\ using = [p \in Peers |-> None]
  /\ conn = [c \in Conns |-> Free]
  /\ crashes = used /\ ticks = 0 /\ gets = 0 /\ stolen = {}

\* The runs about what finally happens start when the second peer has joined, or, with no crash
\* to come, when only the contact is there.
LateSpec == /\ AfterJoining({Contact, Second}, 0) \/ AfterJoining({Contact}, MaxCrashes)
            /\ [][Next]_vars /\ Fairness
=============================================================================
