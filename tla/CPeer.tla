------------------------------- MODULE CPeer --------------------------------
(***************************************************************************)
(* The peer of A4/src/peer.c among the Python peers of RetrieveFile: its   *)
(* client thread registers with the contact, takes the reply for its       *)
(* table of peers, and fetches its files one after the other from peers    *)
(* picked at random (send_message).  It serves nobody.                     *)
(*                                                                         *)
(* The contact's list of peers is what PeerNetwork shows of it: no peer is *)
(* on it twice, and the newcomer is the last in the reply.  A copy on the  *)
(* disk of a C peer is written over from its beginning and never cut, so   *)
(* that the end of a longer old copy, "long", stays.                       *)
(***************************************************************************)
EXTENDS RetrieveFile, FiniteSets

CONSTANTS Contact,  \* the Python peer of the configuration file
          Gets,     \* the files the C peer fetches, in order
          Alike     \* Alike[p]: the peers at p's address whose port begins with the same 4 digits

ASSUME ContactAssumption == Contact \in Peers \ CPeers
ASSUME GetsAssumption == Gets \in Seq(Files)
ASSUME AlikeAssumption == Alike \in [CPeers -> SUBSET Peers]
ASSUME ReportAssumption == None # "right"

VARIABLES list,    \* the contact's list of peers
          network, \* network[p]: index -> peer, None if the entry was not written
          count,   \* count[p]: peer_count
          turn,    \* turn[p]: the fetch of p that is next or under way
          report   \* report[p]: how its last fetch ended: "right", "bad", None

table == <<network, count>>
cvars == <<list, table, turn, report>>
allVars == <<vars, cvars>>

CInit == /\ Init
         /\ list \in {<<Contact>>} \cup {<<Contact, q>> : q \in Peers \ (CPeers \cup {Contact})}
         /\ network = [p \in CPeers |-> <<>>]
         /\ count = [p \in CPeers |-> 0]
         /\ turn = [p \in CPeers |-> 1]
         /\ report = [p \in CPeers |-> None]

-----------------------------------------------------------------------------
\* Faulty: an entry of the reply goes to its own index.
SameIndex(p, s) == [i \in 0 .. Len(s) |-> IF i = Len(s) \/ s[i + 1] \in {p} \cup Alike[p] THEN None ELSE s[i + 1]]

\* The table after a registration: the peer itself, then every entry of the reply one place
\* further on, except those that are taken for the peer itself: ports are compared in 4 digits.
Table(p, s) == [i \in 0 .. Len(s) |->
  IF i = 0 THEN p ELSE IF s[i] \in {p} \cup Alike[p] THEN None ELSE s[i]]

\* main, and the registration.  Without a contact the reply is what is left in the buffer, and
\* the program dies of its length or later of a table with nobody to pick; a peer the contact
\* still knows keeps the table it starts with.
CRegister(p) ==
  /\ client[p] = "start"
  /\ client' = [client EXCEPT ![p] = IF Listens(Contact) THEN "pick" ELSE "dead"]
  /\ turn' = [turn EXCEPT ![p] = 1] /\ report' = [report EXCEPT ![p] = None]
  /\ LET new == Listens(Contact) /\ \A i \in DOMAIN list : list[i] # p
         reply == Append(list, p)
     IN /\ list' = IF new THEN reply ELSE list
        /\ network' = [network EXCEPT ![p] = IF new THEN Table(p, reply) ELSE [i \in {0} |-> p]]
        /\ count' = [count EXCEPT ![p] = IF new THEN Len(reply) ELSE 1]
  /\ UNCHANGED <<disk, listed, file, got, handler, at, mutex, counters>>

Entries(p) == {network[p][i] : i \in 0 .. count[p] - 1}

\* get_random_peer with nobody to pick divides by zero; an entry that was not written is a
\* pointer to anywhere.
PickFails(p) == /\ client[p] = "pick" /\ turn[p] <= Len(Gets)
                /\ None \in Entries(p) \/ Entries(p) = {p}
                /\ client' = [client EXCEPT ![p] = "dead"]
                /\ UNCHANGED <<disk, listed, file, got, handler, at, mutex, counters, cvars>>

\* The fetch is over; send_message returns.
Over(p, r) == /\ report' = [report EXCEPT ![p] = r]
              /\ turn' = [turn EXCEPT ![p] = @ + 1]
              /\ client' = [client EXCEPT ![p] = "pick"]

\* A peer is picked, the output file is created if there is none, and the request is sent.  If
\* nobody listens the request itself is taken for the reply, and its hashes do not match.
Fetch(p) == \E q \in Entries(p) \ {p} :
  /\ client[p] = "pick" /\ turn[p] <= Len(Gets) /\ None \notin Entries(p) /\ handler[p] = "none"
  /\ LET f == Gets[turn[p]]
     IN /\ file' = [file EXCEPT ![p] = f]
        /\ disk' = [disk EXCEPT ![p][f] = IF @ = "absent" THEN "part" ELSE @]
  /\ IF Listens(q)
       THEN /\ client' = [client EXCEPT ![p] = "wait"]
            /\ handler' = [handler EXCEPT ![p] = "asked"]
            /\ at' = [at EXCEPT ![p] = q]
            /\ report' = [report EXCEPT ![p] = None]
            /\ UNCHANGED turn
       ELSE Over(p, "bad") /\ UNCHANGED <<handler, at>>
  /\ UNCHANGED <<listed, got, mutex, counters, list, table>>

\* What data leaves of an old copy of the same file.
Written(old, data) == IF old \in {"long", "whole"} THEN old ELSE data

\* The first blocks are checked and written at their places.
SomeBlocks(p) == /\ client[p] = "wait" /\ handler[p] = "sent"
                 /\ client' = [client EXCEPT ![p] = "blocks"]
                 /\ disk' = [disk EXCEPT ![p][file[p]] = Written(@, "part")]
                 /\ UNCHANGED <<listed, file, got, handler, at, mutex, counters, cvars>>

\* Faulty: the file is not compared with the hash of all the data.
LastBlockUnchecked(p) ==
  /\ client[p] = "blocks" /\ handler[p] = "sent"
  /\ disk' = [disk EXCEPT ![p][file[p]] = Written(@, got[p])]
  /\ Over(p, "right")
  /\ handler' = [handler EXCEPT ![p] = "none"]
  /\ UNCHANGED <<listed, file, got, at, mutex, counters, list, table>>

\* The last block is written, and the file compared with the hash of all the data.  Two parts
\* may differ in length.
LastBlock(p) ==
  /\ client[p] = "blocks" /\ handler[p] = "sent"
  /\ disk' = [disk EXCEPT ![p][file[p]] = Written(@, got[p])]
  /\ \/ Over(p, "bad") /\ (Written(disk[p][file[p]], got[p]) # got[p] \/ got[p] = "part")
     \/ Over(p, "right") /\ Written(disk[p][file[p]], got[p]) = got[p]
  /\ handler' = [handler EXCEPT ![p] = "none"]
  /\ UNCHANGED <<listed, file, got, at, mutex, counters, list, table>>

\* Faulty: at the end of the connection the reading goes on.
FetchFailsNotAtEnd(p) == /\ \/ client[p] = "wait" /\ handler[p] = "refused"
                            \/ client[p] = "blocks" /\ handler[p] = "sent" /\ client[at[p]] = "down"
                         /\ Over(p, "bad")
                         /\ handler' = [handler EXCEPT ![p] = "none"]
                         /\ UNCHANGED <<disk, listed, file, got, at, mutex, counters, list, table>>

\* A refusal, the end of the connection or of the other peer before all blocks have come: what is
\* left in the buffer does not pass for a header, or not for the payload of one.
FetchFails(p) == /\ \/ client[p] = "wait" /\ handler[p] \in {"refused", "none"}
                    \/ client[p] \in {"wait", "blocks"} /\ handler[p] = "sent" /\ client[at[p]] = "down"
                 /\ Over(p, "bad")
                 /\ handler' = [handler EXCEPT ![p] = "none"]
                 /\ UNCHANGED <<disk, listed, file, got, at, mutex, counters, list, table>>

\* The client thread ends, and the program with it.
Done(p) == /\ client[p] = "pick" /\ turn[p] > Len(Gets)
           /\ client' = [client EXCEPT ![p] = "dead"]
           /\ UNCHANGED <<disk, listed, file, got, handler, at, mutex, counters, cvars>>

CClient(p) == \/ CRegister(p) \/ PickFails(p) \/ Fetch(p) \/ SomeBlocks(p) \/ LastBlock(p)
              \/ FetchFails(p) \/ Done(p)

\* The contact forgets the others when it is killed.
CNext == \/ /\ Next
            /\ list' = IF client'[Contact] = "down" THEN <<Contact>> ELSE list
            /\ UNCHANGED <<table, turn, report>>
         \/ \E p \in CPeers : CClient(p)

CSpec == CInit /\ [][CNext]_allVars
CFairSpec == /\ CSpec
             /\ \A p \in Peers \ CPeers : WF_allVars(Client(p) /\ UNCHANGED cvars)
             /\ \A p \in Peers : WF_allVars(Handler(p) /\ UNCHANGED cvars)
             /\ \A p \in CPeers : WF_allVars(CClient(p))

-----------------------------------------------------------------------------
(* Correctness.                                                            *)

\* peer.c:340-377: the table is as long as the list and every entry of it was written, although
\* the entry that is left out is one place before the hole it leaves: the peer itself comes last
\* in the reply.  No peer is in it twice.
TableFilled ==
  \A p \in CPeers : client[p] \in {"pick", "wait", "blocks"} /\ Alike[p] = {}
    => None \notin Entries(p) /\ Cardinality(Entries(p)) = count[p]

\* peer.c:314-330: a copy the C peer reports to be right is what the other peer read; the end of
\* an old copy, a refusal or a connection that ended early is never taken for a file.
RightIsServed == \A p \in CPeers : report[p] = "right" => disk[p][file[p]] = got[p]

\* The client thread of the C peer ends, whatever happens to the others, unless the peer it waits
\* for has lost its mutex.
CPeerEnds == \A p \in CPeers : (client[p] = "start") ~> (client[p] \in {"dead", "down"} \/ Stuck(p))
=============================================================================
