---------------------------- MODULE CPeerProofs -----------------------------
(* Proofs about the fetching of files in A4, for any peers, files and      *)
(* numbers of fetches and crashes: nothing stays on the list of files      *)
(* being fetched, the C peer's table is filled, and what it reports to be  *)
(* right is what the other peer read.                                      *)
EXTENDS CPeer, FiniteSetTheorems, TLAPS

Contents == {"absent", "part", "whole", "long", None}

\* Where the client threads can be, and the shape of what they use.
InvType ==
  /\ client \in [Peers -> {"start", "pick", "blocks", "prompt", "connect", "open", "write",
                           "wait", "dead", "down"}]
  /\ \A p \in CPeers : client[p] \in {"start", "pick", "wait", "blocks", "dead", "down"}
  /\ \A p \in Peers \ CPeers : client[p] \notin {"start", "pick", "blocks"}
  /\ file \in [Peers -> Files \cup {None}]
  /\ \A p \in Peers : client[p] \in {"connect", "wait", "open", "write", "blocks"} => file[p] \in Files
  /\ disk \in [Peers -> [Files -> Contents]] /\ got \in [Peers -> Contents]
  /\ handler \in [Peers -> {"none", "asked", "refuse", "refused", "read", "sent"}]
  /\ at \in [Peers -> Peers \cup {None}]
  /\ \A p \in Peers : handler[p] \in {"asked", "read"} => at[p] \in Peers /\ file[p] \in Files

\* A peer's list has the file it fetches from the request to the reply, and nothing before and
\* after; only a client thread that has ended can leave one behind.
InvListed == /\ listed \in [Peers -> Seq(Files)]
             /\ \A p \in Peers : /\ client[p] \in {"connect", "wait"} /\ p \notin CPeers => listed[p] = <<file[p]>>
                                 /\ client[p] \in {"prompt", "open", "write", "down"} => listed[p] = <<>>

\* A sequence without duplicates; the k entries of a table, and that none of them is missing or
\* there twice.
Distinct(s) == \A i, j \in 1 .. Len(s) : s[i] = s[j] => i = j
OfPeers(t, k) == \A i \in 0 .. k - 1 : t[i] \in Peers \cup {None}
Complete(t, k) == \A i, j \in 0 .. k - 1 : t[i] # None /\ (t[i] = t[j] => i = j)

\* The table has as many entries as it counts, and its entries are peers or were not written;
\* it is complete when no other port is taken for the own one.
InvTable == /\ turn \in [CPeers -> Nat \ {0}] /\ count \in [CPeers -> Nat] /\ DOMAIN network = CPeers
            /\ list \in Seq(Peers) /\ Distinct(list)
            /\ \A p \in CPeers : OfPeers(network[p], count[p])
            /\ \A p \in CPeers : client[p] \in {"pick", "wait", "blocks"} /\ Alike[p] = {}
                 => Complete(network[p], count[p])

\* Once a copy was reported to be right nobody serves the C peer, and its copy stays.
InvRight == /\ DOMAIN report = CPeers
            /\ \A p \in CPeers : report[p] = "right" =>
                 handler[p] = "none" /\ file[p] \in Files /\ disk[p][file[p]] = got[p]

InvFetch == InvType /\ InvTable /\ InvListed /\ InvRight

USE DEF counters

-----------------------------------------------------------------------------
\* The only entry of a list is removed by list.remove (peer.py:586).
LEMMA RemoveOnly == ASSUME NEW f PROVE Without(<<f>>, f) = <<>>
<1> DEFINE s == <<f>>
<1>1. DOMAIN s = {1} /\ s[1] = f /\ Len(s) = 1 OBVIOUS
<1>2. (CHOOSE k \in DOMAIN s : s[k] = f /\ \A j \in 1 .. k - 1 : s[j] # f) = 1
  BY <1>1
<1>3. SubSeq(s, 1, 0) = <<>> /\ SubSeq(s, 2, 1) = <<>> OBVIOUS
<1>4. SubSeq(s, 1, 1 - 1) \o SubSeq(s, 1 + 1, Len(s)) = <<>> BY <1>1, <1>3
<1> QED BY <1>2, <1>4 DEF Without

LEMMA FetchInit == CInit => InvFetch
<1> SUFFICES ASSUME CInit PROVE InvType /\ InvTable /\ InvListed /\ InvRight BY DEF InvFetch
<1> USE DEF CInit, Init
<1>1. disk \in [Peers -> [Files -> Contents]]
  <2>1. \A p \in Peers : Held[p] \in [Files -> Contents]
    BY HeldAssumption DEF Contents
  <2> QED BY <2>1, HeldAssumption
<1>2. InvType 
  <2>1. \A p \in Peers : client[p] = Begin(p) /\ Begin(p) \in {"start", "prompt"} BY DEF Begin
  <2> QED BY <1>1, <2>1, CPeersAssumption DEF InvType, Begin, Contents
<1>3. InvListed BY DEF InvListed, Begin
<1>4. InvTable
  <2>1. list \in Seq(Peers) /\ Distinct(list)
    <3>1. CASE list = <<Contact>> BY <3>1, ContactAssumption DEF Distinct
    <3>2. CASE \E q \in Peers \ (CPeers \cup {Contact}) : list = <<Contact, q>>
      BY <3>2, ContactAssumption DEF Distinct
    <3> QED BY <3>1, <3>2
  <2>2. \A p \in CPeers : client[p] = "start" /\ count[p] = 0 /\ turn[p] = 1
    BY CPeersAssumption DEF Begin
  <2>3. turn \in [CPeers -> Nat \ {0}] /\ count \in [CPeers -> Nat] /\ DOMAIN network = CPeers
    OBVIOUS
  <2>4. ASSUME NEW p \in CPeers PROVE OfPeers(network[p], count[p])
    <3>1. count[p] = 0 BY <2>2
    <3> QED BY <3>1 DEF OfPeers
  <2> QED BY <2>1, <2>2, <2>3, <2>4 DEF InvTable
<1>5. InvRight BY ReportAssumption DEF InvRight
<1> QED BY <1>2, <1>3, <1>4, <1>5

LEMMA TypeStep == ASSUME InvType, InvTable, [CNext]_allVars PROVE InvType'
<1> USE DEF InvType, Contents
<1>1. ASSUME NEW p \in Peers \ CPeers, Ask(p) PROVE InvType' BY <1>1 DEF Ask
<1>2. ASSUME NEW p \in Peers \ CPeers, Connect(p) PROVE InvType'
  <2>1. PICK q \in Peers \ {p} : Connect(p)!(q) BY <1>2 DEF Connect
  <2>2. CASE Listens(q)
    <3>1. /\ client' = [client EXCEPT ![p] = "wait"] /\ handler' = [handler EXCEPT ![p] = "asked"]
          /\ at' = [at EXCEPT ![p] = q] /\ UNCHANGED <<disk, file, got>>
      BY <2>1, <2>2
    <3> QED BY <2>1, <3>1
  <2>3. CASE ~ Listens(q)
    <3>1. client' = [client EXCEPT ![p] = "dead"] /\ UNCHANGED <<disk, file, got, handler, at>>
      BY <2>1, <2>3
    <3> QED BY <3>1
  <2> QED BY <2>2, <2>3
<1>3. ASSUME NEW p \in Peers \ CPeers, Receive(p) PROVE InvType' BY <1>3 DEF Receive
<1>4. ASSUME NEW p \in Peers \ CPeers, Broken(p) PROVE InvType' BY <1>4 DEF Broken
<1>5. ASSUME NEW p \in Peers \ CPeers, Truncate(p) PROVE InvType' BY <1>5 DEF Truncate
<1>6. ASSUME NEW p \in Peers \ CPeers, Write(p) PROVE InvType' BY <1>6 DEF Write
<1>7. ASSUME NEW p \in Peers, CheckPath(p) PROVE InvType' BY <1>7 DEF CheckPath
<1>8. ASSUME NEW p \in Peers, Check(p) PROVE InvType' BY <1>8 DEF Check
<1>9. ASSUME NEW p \in Peers, Refuse(p) PROVE InvType' BY <1>9 DEF Refuse
<1>10. ASSUME NEW p \in Peers, Serve(p) PROVE InvType' BY <1>10 DEF Serve
<1>11. ASSUME NEW q \in Peers, Crash(q) PROVE InvType' BY <1>11 DEF Crash
<1>12. ASSUME NEW q \in Peers, Restart(q) PROVE InvType' BY <1>12 DEF Restart, Begin
<1>13. ASSUME NEW p \in CPeers, CRegister(p) PROVE InvType' BY <1>13, CPeersAssumption DEF CRegister
<1>14. ASSUME NEW p \in CPeers, PickFails(p) PROVE InvType' BY <1>14, CPeersAssumption DEF PickFails
<1>15. ASSUME NEW p \in CPeers, Fetch(p) PROVE InvType'
  <2> DEFINE f == Gets[turn[p]]
  <2>1. f \in Files BY <1>15, GetsAssumption DEF Fetch, InvTable
  <2>2. None \notin Entries(p) => Entries(p) \subseteq Peers BY DEF InvTable, OfPeers, Entries
  <2>3. PICK q \in Entries(p) \ {p} : Fetch(p)!(q) BY <1>15 DEF Fetch
  <2>4. q \in Peers BY <2>2, <2>3
  <2>5. CASE Listens(q)
    <3>1. /\ client' = [client EXCEPT ![p] = "wait"] /\ handler' = [handler EXCEPT ![p] = "asked"]
          /\ at' = [at EXCEPT ![p] = q] /\ file' = [file EXCEPT ![p] = f] /\ UNCHANGED got
      BY <2>3, <2>5
    <3>2. disk' = [disk EXCEPT ![p][f] = IF @ = "absent" THEN "part" ELSE @] BY <2>3
    <3>3. disk' \in [Peers -> [Files -> Contents]] BY <2>1, <3>2, CPeersAssumption
    <3> QED BY <2>1, <2>4, <3>1, <3>3, CPeersAssumption
  <2>6. CASE ~ Listens(q) BY <2>1, <2>3, <2>4, <2>6, CPeersAssumption DEF Over, Listens
  <2> QED BY <2>5, <2>6
<1>16. ASSUME NEW p \in CPeers, SomeBlocks(p) PROVE InvType' BY <1>16, CPeersAssumption DEF SomeBlocks, Written
<1>17. ASSUME NEW p \in CPeers, LastBlock(p) PROVE InvType' BY <1>17, CPeersAssumption DEF LastBlock, Over, Written
<1>18. ASSUME NEW p \in CPeers, FetchFails(p) PROVE InvType' BY <1>18, CPeersAssumption DEF FetchFails, Over
<1>19. ASSUME NEW p \in CPeers, Done(p) PROVE InvType' BY <1>19, CPeersAssumption DEF Done
<1>20. CASE UNCHANGED allVars BY <1>20 DEF allVars, vars
<1> QED BY <1>1, <1>2, <1>3, <1>4, <1>5, <1>6, <1>7, <1>8, <1>9, <1>10, <1>11, <1>12, <1>13, <1>14, <1>15,
           <1>16, <1>17, <1>18, <1>19, <1>20 DEF CNext, Next, Client, Handler, CClient

\* The reply to a registration: everybody who was on the contact's list, and the peer itself.
LEMMA TableComplete ==
  ASSUME NEW p \in CPeers, NEW s \in Seq(Peers), Alike[p] = {},
         Distinct(s), \A i \in 1 .. Len(s) : s[i] # p
  PROVE  Complete(Table(p, Append(s, p)), Len(s) + 1)
<1>1. \A i \in 1 .. Len(s) : Append(s, p)[i] = s[i] /\ s[i] \in Peers OBVIOUS
<1>2. Len(Append(s, p)) = Len(s) + 1 /\ Len(s) \in Nat OBVIOUS
<1>3. \A i \in 0 .. Len(s) : Table(p, Append(s, p))[i] = IF i = 0 THEN p ELSE s[i]
  BY <1>1, <1>2 DEF Table
<1>4. Len(s) + 1 - 1 = Len(s) BY <1>2
<1> QED BY <1>1, <1>2, <1>3, <1>4, CPeersAssumption, NoneAssumption DEF Complete, Distinct

LEMMA TableStep == ASSUME InvType, InvTable, [CNext]_allVars PROVE InvTable'
<1> USE DEF InvTable
<1>1. CASE /\ Next /\ list' = IF client'[Contact] = "down" THEN <<Contact>> ELSE list
           /\ UNCHANGED <<table, turn, report>>
  <2>1. list' \in Seq(Peers) /\ Distinct(list')
    BY <1>1, ContactAssumption DEF Distinct
  <2>2. \A p \in CPeers : client'[p] \in {"pick", "wait", "blocks"} => client'[p] = client[p]
    BY <1>1, CPeersAssumption DEF InvType, Next, Client, Handler, Ask, Connect, Receive, Broken, Truncate, Write,
       CheckPath, Check, Refuse, Serve, Crash, Restart, Begin
  <2> QED BY <1>1, <2>1, <2>2 DEF table
<1>2. ASSUME NEW p \in CPeers, CRegister(p) PROVE InvTable'
  <2> DEFINE new == Listens(Contact) /\ \A i \in DOMAIN list : list[i] # p
             reply == Append(list, p)
             t == IF new THEN Table(p, reply) ELSE [i \in {0} |-> p]
             k == IF new THEN Len(reply) ELSE 1
  <2>1. /\ list' = IF new THEN reply ELSE list
        /\ network' = [network EXCEPT ![p] = t] /\ count' = [count EXCEPT ![p] = k]
        /\ turn' = [turn EXCEPT ![p] = 1] /\ \A q \in CPeers \ {p} : client'[q] = client[q]
    BY <1>2, CPeersAssumption DEF CRegister, InvType
  <2>2. DOMAIN list = 1 .. Len(list) /\ Len(list) \in Nat /\ Len(reply) = Len(list) + 1 OBVIOUS
  <2>3. CASE new
    <3>1. t = Table(p, reply) /\ k = Len(list) + 1 /\ list' = reply BY <2>1, <2>2, <2>3
    <3>2. \A i \in 1 .. Len(list) : reply[i] = list[i] /\ list[i] \in Peers /\ list[i] # p
      BY <2>2, <2>3, CPeersAssumption
    <3>3. reply \in Seq(Peers) /\ Distinct(reply) BY <2>2, <3>2, CPeersAssumption DEF Distinct
    <3>4. OfPeers(Table(p, reply), Len(list) + 1)
      BY <2>2, <3>2, CPeersAssumption DEF OfPeers, Table
    <3>5. Alike[p] = {} => Complete(Table(p, reply), Len(list) + 1) BY <3>2, TableComplete
    <3>6. /\ network' = [network EXCEPT ![p] = Table(p, reply)] /\ count' = [count EXCEPT ![p] = Len(list) + 1]
          /\ turn' = [turn EXCEPT ![p] = 1] /\ list' = reply
      BY <2>1, <3>1
    <3> HIDE DEF reply
    <3>7. network'[p] = Table(p, reply) /\ count'[p] = Len(list) + 1
          /\ \A q \in CPeers \ {p} : network'[q] = network[q] /\ count'[q] = count[q]
      BY <3>6
    <3>8. turn' \in [CPeers -> Nat \ {0}] /\ count' \in [CPeers -> Nat] /\ DOMAIN network' = CPeers
      BY <2>2, <3>6
    <3> QED BY <2>1, <3>3, <3>4, <3>5, <3>6, <3>7, <3>8
  <2>4. CASE ~ new
    <3>1. t = [i \in {0} |-> p] /\ k = 1 /\ list' = list BY <2>1, <2>4
    <3>2. OfPeers(t, 1) /\ Complete(t, 1)
      BY <3>1, CPeersAssumption, NoneAssumption DEF OfPeers, Complete
    <3>3. /\ network' = [network EXCEPT ![p] = t] /\ count' = [count EXCEPT ![p] = 1]
          /\ turn' = [turn EXCEPT ![p] = 1] /\ list' = list
      BY <2>1, <3>1
    <3> HIDE DEF t
    <3>4. network'[p] = t /\ count'[p] = 1
          /\ \A q \in CPeers \ {p} : network'[q] = network[q] /\ count'[q] = count[q]
      BY <3>3
    <3>5. turn' \in [CPeers -> Nat \ {0}] /\ count' \in [CPeers -> Nat] /\ DOMAIN network' = CPeers
      BY <3>3
    <3> QED BY <2>1, <3>2, <3>3, <3>4, <3>5
  <2> QED BY <2>3, <2>4
<1>3. ASSUME NEW p \in CPeers, UNCHANGED <<list, network, count>>, turn' \in [CPeers -> Nat \ {0}],
             \A q \in CPeers : client'[q] \in {"pick", "wait", "blocks"} => client[q] \in {"pick", "wait", "blocks"}
      PROVE  InvTable'
  BY <1>3
<1>4. ASSUME NEW p \in CPeers, PickFails(p) \/ SomeBlocks(p) \/ Done(p) PROVE InvTable'
  BY <1>3, <1>4, CPeersAssumption DEF PickFails, SomeBlocks, Done, cvars, table, InvType
<1>5. ASSUME NEW p \in CPeers, LastBlock(p) \/ FetchFails(p) PROVE InvTable'
  <2>1. UNCHANGED <<list, network, count>> /\ turn' = [turn EXCEPT ![p] = @ + 1]
        /\ client' = [client EXCEPT ![p] = "pick"] /\ client[p] \in {"wait", "blocks"}
    BY <1>5 DEF LastBlock, FetchFails, Over, table
  <2>2. turn' \in [CPeers -> Nat \ {0}] BY <2>1
  <2>3. \A q \in CPeers : client'[q] \in {"pick", "wait", "blocks"} => client[q] \in {"pick", "wait", "blocks"}
    BY <2>1, CPeersAssumption DEF InvType
  <2> QED BY <1>3, <2>1, <2>2, <2>3
<1>6. ASSUME NEW p \in CPeers, Fetch(p) PROVE InvTable'
  <2>1. PICK q \in Entries(p) \ {p} : Fetch(p)!(q) BY <1>6 DEF Fetch
  <2>2. UNCHANGED <<list, network, count>> /\ turn' \in [CPeers -> Nat \ {0}]
        /\ client' \in {[client EXCEPT ![p] = "pick"], [client EXCEPT ![p] = "wait"]} /\ client[p] = "pick"
    <3>1. CASE Listens(q) BY <2>1, <3>1 DEF table
    <3>2. CASE ~ Listens(q)
      <4>1. turn' = [turn EXCEPT ![p] = @ + 1] BY <2>1, <3>2 DEF Over
      <4> QED BY <2>1, <3>2, <4>1 DEF Over, table
    <3> QED BY <3>1, <3>2
  <2> QED BY <1>3, <2>2, CPeersAssumption DEF InvType
<1>7. CASE UNCHANGED allVars BY <1>7 DEF allVars, vars, cvars, table
<1> QED BY <1>1, <1>2, <1>4, <1>5, <1>6, <1>7 DEF CNext, CClient

\* A file comes onto the list with the request and leaves it with the reply.
LEMMA ListedStep == ASSUME InvFetch, [CNext]_allVars PROVE InvListed'
<1> USE DEF InvFetch, InvListed
<1>1. ASSUME NEW p \in Peers \ CPeers, Ask(p) PROVE InvListed'
  <2>1. PICK f \in Files : Ask(p)!(f) BY <1>1 DEF Ask
  <2>2. listed'[p] = Append(listed[p], f) /\ listed[p] = <<>> /\ file'[p] = f BY <2>1 DEF InvType
  <2>3. listed' \in [Peers -> Seq(Files)] BY <2>1
  <2>4. listed'[p] = <<file'[p]>> BY <2>2
  <2> QED BY <2>1, <2>3, <2>4 DEF InvType
<1>2. ASSUME NEW p \in Peers \ CPeers, Connect(p) PROVE InvListed' BY <1>2 DEF Connect, InvType
<1>3. ASSUME NEW p \in Peers \ CPeers, Receive(p) PROVE InvListed'
  <2>1. Without(listed[p], file[p]) = <<>> BY <1>3, RemoveOnly DEF Receive
  <2> QED BY <1>3, <2>1 DEF Receive, InvType
<1>4. ASSUME NEW p \in Peers \ CPeers, Broken(p) PROVE InvListed' BY <1>4 DEF Broken, InvType
<1>5. ASSUME NEW p \in Peers \ CPeers, Truncate(p) PROVE InvListed' BY <1>5 DEF Truncate, InvType
<1>6. ASSUME NEW p \in Peers \ CPeers, Write(p) PROVE InvListed' BY <1>6 DEF Write, InvType
<1>7. ASSUME NEW p \in Peers, Handler(p) PROVE InvListed'
  BY <1>7 DEF Handler, CheckPath, Check, Refuse, Serve
<1>8. ASSUME NEW q \in Peers, Crash(q) PROVE InvListed' BY <1>8 DEF Crash, InvType
<1>9. ASSUME NEW q \in Peers, Restart(q) PROVE InvListed' BY <1>9 DEF Restart, Begin, InvType
<1>10. ASSUME NEW p \in CPeers, CClient(p) PROVE InvListed'
  <2>1. /\ UNCHANGED listed /\ \A q \in Peers \ {p} : client'[q] = client[q] /\ file'[q] = file[q]
        /\ client'[p] \notin {"prompt", "open", "write", "down"}
    BY <1>10, CPeersAssumption
       DEF InvType, CClient, CRegister, PickFails, Fetch, SomeBlocks, LastBlock, FetchFails, Done, Over
  <2> QED BY <1>10, <2>1
<1>11. CASE UNCHANGED allVars BY <1>11 DEF allVars, vars
<1> QED BY <1>1, <1>2, <1>3, <1>4, <1>5, <1>6, <1>7, <1>8, <1>9, <1>10, <1>11 DEF CNext, Next, Client

\* A handler of a C peer begins with a request, and its copy and what it received change while it
\* fetches.
LEMMA RightStep == ASSUME InvType, InvTable, InvRight, [CNext]_allVars PROVE InvRight'
<1> USE ReportAssumption, CPeersAssumption DEF InvRight
<1>1. CASE Next /\ UNCHANGED <<table, turn, report>>
  <2> SUFFICES ASSUME NEW p \in CPeers, report[p] = "right"
               PROVE  handler'[p] = "none" /\ file'[p] = file[p] /\ disk'[p] = disk[p] /\ got'[p] = got[p]
    BY <1>1
  <2>1. ASSUME NEW q \in Peers \ CPeers, Ask(q) \/ Client(q)
        PROVE  handler'[p] = "none" /\ file'[p] = file[p] /\ disk'[p] = disk[p] /\ got'[p] = got[p]
    <3>1. CASE Ask(q) BY <3>1 DEF Ask, InvType
    <3>2. CASE Connect(q) \/ Receive(q) \/ Broken(q) BY <3>2 DEF Connect, Receive, Broken, InvType
    <3>3. CASE Truncate(q) \/ Write(q) BY <3>3 DEF Truncate, Write, InvType
    <3> QED BY <2>1, <3>1, <3>2, <3>3 DEF Client
  <2>2. ASSUME NEW q \in Peers, Handler(q) \/ Crash(q) \/ Restart(q)
        PROVE  handler'[p] = "none" /\ file'[p] = file[p] /\ disk'[p] = disk[p] /\ got'[p] = got[p]
    <3>1. CASE CheckPath(q) \/ Check(q) \/ Refuse(q) BY <3>1 DEF CheckPath, Check, Refuse, InvType
    <3>2. CASE Serve(q) BY <3>2 DEF Serve, InvType
    <3>3. CASE Crash(q) \/ Restart(q) BY <3>3 DEF Crash, Restart, InvType
    <3> QED BY <2>2, <3>1, <3>2, <3>3 DEF Handler
  <2> QED BY <1>1, <2>1, <2>2 DEF Next
<1>2. ASSUME NEW p \in CPeers, CRegister(p) \/ PickFails(p) \/ Done(p) PROVE InvRight'
  BY <1>2 DEF CRegister, PickFails, Done, cvars
<1>3. ASSUME NEW p \in CPeers, Fetch(p) PROVE InvRight'
  <2>1. PICK q \in Entries(p) \ {p} : Fetch(p)!(q) BY <1>3 DEF Fetch
  <2>2. /\ report' \in {[report EXCEPT ![p] = None], [report EXCEPT ![p] = "bad"]} /\ UNCHANGED got
        /\ \A r \in CPeers \ {p} : handler'[r] = handler[r] /\ file'[r] = file[r] /\ disk'[r] = disk[r]
    <3>1. CASE Listens(q) BY <2>1, <3>1 DEF InvType
    <3>2. CASE ~ Listens(q) BY <2>1, <3>2 DEF InvType, Over
    <3> QED BY <3>1, <3>2
  <2> QED BY <2>2
<1>4. ASSUME NEW p \in CPeers, SomeBlocks(p) PROVE InvRight'
  BY <1>4 DEF SomeBlocks, InvType, cvars
<1>5. ASSUME NEW p \in CPeers, LastBlock(p) PROVE InvRight'
  <2> DEFINE w == Written(disk[p][file[p]], got[p])
  <2>1. /\ disk' = [disk EXCEPT ![p][file[p]] = w] /\ file[p] \in Files
        /\ handler' = [handler EXCEPT ![p] = "none"] /\ UNCHANGED <<file, got>>
    BY <1>5 DEF LastBlock, InvType
  <2>2. disk'[p][file[p]] = w /\ \A r \in CPeers \ {p} : disk'[r] = disk[r]
    BY <2>1 DEF InvType
  <2>3. \/ report' = [report EXCEPT ![p] = "bad"]
        \/ report' = [report EXCEPT ![p] = "right"] /\ w = got[p]
    BY <1>5 DEF LastBlock, Over
  <2> HIDE DEF w
  <2> QED BY <2>1, <2>2, <2>3 DEF InvType
<1>6. ASSUME NEW p \in CPeers, FetchFails(p) PROVE InvRight' BY <1>6 DEF FetchFails, Over, InvType
<1>7. CASE UNCHANGED allVars BY <1>7 DEF allVars, vars, cvars
<1> QED BY <1>1, <1>2, <1>3, <1>4, <1>5, <1>6, <1>7 DEF CNext, CClient

LEMMA FetchStep == InvFetch /\ [CNext]_allVars => InvFetch'
BY TypeStep, TableStep, ListedStep, RightStep DEF InvFetch

\* NothingListedAtPrompt of run retrieve, for all peers and files: once a fetch has ended the file
\* is off the list (peer.py:585-589).
THEOREM NothingListed == CSpec => []NothingListedAtPrompt
<1>1. InvFetch /\ [CNext]_allVars => InvFetch' BY FetchStep
<1>2. InvFetch => NothingListedAtPrompt BY DEF InvFetch, InvListed, NothingListedAtPrompt
<1> QED BY FetchInit, <1>1, <1>2, PTL DEF CSpec

\* TableFilled of run retrieve, for every list the contact can have: the table is as long as the
\* reply and no entry of it is missing (peer.c:340-377).
THEOREM TableIsFilled == CSpec => []TableFilled
<1>1. InvFetch /\ [CNext]_allVars => InvFetch' BY FetchStep
<1>2. InvFetch => TableFilled
  <2> SUFFICES ASSUME InvFetch, NEW p \in CPeers, client[p] \in {"pick", "wait", "blocks"}, Alike[p] = {}
               PROVE  None \notin Entries(p) /\ Cardinality(Entries(p)) = count[p]
    BY DEF TableFilled
  <2>0. count[p] \in Nat /\ Complete(network[p], count[p]) BY DEF InvFetch, InvTable
  <2>1. None \notin Entries(p) BY <2>0 DEF Entries, Complete
  <2> DEFINE g == [k \in 1 .. count[p] |-> network[p][k - 1]]
  <2>2. count[p] \in Nat /\ \A i, j \in 0 .. count[p] - 1 : network[p][i] = network[p][j] => i = j
    BY <2>0 DEF Complete
  <2>3. g \in Bijection(1 .. count[p], Entries(p))
    <3>1. g \in [1 .. count[p] -> Entries(p)]
      <4>1. \A k \in 1 .. count[p] : k - 1 \in 0 .. count[p] - 1 BY <2>2
      <4>2. \A k \in 1 .. count[p] : network[p][k - 1] \in Entries(p) BY <4>1 DEF Entries
      <4> QED BY <4>2
    <3>2. \A a, b \in 1 .. count[p] : g[a] = g[b] => a = b BY <2>2
    <3>3. \A t \in Entries(p) : \E k \in 1 .. count[p] : g[k] = t
      <4> SUFFICES ASSUME NEW i \in 0 .. count[p] - 1 PROVE \E k \in 1 .. count[p] : g[k] = network[p][i]
        BY DEF Entries
      <4>1. i + 1 \in 1 .. count[p] /\ g[i + 1] = network[p][i] BY <2>2
      <4> QED BY <4>1
    <3> QED BY <3>1, <3>2, <3>3 DEF Bijection, Injection, Surjection, IsInjective
  <2>4. ExistsBijection(1 .. count[p], Entries(p)) BY <2>3 DEF ExistsBijection
  <2> QED BY <2>1, <2>2, <2>4, FS_CountingElements
<1> QED BY FetchInit, <1>1, <1>2, PTL DEF CSpec

\* RightIsServed of run retrieve, whatever old copies there are and whoever crashes: a copy that is
\* reported to be right is what the other peer read (peer.c:314-330).
THEOREM RightCopies == CSpec => []RightIsServed
<1>1. InvFetch /\ [CNext]_allVars => InvFetch' BY FetchStep
<1>2. InvFetch => RightIsServed BY DEF InvFetch, InvRight, RightIsServed
<1> QED BY FetchInit, <1>1, <1>2, PTL DEF CSpec
=============================================================================
