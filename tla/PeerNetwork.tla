---------------------------- MODULE PeerNetwork -----------------------------
(***************************************************************************)
(* Membership in the peer-to-peer network of A4/python/first_peer/peer.py: *)
(* a peer starts with itself in its network list, its client thread        *)
(* registers with the configured peer, its server thread handles every     *)
(* connection in a thread of its own, and whoever registers a newcomer     *)
(* informs the peers it knows.  Each list is guarded by its peer's         *)
(* network_mutex, which one error path of the handlers releases twice: it  *)
(* can be taken from whoever holds it.  Taking it, each look at the list,  *)
(* each change of it and giving it back are therefore actions of their     *)
(* own in the handlers.  Nobody registers with a peer that has a client    *)
(* thread, so that there the thread's own sections are one action.         *)
(*                                                                         *)
(* Connections are TCP: a connect is refused when nobody listens, data     *)
(* arrives in order and once, and a send to a peer that has gone may       *)
(* raise.  Retrieving a file matters here only as a message that refreshes *)
(* the list of its receiver; RetrieveFile models the rest of it.           *)
(***************************************************************************)
EXTENDS Integers, Sequences, FiniteSets

CONSTANTS Peers,
          Contact,     \* the peer every configuration file names as peer_ip, peer_port
          Conns,       \* 1 .. n: connections that can be open at once
          None,
          MaxCrashes,  \* bound on crashes
          MaxTicks,    \* bound on the times that 60 seconds pass at a peer
          MaxGets      \* bound on the files users ask for

ASSUME ContactAssumption == Contact \in Peers /\ None \notin Peers
ASSUME ConnsAssumption == Conns \subseteq Nat /\ IsFiniteSet(Conns) /\ None \notin Conns
ASSUME BoundsAssumption == MaxCrashes \in Nat /\ MaxTicks \in Nat /\ MaxGets \in Nat

VARIABLES up,         \* up[p]: the process runs
          listening,  \* listening[p]: its server socket is open
          network,    \* network[p]: the list of [addr, stamp]
          mutex,      \* mutex[p]: who holds network_mutex, or None
          client,     \* client[p]: where its client thread is
          using,      \* using[p]: the connection its client thread waits on, or None
          conn,       \* conn[c]: a connection and the state of its handler
          crashes, ticks, gets,
          stolen      \* the peers whose mutex one thread has released for another (history)

vars == <<up, listening, network, mutex, client, using, conn, crashes, ticks, gets, stolen>>

Known == [addr : Peers, stamp : {"own", "new", "old"}]
Old == {e \in Known : e.stamp = "old"}

\* A list entry.  stamp is the timestamp in the list: "own" for -1, "old" when it is more than
\* 60 seconds back.
Entry(q) == [addr |-> q, stamp |-> "new"]
Own(p) == [addr |-> p, stamp |-> "own"]

Free == [st |-> "free", from |-> None, to |-> None, cmd |-> "none", about |-> None,
         todo |-> <<>>, payload |-> <<>>, pos |-> 1, replies |-> <<>>]

\* A connection is forgotten once its handler is over and no client thread in u waits on it.
Settle(f, u) == [c \in Conns |-> IF f[c].st = "over" /\ \A p \in Peers : u[p] # c THEN Free ELSE f[c]]

\* The elements of s that are in S, in their order.
Only(s, S) ==
  LET kept[n \in 0 .. Len(s)] == IF n = 0 THEN <<>>
                                 ELSE IF s[n] \in S THEN Append(kept[n - 1], s[n])
                                 ELSE kept[n - 1]
  IN kept[Len(s)]

AddressList(p) == [k \in DOMAIN network[p] |-> network[p][k].addr]
Addresses(p) == {network[p][k].addr : k \in DOMAIN network[p]}

Init == /\ up = [p \in Peers |-> p = Contact]
        /\ listening = [p \in Peers |-> FALSE]
        /\ network = [p \in Peers |-> IF p = Contact THEN <<Own(p)>> ELSE <<>>]
        /\ mutex = [p \in Peers |-> None]
        /\ client = [p \in Peers |-> "none"]
        /\ using = [p \in Peers |-> None]
        /\ conn = [c \in Conns |-> Free]
        /\ crashes = 0 /\ ticks = 0 /\ gets = 0 /\ stolen = {}

-----------------------------------------------------------------------------
(* The process: main, crash, and the passing of time.                      *)

\* main: the list starts with the peer itself; the client thread starts if a peer is
\* configured, and only then is the server socket opened.
Boot(p) == /\ ~up[p]
           /\ up' = [up EXCEPT ![p] = TRUE]
           /\ network' = [network EXCEPT ![p] = <<Own(p)>>]
           /\ client' = [client EXCEPT ![p] = IF p = Contact THEN "none" ELSE "start"]
           /\ UNCHANGED <<listening, mutex, using, conn, crashes, ticks, gets, stolen>>

Listen(p) == /\ up[p] /\ ~listening[p]
             /\ listening' = [listening EXCEPT ![p] = TRUE]
             /\ UNCHANGED <<up, network, mutex, client, using, conn, crashes, ticks, gets, stolen>>

\* The process is killed: its threads, its list and its mutex are gone.
Crash(p) == /\ up[p] /\ crashes < MaxCrashes
            /\ up' = [up EXCEPT ![p] = FALSE]
            /\ listening' = [listening EXCEPT ![p] = FALSE]
            /\ network' = [network EXCEPT ![p] = <<>>]
            /\ mutex' = [mutex EXCEPT ![p] = None]
            /\ client' = [client EXCEPT ![p] = "none"]
            /\ using' = [using EXCEPT ![p] = None]
            /\ conn' = Settle([c \in Conns |-> IF conn[c].to = p THEN [conn[c] EXCEPT !.st = "over"]
                                               ELSE conn[c]], using')
            /\ crashes' = crashes + 1
            /\ stolen' = stolen \ {p}
            /\ UNCHANGED <<ticks, gets>>

\* More than 60 seconds pass with no message at p.
Tick(p) == /\ up[p] /\ ticks < MaxTicks
           /\ network' = [network EXCEPT ![p] =
                [k \in DOMAIN @ |-> IF @[k].stamp = "own" THEN @[k]
                                    ELSE [@[k] EXCEPT !.stamp = "old"]]]
           /\ ticks' = ticks + 1
           /\ UNCHANGED <<up, listening, mutex, client, using, conn, crashes, gets, stolen>>

-----------------------------------------------------------------------------
(* The client thread: to_server and run_client.                            *)

FreeConns == {c \in Conns : conn[c].st = "free"}
NextConn == CHOOSE c \in FreeConns : \A d \in FreeConns : c <= d

\* p connects to q and sends a message.
Request(p, q, cmd, about) ==
  [Free EXCEPT !.st = "request", !.from = p, !.to = q, !.cmd = cmd, !.about = about]

\* A connect that is refused raises in the client thread, and nothing catches it.
ClientConnect(p, q, cmd) ==
  /\ IF listening[q]
       THEN /\ FreeConns # {}
            /\ conn' = [conn EXCEPT ![NextConn] = Request(p, q, cmd, None)]
            /\ using' = [using EXCEPT ![p] = NextConn]
            /\ client' = [client EXCEPT ![p] = cmd]
       ELSE client' = [client EXCEPT ![p] = "dead"] /\ UNCHANGED <<conn, using>>
  /\ UNCHANGED <<up, listening, network, mutex, crashes, ticks, stolen>>

ClientRegister(p) == client[p] = "start" /\ ClientConnect(p, Contact, "register") /\ UNCHANGED gets

\* The user asks for a file: get_random_peer picks a peer, and raises if there is none.
ClientGet(p) == /\ client[p] = "ready" /\ gets < MaxGets /\ mutex[p] = None
                /\ gets' = gets + 1
                /\ \/ \E q \in Addresses(p) \ {p} : ClientConnect(p, q, "get")
                   \/ /\ Addresses(p) = {p}
                      /\ client' = [client EXCEPT ![p] = "dead"]
                      /\ UNCHANGED <<up, listening, network, mutex, using, conn, crashes, ticks, stolen>>

\* The list of p with entries for those addresses of the sequence s that it lacks.
Merged(p, s) ==
  LET list[n \in 0 .. Len(s)] ==
        IF n = 0 THEN network[p]
        ELSE IF \E k \in DOMAIN list[n - 1] : list[n - 1][k].addr = s[n] THEN list[n - 1]
        ELSE Append(list[n - 1], Entry(s[n]))
  IN list[Len(s)]

\* The rest of to_server for a registration once a reply is there: an OK reply is merged into
\* the list under the mutex, any other is only reported.  run_client takes the mutex once more.
ClientRegistered(p) ==
  /\ client[p] = "register" /\ conn[using[p]].replies # <<>> /\ mutex[p] = None
  /\ network' = IF Head(conn[using[p]].replies) = "ok"
                   THEN [network EXCEPT ![p] = Merged(p, conn[using[p]].payload)]
                   ELSE network
  /\ client' = [client EXCEPT ![p] = "ready"]
  /\ using' = [using EXCEPT ![p] = None]
  /\ conn' = Settle(conn, using')
  /\ UNCHANGED <<up, listening, mutex, crashes, ticks, gets, stolen>>

ClientGot(p) == /\ client[p] = "get" /\ conn[using[p]].replies # <<>>
                /\ client' = [client EXCEPT ![p] = "ready"]
                /\ using' = [using EXCEPT ![p] = None]
                /\ conn' = Settle(conn, using')
                /\ UNCHANGED <<up, listening, network, mutex, crashes, ticks, gets, stolen>>

\* The connection ends without a reply: unpacking the empty read raises.
ClientDropped(p) == /\ using[p] # None
                    /\ conn[using[p]].st = "over" /\ conn[using[p]].replies = <<>>
                    /\ client' = [client EXCEPT ![p] = "dead"]
                    /\ using' = [using EXCEPT ![p] = None]
                    /\ conn' = Settle(conn, using')
                    /\ UNCHANGED <<up, listening, network, mutex, crashes, ticks, gets, stolen>>

-----------------------------------------------------------------------------
(* The handler threads: handle, _register, _add_to_network.                *)

Goto(c, s) == Settle([conn EXCEPT ![c].st = s], using)

\* The client side of connection c is still there to be sent to.
Attached(c) == using[conn[c].from] = c
Reply(c, status, s) ==
  Settle([conn EXCEPT ![c].replies = Append(@, status), ![c].st = s], using)

serverUnchanged == UNCHANGED <<up, listening, client, using, crashes, ticks, gets>>

\* A step of c's handler in state s that leaves the mutex alone.
Within(c, s) == conn[c].st = s /\ UNCHANGED <<mutex, stolen>> /\ serverUnchanged

\* It takes the mutex and goes on to t,
Acquire(c, t) == LET p == conn[c].to
                 IN /\ mutex[p] = None
                    /\ mutex' = [mutex EXCEPT ![p] = c]
                    /\ conn' = Goto(c, t)
                    /\ UNCHANGED <<network, stolen>> /\ serverUnchanged

\* or gives it back, which raises if nobody holds it, and takes it from whoever else holds it.
Release(c, t, raised) == LET p == conn[c].to
                         IN /\ mutex' = [mutex EXCEPT ![p] = None]
                            /\ stolen' = IF mutex[p] \in {None, c} THEN stolen ELSE stolen \cup {p}
                            /\ conn' = Goto(c, IF mutex[p] = None THEN raised ELSE t)
                            /\ UNCHANGED network /\ serverUnchanged

-----------------------------------------------------------------------------
\* The head of handle: under the mutex the list is refreshed.
RefreshBegin(c) == conn[c].st = "request" /\ Acquire(c, "scan")

IsFrom(e, c) == e.stamp # "own" /\ e.addr = conn[c].from

\* The entries to remove are collected.  Refreshing the sender's timestamp assigns to a tuple,
\* which raises; the exception is swallowed and nothing is removed.
Scan(c) == LET list == network[conn[c].to]
               old == IF \E k \in DOMAIN list : IsFrom(list[k], c) THEN <<>>
                      ELSE Only(list, Old)
           IN /\ Within(c, "scan")
              /\ conn' = [conn EXCEPT ![c].st = "remove", ![c].todo = old]
              /\ UNCHANGED network

\* The sequence s without the first occurrence of e.
Without(s, e) == LET first == CHOOSE k \in DOMAIN s : s[k] = e /\ \A j \in 1 .. k - 1 : s[j] # e
                 IN [k \in 1 .. Len(s) - 1 |-> IF k < first THEN s[k] ELSE s[k + 1]]

\* One of them is removed; if it is not there any more that raises, and the rest stays.
Remove(c) == LET p == conn[c].to  e == Head(conn[c].todo)
             IN /\ Within(c, "remove") /\ conn[c].todo # <<>>
                /\ IF \E k \in DOMAIN network[p] : network[p][k] = e
                     THEN /\ network' = [network EXCEPT ![p] = Without(@, e)]
                          /\ conn' = [conn EXCEPT ![c].todo = Tail(@)]
                     ELSE conn' = [conn EXCEPT ![c].todo = <<>>] /\ UNCHANGED network

RefreshEnd(c) == conn[c].st = "remove" /\ conn[c].todo = <<>> /\ Release(c, "dispatch", "failed")

-----------------------------------------------------------------------------
\* _register and _add_to_network begin alike: under the mutex the newcomer is looked for,
Newcomer(c) == IF conn[c].cmd = "register" THEN conn[c].from ELSE conn[c].about

AddBegin(c) == conn[c].st = "dispatch" /\ conn[c].cmd # "get" /\ Acquire(c, "search")

\* Faulty: a peer we are informed of is not looked for.
SearchRegistered(c) ==
  /\ Within(c, "search")
  /\ conn' = Goto(c, IF conn[c].cmd = "register" /\ Newcomer(c) \in Addresses(conn[c].to)
                       THEN "there" ELSE "append")
  /\ UNCHANGED network

Search(c) == /\ Within(c, "search")
             /\ conn' = Goto(c, IF Newcomer(c) \in Addresses(conn[c].to) THEN "there" ELSE "append")
             /\ UNCHANGED network

\* and appended,
AppendEntry(c) ==
  /\ Within(c, "append")
  /\ network' = [network EXCEPT ![conn[c].to] = Append(@, Entry(Newcomer(c)))]
  /\ conn' = Goto(c, IF conn[c].cmd = "register" THEN "build" ELSE "added")

\* Faulty: the reply names the newcomer only.
BuildEmptyReply(c) == /\ Within(c, "build")
                      /\ conn' = [conn EXCEPT ![c].st = "added", ![c].payload = <<conn[c].from>>]
                      /\ UNCHANGED network

\* and the list becomes the reply to a registration.
Build(c) == /\ Within(c, "build")
            /\ conn' = [conn EXCEPT ![c].st = "added", ![c].payload = AddressList(conn[c].to)]
            /\ UNCHANGED network

\* If giving the mutex back raises, the except clause gives it back once more.
AddEnd(c) == /\ conn[c].st \in {"there", "added"}
             /\ Release(c, IF conn[c].cmd = "inform" THEN "over"
                           ELSE IF conn[c].st = "added" THEN "registered" ELSE "exists", "unwind")

ReplyRegistered(c) ==
  /\ Within(c, "registered")
  /\ \/ conn' = Reply(c, "ok", "inform")
     \/ ~Attached(c) /\ conn' = Goto(c, "failed")
  /\ UNCHANGED network

\* If this send raises, the except clause gives back the mutex that has been given back before.
ReplyExists(c) ==
  /\ Within(c, "exists")
  /\ \/ conn' = Reply(c, "exists", "over")
     \/ ~Attached(c) /\ conn' = Goto(c, "unwind")
  /\ UNCHANGED network

\* The except clauses of _register and _add_to_network.
Unwind(c) == conn[c].st = "unwind" /\ Release(c, "failed", "failed")

-----------------------------------------------------------------------------
\* The informing loop: the mutex is kept to its end.
InformBegin(c) == conn[c].st = "inform" /\ Acquire(c, "telling")

\* What the others are told: the last peer of the reply, whose address the variables still have.
Announced(c) == conn[c].payload[Len(conn[c].payload)]

\* Faulty: a refused connect leaves the loop with the mutex held.
TellKeepsMutex(c) ==
  LET p == conn[c].to  q == network[p][conn[c].pos].addr
  IN /\ Within(c, "telling") /\ conn[c].pos <= Len(network[p])
     /\ IF q \in {p, conn[c].from} THEN conn' = [conn EXCEPT ![c].pos = @ + 1]
        ELSE IF listening[q] THEN /\ FreeConns # {}
                                  /\ conn' = [conn EXCEPT ![c].pos = @ + 1,
                                              ![NextConn] = Request(p, q, "inform", Announced(c))]
        ELSE conn' = Goto(c, "failed")
     /\ UNCHANGED network

\* The next peer of the list is told, unless it is this one or the newcomer; a refused connect
\* ends the loop.
Tell(c) ==
  LET p == conn[c].to  q == network[p][conn[c].pos].addr
  IN /\ Within(c, "telling") /\ conn[c].pos <= Len(network[p])
     /\ IF q \in {p, conn[c].from} THEN conn' = [conn EXCEPT ![c].pos = @ + 1]
        ELSE IF listening[q] THEN /\ FreeConns # {}
                                  /\ conn' = [conn EXCEPT ![c].pos = @ + 1,
                                              ![NextConn] = Request(p, q, "inform", Announced(c))]
        ELSE conn' = Goto(c, "unwind")
     /\ UNCHANGED network

InformEnd(c) == /\ conn[c].st = "telling" /\ conn[c].pos > Len(network[conn[c].to])
                /\ Release(c, "over", "unwind")

-----------------------------------------------------------------------------
HandleGet(c) == /\ Within(c, "dispatch") /\ conn[c].cmd = "get"
                /\ conn' = Reply(c, "ok", "over")
                /\ UNCHANGED network

\* The except clause of handle: a reply with STATUS_OTHER, which may raise in turn.
ReplyFailed(c) == /\ Within(c, "failed")
                  /\ \/ conn' = Reply(c, "other", "over")
                     \/ ~Attached(c) /\ conn' = Goto(c, "over")
                  /\ UNCHANGED network

-----------------------------------------------------------------------------
Client(p) == ClientRegister(p) \/ ClientRegistered(p) \/ ClientGot(p) \/ ClientDropped(p)
Handler(c) == \/ RefreshBegin(c) \/ Scan(c) \/ Remove(c) \/ RefreshEnd(c)
              \/ AddBegin(c) \/ Search(c) \/ AppendEntry(c) \/ Build(c) \/ AddEnd(c)
              \/ ReplyRegistered(c) \/ ReplyExists(c) \/ Unwind(c)
              \/ InformBegin(c) \/ Tell(c) \/ InformEnd(c) \/ HandleGet(c) \/ ReplyFailed(c)

Next == \/ \E p \in Peers : Boot(p) \/ Listen(p) \/ Crash(p) \/ Tick(p) \/ Client(p) \/ ClientGet(p)
        \/ \E c \in Conns : Handler(c)

Spec == Init /\ [][Next]_vars

\* Threads are scheduled; users need not start peers or ask for files.
Fairness == /\ \A p \in Peers : WF_vars(Listen(p)) /\ WF_vars(Client(p))
            /\ \A c \in Conns : WF_vars(Handler(c))
FairSpec == Spec /\ Fairness

-----------------------------------------------------------------------------
(* Correctness.                                                            *)

States == {"free", "request", "scan", "remove", "dispatch", "search", "append", "build", "added",
           "there", "registered", "exists", "inform", "telling", "unwind", "failed", "over"}

TypeOK ==
  /\ up \in [Peers -> BOOLEAN] /\ listening \in [Peers -> BOOLEAN]
  /\ network \in [Peers -> Seq(Known)]
  /\ \A p \in Peers : up[p] => network[p] # <<>> /\ network[p][1] = Own(p)
  /\ mutex \in [Peers -> Conns \cup {None}]
  /\ client \in [Peers -> {"none", "start", "register", "ready", "get", "dead"}]
  /\ using \in [Peers -> Conns \cup {None}]
  /\ \A c \in Conns : conn[c].st \in States
  /\ crashes \in 0 .. MaxCrashes /\ ticks \in 0 .. MaxTicks /\ gets \in 0 .. MaxGets
  /\ stolen \subseteq Peers

\* peer.py:187, 209-210 and 296-300: as long as no thread has released a mutex for another, no
\* peer is twice in a list, although registrations, informs and the reply to the peer's own
\* registration add to it from different threads, and crashes and restarts bring peers back.
NoDuplicates ==
  \A p \in Peers : p \in stolen \/ Cardinality(Addresses(p)) = Len(network[p])

\* peer.py:187: "the peer is registered, unless a peer at that address already exists".
NoPeerTwice == \A p \in Peers : Cardinality(Addresses(p)) = Len(network[p])

Joined(p) == p = Contact \/ client[p] \in {"ready", "get"}

\* As long as no peer crashes or falls silent, of any two peers that have joined at least one
\* knows the other: the contact orders the registrations, and the reply to the later one names
\* the earlier (peer.py:211-230).
Undisturbed == crashes = 0 /\ ticks = 0
OneKnowsOther ==
  Undisturbed => \A p, q \in Peers : Joined(p) /\ Joined(q) => p \in Addresses(q) \/ q \in Addresses(p)

\* peer.py:762-765: then a peer that has joined was told of a network it can pick a peer from.
JoinedKnowsSomebody ==
  Undisturbed => \A p \in Peers \ {Contact} : client[p] = "ready" => Addresses(p) # {p}

\* peer.py:209-210 and 240-241: the mutex is released in all circumstances, also when a peer that
\* is to be informed cannot be reached or crashes, so the list never stays locked.
MutexReleased == \A p \in Peers : (mutex[p] # None) ~> (mutex[p] = None)

\* A registration ends, with a reply or with an error, whatever fails (peer.py:95-98, 173-178).
RegistrationEnds == \A p \in Peers : (client[p] = "register") ~> (client[p] # "register")

-----------------------------------------------------------------------------
(* The inductive invariant behind the safety properties.                   *)

Connection == [st : States, from : Peers \cup {None}, to : Peers \cup {None},
               cmd : {"none", "register", "get", "inform"}, about : Peers \cup {None},
               todo : Seq(Old), payload : Seq(Peers), pos : Nat \ {0},
               replies : Seq({"ok", "exists", "other"})]

Active(c) == conn[c].st \notin {"free", "over"}

\* Between whom the connection r is while its handler runs, and how far the handler can be.
Sound(r) ==
  r.st \notin {"free", "over"} =>
    /\ r.from \in Peers /\ r.to \in Peers /\ up[r.to] /\ r.cmd # "none"
    /\ r.cmd = "inform" => r.about \in Peers
    /\ r.cmd = "get" => r.st \in {"request", "scan", "remove", "dispatch", "failed"}
    /\ r.st \in {"build", "registered", "exists", "inform", "telling"} => r.cmd = "register"
    /\ r.cmd = "register" /\ r.st \in {"added", "registered", "inform", "telling"} => r.payload # <<>>

InvConns ==
  /\ conn \in [Conns -> Connection] /\ \A c \in Conns : Sound(conn[c])
  /\ \A p \in Peers :
       /\ listening[p] => up[p]
       /\ client[p] = "none" <=> p = Contact \/ ~up[p]
       /\ client[p] \in {"register", "get"} <=> using[p] # None

\* A handler between taking the mutex and giving it back holds it, unless it was stolen.
Section == {"scan", "remove", "search", "append", "build", "added", "there", "telling"}
InvMutex == \A c \in Conns : conn[c].st \in Section /\ conn[c].to \notin stolen => mutex[conn[c].to] = c

\* Then no list names a peer twice, and what was looked for is still missing.
Distinct(s) == \A i, j \in DOMAIN s : s[i].addr = s[j].addr => i = j
InvLists == /\ \A p \in Peers : p \in stolen \/ Distinct(network[p])
            /\ \A c \in Conns : conn[c].st = "append" /\ conn[c].to \notin stolen =>
                                  Newcomer(c) \notin Addresses(conn[c].to)

InvBase == TypeOK /\ InvConns /\ InvMutex /\ InvLists

\* As long as nothing is disturbed no mutex is stolen, and a telling that fails still has its own.
HoldersOK == stolen = {} /\ \A c \in Conns : conn[c].st = "unwind" => mutex[conn[c].to] = c

\* The registration of p has been handled: the contact has it in its list.
Registered(p) == p \in Addresses(Contact)

\* What p knows, or will know once it reads the reply to its registration.
Reported(r) == IF r.st = "build" THEN Addresses(Contact) ELSE {r.payload[i] : i \in DOMAIN r.payload}
Told(p) == IF client[p] = "register" THEN Reported(conn[using[p]]) ELSE Addresses(p)

\* How far a registration on connection c, in the state r, has come: it is with the contact, the
\* newcomer waits on it until it is answered, and the contact did not know the newcomer.
RegistrationOK(r, c) ==
  /\ r.to = Contact /\ r.st \notin {"there", "exists"}
  /\ r.st \notin {"inform", "telling", "unwind", "failed"} => using[r.from] = c /\ r.replies = <<>>
  /\ r.st \in {"request", "scan", "remove", "dispatch", "search", "append"} => ~Registered(r.from)
  /\ r.st \in {"build", "added", "registered"} => Registered(r.from)
  /\ r.st \in {"inform", "telling", "unwind", "failed"} => r.replies # <<>>

\* Only the contact informs, and only others; nothing is removed from a list.
HandlersOK ==
  \A c \in Conns : Active(c) =>
    /\ conn[c].cmd = "register" => RegistrationOK(conn[c], c)
    /\ conn[c].cmd = "inform" => conn[c].to # Contact
    /\ conn[c].cmd # "register" => conn[c].st \notin {"unwind", "failed"}
    /\ conn[c].st = "remove" => conn[c].todo = <<>>

\* A client thread that waits for a reply waits on a connection of its own that will be, or
\* has been, answered.
ClientsOK ==
  \A p \in Peers :
    /\ client[p] \in {"register", "get"} =>
         /\ conn[using[p]].from = p /\ conn[using[p]].cmd = client[p]
         /\ conn[using[p]].st # "free"
         /\ conn[using[p]].st # "over" \/ conn[using[p]].replies # <<>>
    /\ client[p] = "register" /\ conn[using[p]].replies # <<>> =>
         Head(conn[using[p]].replies) = "ok" /\ Registered(p)
    /\ client[p] \in {"ready", "get"} => Registered(p)
    /\ client[p] \in {"none", "start"} => p = Contact \/ ~Registered(p)

\* The contact orders the registrations: of two peers in its list the later one is told of the
\* earlier.
OrderOK ==
  /\ up[Contact]
  /\ \A i, j \in DOMAIN network[Contact] :
       i < j => network[Contact][i].addr \in Told(network[Contact][j].addr)
  /\ \A p \in Peers : \A k \in DOMAIN network[p] : network[p][k].stamp # "old"

OrderParts == HoldersOK /\ HandlersOK /\ ClientsOK /\ OrderOK
InvOrder == Undisturbed => OrderParts

InvNet == InvBase /\ InvOrder
=============================================================================
