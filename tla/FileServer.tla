----------------------------- MODULE FileServer ------------------------------
(***************************************************************************)
(* The file server of A3/python/server/server.py with clients that run     *)
(* A3/python/client/client.py and clients that run A3/src/networking.c.    *)
(* A client registers its user and asks for files; the server handles      *)
(* every connection in a thread of its own, and the threads share the      *)
(* table of users without a lock.  A file is sent as blocks in random      *)
(* order and put together again by the client.                             *)
(*                                                                         *)
(* The Python client has one connection at a time.  The C program leaves   *)
(* the connection of its registration without reading the reply, so that   *)
(* this connection, Late[p], is still handled while it asks for files.     *)
(*                                                                         *)
(* Users may have the same signature: the C program's is of the first eight *)
(* characters of the password.  What is stored for a name, a salted hash   *)
(* and that salt, is represented by the connection on which the name was   *)
(* registered, for the salt is a new one each time; it matches the         *)
(* signature that was sent there.  A block is its file and number (no      *)
(* file: the text of a reply that is not a file); its checksum matches     *)
(* unless a read returned fewer bytes than it asked for.                   *)
(***************************************************************************)
EXTENDS Integers, Sequences, FiniteSets

CONSTANTS Clients,       \* the Python clients
          Programs,      \* the C programs
          Late,          \* Late[p]: the connection on which p registers
          Names, None,
          Empty,         \* the name of no characters
          Name,          \* Name[c]: the user name sent on connection c
          Signature,     \* Signature[c]: the signature sent on connection c
          Files,         \* the names users ask for
          Blocks,        \* Blocks[f]: the number of blocks of file f, -1 if the server lacks it
          CFiles,        \* the files a C program asks for, in order
          MaxRequests,   \* MaxRequests[c]: bound on the requests of Python client c
          MaxShortReads  \* bound on the reads that return too little

Readers == Clients \cup Programs
Conns == Readers \cup {Late[p] : p \in Programs}

ASSUME NameAssumption == /\ Name \in [Conns -> Names] /\ None \notin Conns
                         /\ DOMAIN Signature = Conns
ASSUME ConnsAssumption == /\ Clients \cap Programs = {}
                          /\ \A p, q \in Programs : Late[p] \notin Readers /\ (Late[p] = Late[q] => p = q)
ASSUME FilesAssumption == Blocks \in [Files -> Nat \cup {-1}] /\ None \notin Files
\* server.py:294-299: the server does not start without the files the C program wants.
ASSUME CFilesAssumption == CFiles \in Seq(Files) /\ \A i \in DOMAIN CFiles : Blocks[CFiles[i]] > 0
ASSUME BoundsAssumption == MaxRequests \in [Clients -> Nat] /\ MaxShortReads \in Nat

Whole(f) == {<<f, b>> : b \in 0 .. Blocks[f] - 1}
Text == <<None, 0>>
Junk == <<None, -1>>   \* what is written after a read that returned too little

VARIABLES users,     \* server.users: the connection that registered a name, or None
          handler,   \* handler[c]: where the handler thread of connection c is
          path,      \* path[c]: the file it has read from the request, None for a registration
          hash,      \* hash[c]: the entry of users whose hash it has read
          count,     \* count[c]: blocks_count of its reply
          toSend,    \* toSend[c]: the blocks it has not sent
          status,    \* status[c]: the status of its reply
          chan,      \* chan[c]: the blocks on their way to the client
          client,    \* client[c]: "prompt", "wait", "write", "dead"
          asked,     \* asked[c]: the file asked for, None for a registration
          received,  \* received[c]: the blocks in all_blocks or haml
          disk,      \* disk[c][f]: the blocks in c's copy of f, or None
          requests, shortReads,
          taken,     \* taken[c]: c's name was registered when its request started (history)
          accepted   \* the connections whose registration was accepted so far (history)

serverVars == <<users, handler, path, hash, count, toSend, status>>
clientVars == <<client, asked, received, disk>>
counters == <<requests, shortReads>>
history == <<taken, accepted>>
vars == <<serverVars, chan, clientVars, counters, history>>

Init == /\ users = [n \in Names |-> None]
        /\ handler = [c \in Conns |-> "none"]
        /\ path = [c \in Conns |-> None]
        /\ hash = [c \in Conns |-> None]
        /\ count = [c \in Conns |-> 0]
        /\ toSend = [c \in Conns |-> {}]
        /\ status = [c \in Conns |-> "ok"]
        /\ chan = [c \in Readers |-> <<>>]
        /\ client = [c \in Readers |-> "prompt"]
        /\ asked = [c \in Readers |-> None]
        /\ received = [c \in Readers |-> {}]
        /\ disk = [c \in Readers |-> [f \in Files |-> None]]
        /\ requests = [c \in Readers |-> 0]
        /\ shortReads = 0
        /\ taken = [c \in Conns |-> FALSE] /\ accepted = {}

-----------------------------------------------------------------------------
(* The handler thread of connection c.                                     *)

\* _build_and_send_responses: the reply is cut into n blocks; none at all if it is empty.
StartReply(c, s, n) == /\ status' = [status EXCEPT ![c] = s]
                       /\ count' = [count EXCEPT ![c] = n]
                       /\ toSend' = [toSend EXCEPT ![c] = 0 .. n - 1]
                       /\ handler' = [handler EXCEPT ![c] = "send"]

At(c, s) == handler[c] = s /\ UNCHANGED <<path, chan, clientVars, counters, taken>>
Goto(c, s) == handler' = [handler EXCEPT ![c] = s] /\ UNCHANGED <<count, toSend, status>>

\* The one read of the request returns less than the header: unpacking raises.
CutHeader(c) == /\ handler[c] = "asked" /\ shortReads < MaxShortReads
                /\ shortReads' = shortReads + 1
                /\ StartReply(c, "other", 1)
                /\ UNCHANGED <<users, path, hash, chan, clientVars, requests, history>>

\* It returns the header and some of the path, which may name another file.  The request is
\* malformed, which is said in a reply of its own, and is handled nevertheless.
CutPath(c) == \E f \in Files \ {path[c]} :
  /\ handler[c] = "asked" /\ path[c] # None /\ path[c] = asked[c] /\ shortReads < MaxShortReads
  /\ shortReads' = shortReads + 1
  /\ path' = [path EXCEPT ![c] = f]
  /\ chan' = [chan EXCEPT ![c] = <<[block |-> Text, count |-> 1, status |-> "malformed"]>>]
  /\ UNCHANGED <<users, handler, hash, count, toSend, status, clientVars, requests, history>>

\* Faulty: the name is not looked up.
CheckNameNot(c) == /\ At(c, "asked") /\ path[c] = None
                   /\ IF Name[c] = Empty THEN StartReply(c, "bad", 1) ELSE Goto(c, "insert")
                   /\ UNCHANGED <<users, hash, accepted>>

\* _register_new_user: is there a name, and is it free?
CheckName(c) == /\ At(c, "asked") /\ path[c] = None
                /\ IF Name[c] = Empty THEN StartReply(c, "bad", 1)
                   ELSE IF users[Name[c]] # None THEN StartReply(c, "exists", 1)
                   ELSE Goto(c, "insert")
                /\ UNCHANGED <<users, hash, accepted>>

\* The name is stored, whatever happened since the check.
Insert(c) == /\ At(c, "insert")
             /\ users' = [users EXCEPT ![Name[c]] = c]
             /\ accepted' = accepted \cup {c}
             /\ StartReply(c, "ok", 1)
             /\ UNCHANGED hash

\* _handle_request: the user must exist; the stored hash is read,
ReadHash(c) == /\ At(c, "asked") /\ path[c] # None
               /\ hash' = [hash EXCEPT ![c] = users[Name[c]]]
               /\ IF users[Name[c]] = None THEN StartReply(c, "missing", 1) ELSE Goto(c, "login")
               /\ UNCHANGED <<users, accepted>>

\* Faulty: any user that is registered is served.
LoginAny(c) == /\ At(c, "login")
               /\ IF Blocks[path[c]] = -1 THEN StartReply(c, "bad", 1)
                                          ELSE StartReply(c, "ok", Blocks[path[c]])
               /\ UNCHANGED <<users, hash, accepted>>

\* and compared with the client's signature under the stored salt, which is read only now.
Matches(c) == users[Name[c]] = hash[c] /\ Signature[hash[c]] = Signature[c]

Login(c) == /\ At(c, "login")
            /\ IF ~Matches(c) THEN StartReply(c, "invalid", 1)
               ELSE IF Blocks[path[c]] = -1 THEN StartReply(c, "bad", 1)
               ELSE StartReply(c, "ok", Blocks[path[c]])
            /\ UNCHANGED <<users, hash, accepted>>

\* The blocks are sent in random order, and lost if the client has left.
SendBlock(c) == \E b \in toSend[c] :
  /\ handler[c] = "send"
  /\ toSend' = [toSend EXCEPT ![c] = @ \ {b}]
  /\ LET block == IF status[c] = "ok" /\ path[c] # None THEN <<path[c], b>> ELSE Text
         msg == [block |-> block, count |-> count[c], status |-> status[c]]
     IN chan' = IF c \in Readers THEN [chan EXCEPT ![c] = Append(@, msg)] ELSE chan
  /\ UNCHANGED <<users, handler, path, hash, count, status, clientVars, counters, history>>

\* Faulty: the thread keeps the connection open if it had nothing to send.
CloseUsed(c) == /\ handler[c] = "send" /\ toSend[c] = {} /\ count[c] > 0
                /\ handler' = [handler EXCEPT ![c] = "closed"]
                /\ UNCHANGED <<users, path, hash, count, toSend, status, chan, clientVars, counters, history>>

\* The thread ends and the connection with it.
Close(c) == /\ handler[c] = "send" /\ toSend[c] = {}
            /\ handler' = [handler EXCEPT ![c] = "closed"]
            /\ UNCHANGED <<users, path, hash, count, toSend, status, chan, clientVars, counters, history>>

-----------------------------------------------------------------------------
(* The clients.                                                            *)

\* The server accepts connection c with a request for f.
Accept(c, f) == /\ handler' = [handler EXCEPT ![c] = "asked"]
                /\ path' = [path EXCEPT ![c] = f]
                /\ taken' = [taken EXCEPT ![c] = users[Name[c]] # None]
                /\ UNCHANGED <<users, hash, count, toSend, status, chan, shortReads, accepted>>

\* Client c sends a request for f and waits.
Send(c, f) == /\ client[c] = "prompt" /\ handler[c] = "none"
              /\ Accept(c, f)
              /\ asked' = [asked EXCEPT ![c] = f]
              /\ client' = [client EXCEPT ![c] = "wait"]
              /\ received' = [received EXCEPT ![c] = {}]
              /\ requests' = [requests EXCEPT ![c] = @ + 1]

\* The Python client registers first (the user may start it again later), or asks for a file.
Ask(c) == \E f \in Files \cup {None} :
  /\ requests[c] < MaxRequests[c] /\ (requests[c] = 0 => f = None)
  /\ Send(c, f)
  /\ UNCHANGED disk

\* register_user: the C program sends the registration, closes the connection and goes on.
Register(p) == /\ requests[p] = 0
               /\ Accept(Late[p], None)
               /\ requests' = [requests EXCEPT ![p] = 1]
               /\ UNCHANGED clientVars

\* get_file: it asks for its next file, and makes its own copy empty before the reply comes.
GetFile(p) == /\ requests[p] \in 1 .. Len(CFiles)
              /\ LET f == CFiles[requests[p]]
                 IN Send(p, f) /\ disk' = [disk EXCEPT ![p][f] = {}]

\* The client leaves the connection; what the handler still sends is lost.
Leave(c, s) == /\ client' = [client EXCEPT ![c] = s]
               /\ handler' = [handler EXCEPT ![c] = "none"]
               /\ toSend' = [toSend EXCEPT ![c] = {}]
               /\ chan' = [chan EXCEPT ![c] = <<>>]
               /\ UNCHANGED <<users, path, hash, count, status, asked, requests, history>>

\* It takes the next block and stays.
Take(c) == /\ chan' = [chan EXCEPT ![c] = Tail(@)]
           /\ UNCHANGED <<serverVars, client, asked, disk, requests, history>>

\* Faulty: the status is not looked at.
ReceiveAnyStatus(c) ==
  /\ client[c] = "wait" /\ chan[c] # <<>>
  /\ LET m == Head(chan[c])
         all == received[c] \cup {m.block}
     IN /\ received' = [received EXCEPT ![c] = all]
        /\ IF Cardinality(all) = m.count
             THEN Leave(c, IF asked[c] = None THEN "prompt" ELSE "write") /\ UNCHANGED disk
             ELSE Take(c)
  /\ UNCHANGED shortReads

\* send_to_server: a block is received.  The block that fills the last gap ends the loop; an
\* unexpected status ends it at once, with no data.
Receive(c) ==
  /\ client[c] = "wait" /\ chan[c] # <<>>
  /\ LET m == Head(chan[c])
         all == received[c] \cup {m.block}
     IN IF m.status # "ok"
          THEN Leave(c, "prompt") /\ UNCHANGED <<received, disk>>
          ELSE /\ received' = [received EXCEPT ![c] = all]
               /\ IF Cardinality(all) = m.count
                    THEN Leave(c, IF asked[c] = None THEN "prompt" ELSE "write") /\ UNCHANGED disk
                    ELSE Take(c)
  /\ UNCHANGED shortReads

\* A read returns fewer bytes than a block has.  If the header is complete the checksum does
\* not match and there is no data; otherwise unpacking raises and the client ends.
ShortRead(c) == /\ client[c] = "wait" /\ chan[c] # <<>> /\ shortReads < MaxShortReads
                /\ shortReads' = shortReads + 1
                /\ \E s \in {"prompt", "dead"} : Leave(c, s)
                /\ UNCHANGED <<received, disk>>

\* The connection was closed and everything is read: unpacking nothing raises.
EndOfReply(c) == /\ client[c] = "wait" /\ chan[c] = <<>> /\ handler[c] = "closed"
                 /\ Leave(c, "dead")
                 /\ UNCHANGED <<received, disk, shortReads>>

\* to_server: the joined blocks are written to the file.
Write(c) == /\ client[c] = "write"
            /\ disk' = [disk EXCEPT ![c][asked[c]] = received[c]]
            /\ client' = [client EXCEPT ![c] = "prompt"]
            /\ UNCHANGED <<serverVars, chan, asked, received, counters, history>>

\* Faulty: the block received before the loop is counted by the loop once more.
CReceiveEarly(p) ==
  /\ client[p] = "wait" /\ chan[p] # <<>>
  /\ LET m == Head(chan[p])
         haml == received[p] \cup {m.block}
     IN /\ received' = [received EXCEPT ![p] = haml]
        /\ IF Cardinality(haml) >= m.count - 1
             THEN Leave(p, "prompt") /\ disk' = [disk EXCEPT ![p][asked[p]] = haml]
             ELSE Take(p)
  /\ UNCHANGED shortReads

\* get_file of the C program: the blocks are counted, and written when there are as many as the
\* last one says; neither the status nor a checksum is looked at.  (response headers are copied
\* with the size of the buffer, which the stack of the program as it is built has room for)
CReceive(p) ==
  /\ client[p] = "wait" /\ chan[p] # <<>>
  /\ LET m == Head(chan[p])
         haml == received[p] \cup {m.block}
     IN /\ received' = [received EXCEPT ![p] = haml]
        /\ IF Cardinality(haml) = m.count
             THEN Leave(p, "prompt") /\ disk' = [disk EXCEPT ![p][asked[p]] = haml]
             ELSE Take(p)
  /\ UNCHANGED shortReads

\* A read of the C program returns too little, or what is on its way is lost because the server
\* closed a connection with the rest of the request unread.  What it takes for a header is then
\* undefined: the program dies, or anything is written.
CShortRead(p) ==
  /\ client[p] = "wait" /\ chan[p] # <<>> /\ shortReads < MaxShortReads
  /\ shortReads' = shortReads + 1
  /\ \/ Leave(p, "dead") /\ UNCHANGED disk
     \/ Leave(p, "prompt") /\ disk' = [disk EXCEPT ![p][asked[p]] = {Junk}]
  /\ UNCHANGED received

-----------------------------------------------------------------------------
Handler(c) == CheckName(c) \/ Insert(c) \/ ReadHash(c) \/ Login(c) \/ SendBlock(c) \/ Close(c)
Client(c) == Receive(c) \/ EndOfReply(c) \/ Write(c)

Next == \/ \E c \in Conns : Handler(c) \/ CutHeader(c) \/ CutPath(c)
        \/ \E c \in Clients : Ask(c) \/ Client(c) \/ ShortRead(c)
        \/ \E p \in Programs : Register(p) \/ GetFile(p) \/ CReceive(p) \/ CShortRead(p)

Spec == Init /\ [][Next]_vars

\* The threads are scheduled; users need not ask for anything.
FairSpec == /\ Spec
            /\ \A c \in Conns : WF_vars(Handler(c))
            /\ \A c \in Clients : WF_vars(Client(c))
            /\ \A p \in Programs : WF_vars(CReceive(p))
-----------------------------------------------------------------------------
(* Correctness.                                                            *)

\* client.py:121-137: in whatever order the blocks arrive, whatever a read cuts off, and also
\* when the server answers one request twice, a file that is written is all of the server's file.
WrittenIsWhole == \A c \in Clients, f \in Files : disk[c][f] \in {None, Whole(f)}

\* networking.c:132-225: a copy of the C program is the whole file or the text of one refusal,
\* never a mixture, unless a read returned too little; it is empty only while the program waits
\* for the reply or after it died.
CopyIsWholeOrReply ==
  \A p \in Programs, f \in Files :
    \/ disk[p][f] \in {None, Whole(f), {Text}, {Junk}}
    \/ /\ disk[p][f] = {}
       /\ client[p] = "dead" \/ (client[p] = "wait" /\ asked[p] = f)

\* server.py:108-109: a file is sent only to a user with a name and signature for which a
\* registration was accepted, however the request interleaves with registrations that replace the
\* entry it is compared with, the one the user did not wait for included.
ServedOnlyRegistered ==
  \A c \in Conns : handler[c] \in {"send", "closed"} /\ path[c] # None /\ status[c] = "ok"
                     => \E d \in accepted : Name[d] = Name[c] /\ Signature[d] = Signature[c]

\* server.py:171: the user is registered, unless a user by that name already exists; a
\* name that was taken before the request came is refused.
TakenNameRefused ==
  \A c \in Conns : handler[c] = "send" /\ path[c] = None /\ taken[c] => status[c] # "ok"

\* Every request ends, with data, an error or, when the reply is empty, with the end of the
\* connection.
RequestEnds == \A c \in Readers : (client[c] = "wait") ~> (client[c] # "wait")
=============================================================================
