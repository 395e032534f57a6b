-------------------------- MODULE FileServerProofs --------------------------
(* Proofs about the file server of A3 and its clients, for any clients,    *)
(* names, files and numbers of requests and short reads: who is served and *)
(* whose registration is refused, and what the clients write.              *)
EXTENDS FileServer, FiniteSetTheorems, TLAPS

Replies == {"ok", "other", "exists", "missing", "invalid", "bad"}

\* The handler threads and the table of users.
InvType == /\ users \in [Names -> Conns \cup {None}]
           /\ handler \in [Conns -> {"none", "asked", "insert", "login", "send", "closed"}]
           /\ path \in [Conns -> Files \cup {None}] /\ hash \in [Conns -> Conns \cup {None}]
           /\ count \in [Conns -> Int] /\ toSend \in [Conns -> SUBSET Int]
           /\ status \in [Conns -> Replies] /\ taken \in [Conns -> BOOLEAN] /\ accepted \subseteq Conns

\* An entry of the table is that of an accepted registration of the name, and a name that was
\* taken stays taken.
InvUsers == /\ \A n \in Names : users[n] # None => users[n] \in accepted /\ Name[users[n]] = n
            /\ \A c \in Conns : taken[c] => users[Name[c]] # None

\* What the checks have established at the places behind them.
InvPlaces == \A c \in Conns : /\ handler[c] = "insert" => path[c] = None /\ ~ taken[c]
                              /\ handler[c] = "login" => path[c] # None /\ hash[c] # None

InvServer == InvType /\ InvUsers /\ InvPlaces /\ ServedOnlyRegistered /\ TakenNameRefused

-----------------------------------------------------------------------------
LEMMA ServerInit == Init => InvServer
<1> SUFFICES ASSUME Init PROVE InvServer OBVIOUS
<1>1. InvType BY DEF Init, InvType, Replies
<1>2. InvUsers /\ InvPlaces BY NameAssumption DEF Init, InvUsers, InvPlaces
<1>3. ServedOnlyRegistered /\ TakenNameRefused
  BY DEF Init, ServedOnlyRegistered, TakenNameRefused
<1> QED BY <1>1, <1>2, <1>3 DEF InvServer

\* The parts of a reply have their types.
LEMMA ReplyTyped ==
  ASSUME InvType, NEW c \in Conns, NEW s \in Replies, NEW n \in Int, StartReply(c, s, n)
  PROVE  /\ status' \in [Conns -> Replies] /\ count' \in [Conns -> Int]
         /\ toSend' \in [Conns -> SUBSET Int]
         /\ handler' \in [Conns -> {"none", "asked", "insert", "login", "send", "closed"}]
<1>1. status' \in [Conns -> Replies] /\ count' \in [Conns -> Int] BY DEF InvType, StartReply
<1>2. 0 .. n - 1 \in SUBSET Int BY DEF StartReply
<1>3. toSend' \in [Conns -> SUBSET Int] BY <1>2 DEF InvType, StartReply
<1>4. handler' \in [Conns -> {"none", "asked", "insert", "login", "send", "closed"}]
  BY DEF InvType, StartReply
<1> QED BY <1>1, <1>3, <1>4

\* A reply other than that of a registration or of a file that is allowed to be sent.
LEMMA Refusal ==
  ASSUME InvServer, NEW c \in Conns, NEW s \in Replies \ {"ok"}, StartReply(c, s, 1),
         UNCHANGED <<users, path, taken, accepted>>, hash' \in [Conns -> Conns \cup {None}],
         \A d \in Conns : d # c => hash'[d] = hash[d]
  PROVE  InvServer'
<1>0. /\ status' \in [Conns -> Replies] /\ count' \in [Conns -> Int]
      /\ toSend' \in [Conns -> SUBSET Int]
      /\ handler' \in [Conns -> {"none", "asked", "insert", "login", "send", "closed"}]
  <2>1. InvType /\ s \in Replies /\ 1 \in Int BY DEF InvServer
  <2> QED BY <2>1, ReplyTyped
<1> USE DEF InvServer
<1>1. InvType' BY <1>0 DEF InvType
<1>2. InvUsers' /\ InvPlaces' BY DEF InvType, InvUsers, InvPlaces, StartReply
<1>3. ServedOnlyRegistered' /\ TakenNameRefused'
  BY DEF InvType, ServedOnlyRegistered, TakenNameRefused, StartReply
<1> QED BY <1>1, <1>2, <1>3

\* The handler leaves the connection or is about to.
LEMMA ServerQuiet ==
  ASSUME InvServer, UNCHANGED <<users, path, hash, count, status, taken, accepted>>,
         toSend' \in [Conns -> SUBSET Int], handler' \in [Conns -> {"none", "asked", "insert", "login", "send", "closed"}],
         \A c \in Conns : handler'[c] \in {handler[c], "none"} \/ (handler[c] = "send" /\ handler'[c] = "closed")
  PROVE  InvServer'
<1> USE DEF InvServer
<1>1. InvType' BY DEF InvType
<1>2. InvUsers' /\ InvPlaces' BY DEF InvUsers, InvPlaces
<1>3. ServedOnlyRegistered' /\ TakenNameRefused' BY DEF InvType, ServedOnlyRegistered, TakenNameRefused
<1> QED BY <1>1, <1>2, <1>3

\* A request arrives.
LEMMA Accepted ==
  ASSUME InvServer, NEW c \in Conns, NEW f \in Files \cup {None}, Accept(c, f)
  PROVE  InvServer'
<1> USE DEF InvServer, Accept
<1>1. InvType' BY DEF InvType
<1>2. InvUsers' /\ InvPlaces' BY NameAssumption DEF InvType, InvUsers, InvPlaces
<1>3. ServedOnlyRegistered' /\ TakenNameRefused' BY DEF InvType, ServedOnlyRegistered, TakenNameRefused
<1> QED BY <1>1, <1>2, <1>3

LEMMA HandlerStep == ASSUME InvServer, NEW c \in Conns, Handler(c) \/ CutHeader(c) \/ CutPath(c) PROVE InvServer'
<1> USE DEF At, Goto
<1>1. CASE CutHeader(c)
  BY <1>1, Refusal DEF CutHeader, history, Replies, InvServer, InvType
<1>2. CASE CutPath(c)
  <2>1. PICK f \in Files \ {path[c]} : CutPath(c)!(f) BY <1>2 DEF CutPath
  <2>2. InvType' BY <2>1 DEF InvServer, InvType, history
  <2>3. InvUsers' /\ InvPlaces' BY <2>1 DEF InvServer, InvType, InvUsers, InvPlaces, history
  <2>4. ServedOnlyRegistered' /\ TakenNameRefused'
    BY <2>1 DEF InvServer, InvType, ServedOnlyRegistered, TakenNameRefused, history
  <2> QED BY <2>2, <2>3, <2>4 DEF InvServer
<1>3. CASE CheckName(c)
  <2>1. CASE Name[c] = Empty
    BY <1>3, <2>1, Refusal DEF CheckName, Replies, InvServer, InvType
  <2>2. CASE Name[c] # Empty /\ users[Name[c]] # None
    BY <1>3, <2>2, Refusal DEF CheckName, Replies, InvServer, InvType
  <2>3. CASE Name[c] # Empty /\ users[Name[c]] = None
    <3>1. /\ handler' = [handler EXCEPT ![c] = "insert"] /\ path[c] = None /\ ~ taken[c]
          /\ UNCHANGED <<users, path, hash, count, toSend, status, taken, accepted>>
      BY <1>3, <2>3, NameAssumption DEF CheckName, InvServer, InvUsers, InvType
    <3>2. InvType' BY <3>1 DEF InvServer, InvType
    <3>3. InvUsers' /\ InvPlaces' BY <3>1 DEF InvServer, InvType, InvUsers, InvPlaces
    <3>4. ServedOnlyRegistered' /\ TakenNameRefused'
      BY <3>1 DEF InvServer, InvType, ServedOnlyRegistered, TakenNameRefused
    <3> QED BY <3>2, <3>3, <3>4 DEF InvServer
  <2> QED BY <2>1, <2>2, <2>3
<1>4. CASE Insert(c)
  <2>6. InvType /\ StartReply(c, "ok", 1) /\ "ok" \in Replies /\ 1 \in Int
    BY <1>4 DEF Insert, InvServer, Replies
  <2>7. /\ status' \in [Conns -> Replies] /\ count' \in [Conns -> Int]
        /\ toSend' \in [Conns -> SUBSET Int]
        /\ handler' \in [Conns -> {"none", "asked", "insert", "login", "send", "closed"}]
    BY <2>6, ReplyTyped
  <2>8. /\ users' = [users EXCEPT ![Name[c]] = c] /\ accepted' = accepted \cup {c}
        /\ UNCHANGED <<path, hash, taken>>
    BY <1>4 DEF Insert
  <2> USE <1>4, NameAssumption DEF Insert, StartReply, InvServer
  <2>1. InvType' BY <2>7, <2>8 DEF InvType
  <2>2. InvUsers' BY DEF InvType, InvUsers
  <2>3. InvPlaces' BY DEF InvType, InvPlaces
  <2>4. ServedOnlyRegistered' BY DEF InvType, ServedOnlyRegistered
  <2>5. TakenNameRefused' BY DEF InvType, InvPlaces, TakenNameRefused
  <2> QED BY <2>1, <2>2, <2>3, <2>4, <2>5
<1>5. CASE ReadHash(c)
  <2>1. hash' \in [Conns -> Conns \cup {None}] BY <1>5, NameAssumption DEF ReadHash, InvServer, InvType
  <2>4. \A d \in Conns : d # c => hash'[d] = hash[d] BY <1>5 DEF ReadHash, InvServer, InvType
  <2>2. CASE users[Name[c]] = None
    BY <1>5, <2>1, <2>2, <2>4, Refusal DEF ReadHash, Replies
  <2>3. CASE users[Name[c]] # None
    <3>1. /\ handler' = [handler EXCEPT ![c] = "login"] /\ path[c] # None
          /\ hash' = [hash EXCEPT ![c] = users[Name[c]]]
          /\ UNCHANGED <<users, path, count, toSend, status, taken, accepted>>
      BY <1>5, <2>3 DEF ReadHash
    <3>2. InvType' BY <2>1, <3>1 DEF InvServer, InvType
    <3>3. InvUsers' /\ InvPlaces' BY <2>3, <3>1 DEF InvServer, InvType, InvUsers, InvPlaces
    <3>4. ServedOnlyRegistered' /\ TakenNameRefused'
      BY <3>1 DEF InvServer, InvType, ServedOnlyRegistered, TakenNameRefused
    <3> QED BY <3>2, <3>3, <3>4 DEF InvServer
  <2> QED BY <2>2, <2>3
<1>6. CASE Login(c)
  <2>1. CASE ~ Matches(c)
    BY <1>6, <2>1, Refusal DEF Login, Replies, InvServer, InvType
  <2>2. CASE Blocks[path[c]] = -1 /\ Matches(c)
    BY <1>6, <2>2, Refusal DEF Login, Replies, InvServer, InvType
  <2>3. CASE Blocks[path[c]] # -1 /\ Matches(c)
    <3>1. PICK d \in accepted : Name[d] = Name[c] /\ Signature[d] = Signature[c]
      <4>1. users[Name[c]] = hash[c] /\ Signature[hash[c]] = Signature[c] BY <2>3 DEF Matches
      <4>2. hash[c] # None BY <1>6 DEF Login, InvServer, InvPlaces
      <4>3. Name[c] \in Names BY NameAssumption
      <4> QED BY <4>1, <4>2, <4>3 DEF InvServer, InvUsers
    <3>2. path[c] # None /\ Blocks[path[c]] \in Int
      BY <1>6, FilesAssumption DEF Login, InvServer, InvPlaces, InvType
    <3>3. /\ StartReply(c, "ok", Blocks[path[c]]) /\ UNCHANGED <<users, path, hash, taken, accepted>>
      BY <1>6, <2>3 DEF Login
    <3>4. InvType' BY <3>2, <3>3 DEF InvServer, InvType, StartReply, Replies
    <3>5. InvUsers' /\ InvPlaces' BY <3>3 DEF InvServer, InvType, InvUsers, InvPlaces, StartReply
    <3>6. ServedOnlyRegistered' /\ TakenNameRefused'
      BY <3>1, <3>2, <3>3 DEF InvServer, InvType, ServedOnlyRegistered, TakenNameRefused, StartReply
    <3> QED BY <3>4, <3>5, <3>6 DEF InvServer
  <2> QED BY <2>1, <2>2, <2>3
<1>7. CASE SendBlock(c)
  BY <1>7, ServerQuiet DEF SendBlock, InvServer, InvType, history
<1>8. CASE Close(c)
  BY <1>8, ServerQuiet DEF Close, InvServer, InvType, history
<1> QED BY <1>1, <1>2, <1>3, <1>4, <1>5, <1>6, <1>7, <1>8 DEF Handler

\* A client leaves its connection or takes a block.
LEMMA LeaveServer ==
  ASSUME InvServer, NEW c \in Conns, NEW s, Leave(c, s) PROVE InvServer'
<1>1. toSend' \in [Conns -> SUBSET Int] BY DEF Leave, InvServer, InvType
<1>2. /\ handler' \in [Conns -> {"none", "asked", "insert", "login", "send", "closed"}]
      /\ \A d \in Conns : handler'[d] \in {handler[d], "none"}
  BY DEF Leave, InvServer, InvType
<1>3. UNCHANGED <<users, path, hash, count, status, taken, accepted>> BY DEF Leave, history
<1> QED BY <1>1, <1>2, <1>3, ServerQuiet

LEMMA SameServer == ASSUME InvServer, UNCHANGED <<serverVars, history>> PROVE InvServer'
<1>1. UNCHANGED <<users, handler, path, hash, count, toSend, status, taken, accepted>>
  BY DEF serverVars, history
<1> QED BY <1>1 DEF InvServer, InvType, InvUsers, InvPlaces, ServedOnlyRegistered, TakenNameRefused

LEMMA ReaderStep ==
  ASSUME InvServer, NEW c \in Readers,
         Client(c) \/ ShortRead(c) \/ CReceive(c) \/ CShortRead(c)
  PROVE  InvServer'
<1>0. c \in Conns BY DEF Conns
<1>1. CASE \E s : Leave(c, s) BY <1>0, <1>1, LeaveServer
<1>2. CASE UNCHANGED <<serverVars, history>> BY <1>2, SameServer
<1>3. CASE Receive(c) BY <1>1, <1>2, <1>3 DEF Receive, Take
<1>4. CASE ShortRead(c) BY <1>1, <1>4 DEF ShortRead
<1>5. CASE EndOfReply(c) BY <1>1, <1>5 DEF EndOfReply
<1>6. CASE Write(c) BY <1>2, <1>6 DEF Write
<1>7. CASE CReceive(c) BY <1>1, <1>2, <1>7 DEF CReceive, Take
<1>8. CASE CShortRead(c) BY <1>1, <1>8 DEF CShortRead
<1> QED BY <1>3, <1>4, <1>5, <1>6, <1>7, <1>8 DEF Client

LEMMA ServerStep == InvServer /\ [Next]_vars => InvServer'
<1> SUFFICES ASSUME InvServer, [Next]_vars PROVE InvServer' OBVIOUS
<1>1. CASE \E c \in Conns : Handler(c) \/ CutHeader(c) \/ CutPath(c) BY <1>1, HandlerStep
<1>2. CASE \E c \in Clients : Ask(c)
  <2>1. PICK c \in Clients, f \in Files \cup {None} : Send(c, f) BY <1>2 DEF Ask
  <2>2. c \in Conns /\ Accept(c, f) BY <2>1 DEF Send, Conns, Readers
  <2> QED BY <2>2, Accepted
<1>3. CASE \E p \in Programs : Register(p)
  <2>1. PICK p \in Programs : Accept(Late[p], None) BY <1>3 DEF Register
  <2>2. Late[p] \in Conns BY DEF Conns
  <2> QED BY <2>1, <2>2, Accepted
<1>4. CASE \E p \in Programs : GetFile(p)
  <2>1. PICK p \in Programs : GetFile(p) BY <1>4
  <2>2. p \in Conns /\ Accept(p, CFiles[requests[p]]) BY <2>1 DEF GetFile, Send, Conns, Readers
  <2>3. CFiles[requests[p]] \in Files BY <2>1, CFilesAssumption DEF GetFile
  <2> QED BY <2>2, <2>3, Accepted
<1>5. CASE \E c \in Clients : Client(c) \/ ShortRead(c) BY <1>5, ReaderStep DEF Readers
<1>6. CASE \E p \in Programs : CReceive(p) \/ CShortRead(p) BY <1>6, ReaderStep DEF Readers
<1>7. CASE UNCHANGED vars BY <1>7, SameServer DEF vars
<1> QED BY <1>1, <1>2, <1>3, <1>4, <1>5, <1>6, <1>7 DEF Next

\* server.py:108-109: a file is sent only to a user with a name and signature for which a
\* registration was accepted, whatever happens to the entry between the two reads of the table,
\* and whichever users have the same signature.
THEOREM OnlyRegisteredServed == Spec => []ServedOnlyRegistered
<1>1. InvServer => ServedOnlyRegistered BY DEF InvServer
<1> QED BY <1>1, ServerInit, ServerStep, PTL DEF Spec

\* server.py:171: a name that was in the table when the request came is not given away.
THEOREM TakenRefused == Spec => []TakenNameRefused
<1>1. InvServer => TakenNameRefused BY DEF InvServer
<1> QED BY <1>1, ServerInit, ServerStep, PTL DEF Spec
-----------------------------------------------------------------------------
(* The copies that the clients write.  They rest on the invariant of the   *)
(* handler threads above.                                                  *)

Messages == [block : (Files \cup {None}) \X Int, count : Int, status : Replies \cup {"malformed"}]

InvClients == /\ chan \in [Readers -> Seq(Messages)] /\ asked \in [Readers -> Files \cup {None}]
              /\ DOMAIN received = Readers /\ DOMAIN client = Readers
              /\ DOMAIN disk = Readers /\ \A r \in Readers : DOMAIN disk[r] = Files

\* What a handler has left to send is of the reply it has started.
Sending(c) == handler[c] = "send" =>
                IF status[c] = "ok" /\ path[c] # None
                  THEN count[c] = Blocks[path[c]] /\ toSend[c] \subseteq 0 .. Blocks[path[c]] - 1
                  ELSE count[c] = 1

\* The block m is of the reply of r's handler to what r asked for.
Fits(r, m) == /\ m.status = status[r]
              /\ IF status[r] = "ok" /\ asked[r] # None
                   THEN m.block \in Whole(asked[r]) /\ m.count = Blocks[asked[r]]
                   ELSE m.block = Text /\ m.count = 1

\* The handler answers the request that r has sent.
Straight(r) == /\ path[r] = asked[r]
               /\ \A i \in 1 .. Len(chan[r]) : Fits(r, chan[r][i])
               /\ received[r] \subseteq IF asked[r] = None THEN {} ELSE Whole(asked[r])
               /\ chan[r] # <<>> \/ received[r] # {} => handler[r] \in {"send", "closed"}
               /\ received[r] # {} => status[r] = "ok"

\* The handler has said that the request is malformed, and answers another.
Refused(r) == /\ received[r] = {} /\ chan[r] # <<>>
              /\ Head(chan[r]) = [block |-> Text, count |-> 1, status |-> "malformed"]

InvReader(r) == /\ handler[r] = "none" => chan[r] = <<>>
                /\ client[r] = "wait" => Straight(r) \/ Refused(r)
                /\ client[r] = "write" => asked[r] \in Files /\ received[r] = Whole(asked[r])

InvCopies == /\ InvServer /\ InvClients
             /\ \A c \in Conns : Sending(c)
             /\ \A r \in Readers : InvReader(r)
             /\ \A p \in Programs : client[p] # "write" /\ (client[p] = "wait" => asked[p] \in Files)
             /\ WrittenIsWhole /\ CopyIsWholeOrReply

-----------------------------------------------------------------------------
LEMMA WholeCounted ==
  ASSUME NEW f \in Files, Blocks[f] >= 0
  PROVE  IsFiniteSet(Whole(f)) /\ Cardinality(Whole(f)) = Blocks[f]
<1> DEFINE B == Blocks[f]
           m == [b \in 0 .. B - 1 |-> <<f, b>>]
<1>1. B \in Nat BY FilesAssumption
<1>2. m \in Bijection(0 .. B - 1, Whole(f))
  BY DEF Whole, Bijection, Injection, Surjection, IsInjective
<1>3. ExistsBijection(0 .. B - 1, Whole(f)) BY <1>2 DEF ExistsBijection
<1>4. IsFiniteSet(0 .. B - 1) /\ Cardinality(0 .. B - 1) = B
  <2> HIDE DEF B, m
  <2>1. 0 \in Int /\ B - 1 \in Int BY <1>1
  <2>2. IsFiniteSet(0 .. B - 1) /\ Cardinality(0 .. B - 1) = IF 0 > B - 1 THEN 0 ELSE B - 1 - 0 + 1
    BY <2>1, FS_Interval
  <2> QED BY <1>1, <2>2
<1> QED BY <1>3, <1>4, FS_Bijection

\* As many blocks of a file as it has are all of its blocks.
LEMMA AllReceived ==
  ASSUME NEW f \in Files, NEW S, S \subseteq Whole(f), S # {}, Cardinality(S) = Blocks[f]
  PROVE  S = Whole(f)
<1>1. Blocks[f] >= 0
  <2>1. PICK b \in 0 .. Blocks[f] - 1 : TRUE BY DEF Whole
  <2> QED BY <2>1, FilesAssumption
<1> QED BY <1>1, WholeCounted, FS_Subset

\* A step that leaves what concerns reader r alone.
LEMMA SameReader ==
  ASSUME NEW r \in Readers, InvReader(r), path'[r] = path[r], status'[r] = status[r],
         handler'[r] = handler[r], chan'[r] = chan[r], client'[r] = client[r],
         asked'[r] = asked[r], received'[r] = received[r]
  PROVE  InvReader(r)'
<1>1. \A m : Fits(r, m) => Fits(r, m)' BY DEF Fits, Whole
<1>2. Straight(r) => Straight(r)' BY <1>1 DEF Straight, Whole
<1>3. Refused(r) => Refused(r)' BY DEF Refused
<1> QED BY <1>2, <1>3 DEF InvReader, Whole

LEMMA ReaderIsConn == ASSUME NEW r \in Readers PROVE r \in Conns /\ \A p \in Programs : Late[p] # r
BY ConnsAssumption DEF Conns

LEMMA CopiesInit == Init => InvCopies
<1> SUFFICES ASSUME Init PROVE InvCopies OBVIOUS
<1>1. InvClients BY DEF Init, InvClients
<1>2. \A c \in Conns : Sending(c) BY DEF Init, Sending
<1>3. \A r \in Readers : InvReader(r) BY DEF Init, InvReader
<1>4. \A p \in Programs : client[p] = "prompt" BY DEF Init, Readers
<1>5. WrittenIsWhole /\ CopyIsWholeOrReply BY DEF Init, WrittenIsWhole, CopyIsWholeOrReply, Readers
<1> QED BY <1>1, <1>2, <1>3, <1>4, <1>5, ServerInit DEF InvCopies

-----------------------------------------------------------------------------
(* The steps of a handler.                                                 *)

\* A step of c's handler disturbs at most what concerns c.
LEMMA HandlerFrame ==
  ASSUME InvCopies, NEW c \in Conns, UNCHANGED clientVars, InvServer',
         chan' \in [Readers -> Seq(Messages)],
         \A d \in Conns \ {c} : /\ path'[d] = path[d] /\ status'[d] = status[d] /\ handler'[d] = handler[d]
                                /\ count'[d] = count[d] /\ toSend'[d] = toSend[d],
         \A r \in Readers \ {c} : chan'[r] = chan[r],
         Sending(c)', c \in Readers => InvReader(c)'
  PROVE  InvCopies'
<1>1. UNCHANGED <<client, asked, received, disk>> BY DEF clientVars
<1>2. InvClients' BY <1>1 DEF InvCopies, InvClients
<1>3. ASSUME NEW d \in Conns PROVE Sending(d)'
  <2>1. CASE d = c BY <2>1
  <2>2. CASE d # c BY <2>2 DEF InvCopies, Sending
  <2> QED BY <2>1, <2>2
<1>4. ASSUME NEW r \in Readers PROVE InvReader(r)'
  <2>1. CASE r = c BY <2>1
  <2>2. CASE r # c BY <2>2, <1>1, ReaderIsConn, SameReader DEF InvCopies
  <2> QED BY <2>1, <2>2
<1>5. \A p \in Programs : (client[p] # "write" /\ (client[p] = "wait" => asked[p] \in Files))'
  BY <1>1 DEF InvCopies
<1>6. WrittenIsWhole' /\ CopyIsWholeOrReply'
  BY <1>1 DEF InvCopies, WrittenIsWhole, CopyIsWholeOrReply, Whole
<1> QED BY <1>2, <1>3, <1>4, <1>5, <1>6 DEF InvCopies

\* The handler has not sent anything yet.
LEMMA BeforeReply ==
  ASSUME NEW r \in Readers, InvReader(r), handler[r] \in {"asked", "insert", "login"},
         handler'[r] \in {"insert", "login", "send"}, path'[r] = path[r],
         chan'[r] = chan[r], client'[r] = client[r], asked'[r] = asked[r], received'[r] = received[r]
  PROVE  InvReader(r)'
<1>1. Straight(r) => chan[r] = <<>> /\ received[r] = {} BY DEF Straight
<1>2. Straight(r) => Straight(r)' BY <1>1 DEF Straight
<1>3. Refused(r) => Refused(r)' BY DEF Refused
<1> QED BY <1>2, <1>3 DEF InvReader, Whole

LEMMA ReplyStarts ==
  ASSUME InvCopies, InvServer', NEW c \in Conns, NEW s \in Replies, NEW n \in Int, StartReply(c, s, n),
         handler[c] \in {"asked", "insert", "login"}, UNCHANGED <<path, chan, clientVars>>,
         IF s = "ok" /\ path[c] # None THEN n = Blocks[path[c]] ELSE n = 1
  PROVE  InvCopies'
<1>1. /\ handler' = [handler EXCEPT ![c] = "send"] /\ status' = [status EXCEPT ![c] = s]
      /\ count' = [count EXCEPT ![c] = n] /\ toSend' = [toSend EXCEPT ![c] = 0 .. n - 1]
      /\ UNCHANGED <<path, chan, client, asked, received>>
  BY DEF StartReply, clientVars
<1>2. InvType BY DEF InvCopies, InvServer
<1>3. Sending(c)' BY <1>1, <1>2 DEF Sending, InvType
<1>4. handler'[c] = "send" BY <1>1, <1>2 DEF InvType
<1>5. c \in Readers => InvReader(c)' BY <1>1, <1>4, BeforeReply DEF InvCopies
<1>6. chan' \in [Readers -> Seq(Messages)] BY <1>1 DEF InvCopies, InvClients
<1> QED BY <1>1, <1>2, <1>3, <1>5, <1>6, HandlerFrame DEF InvType

LEMMA HandlerGoesOn ==
  ASSUME InvCopies, InvServer', NEW c \in Conns, NEW s \in {"insert", "login"}, Goto(c, s),
         handler[c] = "asked", UNCHANGED <<path, chan, clientVars>>
  PROVE  InvCopies'
<1>1. /\ handler' = [handler EXCEPT ![c] = s] /\ UNCHANGED <<count, toSend, status>>
      /\ UNCHANGED <<path, chan, client, asked, received>>
  BY DEF Goto, clientVars
<1>2. InvType BY DEF InvCopies, InvServer
<1>3. handler'[c] = s BY <1>1, <1>2 DEF InvType
<1>4. Sending(c)' BY <1>3 DEF Sending
<1>5. c \in Readers => InvReader(c)' BY <1>1, <1>3, BeforeReply DEF InvCopies
<1>6. chan' \in [Readers -> Seq(Messages)] BY <1>1 DEF InvCopies, InvClients
<1> QED BY <1>1, <1>2, <1>4, <1>5, <1>6, HandlerFrame DEF InvType

LEMMA RequestCut == ASSUME InvCopies, InvServer', NEW c \in Conns, CutPath(c) PROVE InvCopies'
<1>1. PICK f \in Files \ {path[c]} : CutPath(c)!(f) BY DEF CutPath
<1> DEFINE m == [block |-> Text, count |-> 1, status |-> "malformed"]
<1>2. /\ path' = [path EXCEPT ![c] = f] /\ chan' = [chan EXCEPT ![c] = <<m>>] /\ handler[c] = "asked"
      /\ path[c] = asked[c] /\ path[c] # None
      /\ UNCHANGED <<handler, count, toSend, status, client, asked, received, clientVars>>
  BY <1>1 DEF clientVars
<1>3. InvType /\ InvClients BY DEF InvCopies, InvServer
<1>4. m \in Messages BY DEF Messages, Text
<1>5. chan' \in [Readers -> Seq(Messages)]
  <2>1. <<m>> \in Seq(Messages) BY <1>4
  <2> QED BY <2>1, <1>2, <1>3 DEF InvClients
<1>6. Sending(c)' BY <1>2 DEF Sending
<1>7. ASSUME c \in Readers PROVE InvReader(c)'
  <2>1. chan'[c] = <<m>> /\ Head(<<m>>) = m /\ <<m>> # <<>> BY <1>2, <1>3, <1>7 DEF InvClients
  <2>2. InvReader(c) BY <1>7 DEF InvCopies
  <2>3. client[c] = "wait" => received[c] = {}
    <3>1. Straight(c) => received[c] = {} BY <1>2 DEF Straight
    <3>2. Refused(c) => received[c] = {} BY DEF Refused
    <3> QED BY <3>1, <3>2, <2>2 DEF InvReader
  <2>4. client'[c] = "wait" => Refused(c)' BY <1>2, <2>1, <2>3 DEF Refused, Text
  <2>5. handler'[c] # "none" BY <1>2
  <2> QED BY <1>2, <2>2, <2>4, <2>5 DEF InvReader, Whole
<1> QED BY <1>2, <1>3, <1>5, <1>6, <1>7, HandlerFrame DEF InvType

LEMMA BlockSent == ASSUME InvCopies, InvServer', NEW c \in Conns, SendBlock(c) PROVE InvCopies'
<1>1. PICK b \in toSend[c] : SendBlock(c)!(b) BY DEF SendBlock
<1> DEFINE block == IF status[c] = "ok" /\ path[c] # None THEN <<path[c], b>> ELSE Text
           m == [block |-> block, count |-> count[c], status |-> status[c]]
<1>2. /\ toSend' = [toSend EXCEPT ![c] = @ \ {b}] /\ handler[c] = "send"
      /\ UNCHANGED <<users, handler, path, hash, count, status, client, asked, received, clientVars>>
  BY <1>1 DEF clientVars
<1>3. chan' = IF c \in Readers THEN [chan EXCEPT ![c] = Append(@, m)] ELSE chan BY <1>1
<1>4. InvType /\ InvClients BY DEF InvCopies, InvServer
<1>5. b \in Int /\ m \in Messages
  <2>1. b \in Int BY <1>4 DEF InvType
  <2>2. path[c] \in Files \cup {None} /\ count[c] \in Int /\ status[c] \in Replies BY <1>4 DEF InvType
  <2>3. block \in (Files \cup {None}) \X Int BY <2>1, <2>2 DEF Text
  <2> QED BY <2>1, <2>2, <2>3 DEF Messages
<1> HIDE DEF m
<1>6. chan' \in [Readers -> Seq(Messages)] BY <1>3, <1>4, <1>5 DEF InvClients
<1>7. Sending(c)' BY <1>2, <1>4 DEF Sending, InvType, InvCopies
<1>8. ASSUME c \in Readers PROVE InvReader(c)'
  <2>1. chan'[c] = Append(chan[c], m) /\ chan[c] \in Seq(Messages) BY <1>3, <1>4, <1>8 DEF InvClients
  <2>2. InvReader(c) BY <1>8 DEF InvCopies
  <2>3. Straight(c) => Straight(c)'
    <3> SUFFICES ASSUME Straight(c) PROVE Straight(c)' OBVIOUS
    <3>1. Fits(c, m)
      <4>1. CASE status[c] = "ok" /\ asked[c] # None
        <5>1. path[c] = asked[c] /\ path[c] # None BY <4>1 DEF Straight
        <5>2. count[c] = Blocks[path[c]] /\ b \in 0 .. Blocks[path[c]] - 1
          BY <1>1, <1>2, <4>1, <5>1 DEF InvCopies, Sending
        <5>3. m = [block |-> <<path[c], b>>, count |-> count[c], status |-> status[c]]
          BY <4>1, <5>1 DEF m
        <5> QED BY <4>1, <5>1, <5>2, <5>3 DEF Fits, Whole
      <4>2. CASE ~ (status[c] = "ok" /\ asked[c] # None)
        <5>1. ~ (status[c] = "ok" /\ path[c] # None) BY <4>2 DEF Straight
        <5>2. m = [block |-> Text, count |-> count[c], status |-> status[c]] BY <5>1 DEF m
        <5>3. count[c] = 1 BY <1>2, <5>1 DEF InvCopies, Sending
        <5> QED BY <4>2, <5>2, <5>3 DEF Fits
      <4> QED BY <4>1, <4>2
    <3>2. \A i \in 1 .. Len(chan'[c]) : Fits(c, chan'[c][i]) BY <2>1, <3>1, <1>5 DEF Straight
    <3>3. \A x : Fits(c, x) => Fits(c, x)' BY <1>2 DEF Fits, Whole
    <3>4. \A i \in 1 .. Len(chan'[c]) : Fits(c, chan[c][i])' BY <1>2, <3>2 DEF Fits, Whole
    <3> QED BY <1>2, <3>4 DEF Straight, Whole
  <2>4. Refused(c) => Refused(c)'
    <3>1. chan[c] # <<>> => chan'[c] # <<>> /\ Head(chan'[c]) = Head(chan[c]) BY ONLY <1>5, <2>1
    <3> QED BY <1>2, <3>1 DEF Refused, Text
  <2>5. handler'[c] # "none" BY <1>2
  <2> QED BY <1>2, <2>2, <2>3, <2>4, <2>5 DEF InvReader, Whole
<1>9. \A r \in Readers \ {c} : chan'[r] = chan[r] BY <1>3, <1>4 DEF InvClients
<1> QED BY <1>2, <1>4, <1>6, <1>7, <1>8, <1>9, HandlerFrame DEF InvType

LEMMA HandlerEnds == ASSUME InvCopies, InvServer', NEW c \in Conns, Close(c) PROVE InvCopies'
<1>1. /\ handler' = [handler EXCEPT ![c] = "closed"] /\ handler[c] = "send"
      /\ UNCHANGED <<path, count, toSend, status, chan, client, asked, received, clientVars>>
  BY DEF Close, clientVars
<1>2. InvType /\ InvClients BY DEF InvCopies, InvServer
<1>3. handler'[c] = "closed" BY <1>1, <1>2 DEF InvType
<1>4. Sending(c)' BY <1>3 DEF Sending
<1>5. ASSUME c \in Readers PROVE InvReader(c)'
  <2>1. \A m : Fits(c, m) => Fits(c, m)' BY <1>1 DEF Fits, Whole
  <2>2. Straight(c) => Straight(c)' BY <1>1, <1>3, <2>1 DEF Straight, Whole
  <2>3. Refused(c) => Refused(c)' BY <1>1 DEF Refused
  <2> QED BY <1>1, <1>3, <1>5, <2>2, <2>3 DEF InvCopies, InvReader, Whole
<1> QED BY <1>1, <1>2, <1>4, <1>5, HandlerFrame DEF InvType, InvClients

LEMMA HandlerCopies ==
  ASSUME InvCopies, NEW c \in Conns, Handler(c) \/ CutHeader(c) \/ CutPath(c)
  PROVE  InvCopies'
<1>1. InvServer' BY HandlerStep DEF InvCopies
<1>2. InvServer /\ InvType BY DEF InvCopies, InvServer
<1> USE DEF At
<1>3. CASE CheckName(c)
  BY <1>1, <1>3, ReplyStarts, HandlerGoesOn DEF CheckName, Replies
<1>4. CASE Insert(c)
  <2>1. path[c] = None BY <1>2, <1>4 DEF Insert, InvServer, InvPlaces
  <2> QED BY <1>1, <1>4, <2>1, ReplyStarts DEF Insert, Replies
<1>5. CASE ReadHash(c) BY <1>1, <1>5, ReplyStarts, HandlerGoesOn DEF ReadHash, Replies
<1>6. CASE Login(c)
  <2>1. Blocks[path[c]] \in Int
    BY <1>2, <1>6, FilesAssumption DEF Login, InvServer, InvPlaces, InvType
  <2>2. PICK s \in Replies, n \in Int :
          StartReply(c, s, n) /\ (IF s = "ok" /\ path[c] # None THEN n = Blocks[path[c]] ELSE n = 1)
    <3>1. path[c] # None BY <1>2, <1>6 DEF Login, InvServer, InvPlaces
    <3> QED BY <1>6, <2>1, <3>1 DEF Login, Replies
  <2> QED BY <1>1, <1>6, <2>2, ReplyStarts DEF Login
<1>7. CASE SendBlock(c) BY <1>1, <1>7, BlockSent
<1>8. CASE Close(c) BY <1>1, <1>8, HandlerEnds
<1>9. CASE CutHeader(c) BY <1>1, <1>9, ReplyStarts DEF CutHeader, Replies
<1>10. CASE CutPath(c) BY <1>1, <1>10, RequestCut
<1> QED BY <1>3, <1>4, <1>5, <1>6, <1>7, <1>8, <1>9, <1>10 DEF Handler

-----------------------------------------------------------------------------
(* The steps of a client.                                                  *)

CopyOf(p, f) == \/ disk[p][f] \in {None, Whole(f), {Text}, {Junk}}
                \/ disk[p][f] = {} /\ (client[p] = "dead" \/ (client[p] = "wait" /\ asked[p] = f))

\* A step of r disturbs at most what concerns r.
LEMMA ClientFrame ==
  ASSUME InvCopies, NEW r \in Readers, InvServer', InvClients',
         \A d \in Conns \ {r} : /\ path'[d] = path[d] /\ status'[d] = status[d] /\ handler'[d] = handler[d]
                                /\ count'[d] = count[d] /\ toSend'[d] = toSend[d],
         \A q \in Readers \ {r} : /\ chan'[q] = chan[q] /\ client'[q] = client[q] /\ asked'[q] = asked[q]
                                  /\ received'[q] = received[q] /\ disk'[q] = disk[q],
         Sending(r)', InvReader(r)',
         r \in Clients => \A f \in Files : disk'[r][f] \in {None, Whole(f)},
         r \in Programs => /\ client'[r] # "write" /\ (client'[r] = "wait" => asked'[r] \in Files)
                           /\ \A f \in Files : CopyOf(r, f)'
  PROVE  InvCopies'
<1>1. ASSUME NEW d \in Conns PROVE Sending(d)'
  <2>1. CASE d = r BY <2>1
  <2>2. CASE d # r BY <2>2 DEF InvCopies, Sending
  <2> QED BY <2>1, <2>2
<1>2. ASSUME NEW q \in Readers PROVE InvReader(q)'
  <2>1. CASE q = r BY <2>1
  <2>2. CASE q # r
    <3>1. q \in Conns BY ReaderIsConn
    <3>2. /\ InvReader(q) /\ path'[q] = path[q] /\ status'[q] = status[q] /\ handler'[q] = handler[q]
          /\ chan'[q] = chan[q] /\ client'[q] = client[q] /\ asked'[q] = asked[q]
          /\ received'[q] = received[q]
      BY <2>2, <3>1 DEF InvCopies
    <3> QED BY <3>2, SameReader
  <2> QED BY <2>1, <2>2
<1>3. ASSUME NEW p \in Programs
      PROVE  /\ client'[p] # "write" /\ (client'[p] = "wait" => asked'[p] \in Files)
             /\ \A f \in Files : CopyOf(p, f)'
  <2>1. CASE p = r BY <2>1
  <2>2. CASE p # r
    <3>1. p \in Readers \ {r} BY <2>2 DEF Readers
    <3>2. client'[p] = client[p] /\ asked'[p] = asked[p] /\ disk'[p] = disk[p] BY <3>1
    <3>3. \A f \in Files : CopyOf(p, f) BY DEF InvCopies, CopyIsWholeOrReply, CopyOf
    <3>4. \A f \in Files : CopyOf(p, f)' BY <3>2, <3>3 DEF CopyOf, Whole
    <3> QED BY <3>2, <3>4 DEF InvCopies
  <2> QED BY <2>1, <2>2
<1>4. CopyIsWholeOrReply' BY <1>3 DEF CopyIsWholeOrReply, CopyOf
<1>5. WrittenIsWhole'
  <2> SUFFICES ASSUME NEW c \in Clients, NEW f \in Files PROVE disk'[c][f] \in {None, Whole(f)}
    BY DEF WrittenIsWhole, Whole
  <2>1. CASE c = r BY <2>1
  <2>2. CASE c # r BY <2>2 DEF Readers, InvCopies, WrittenIsWhole
  <2> QED BY <2>1, <2>2
<1> QED BY <1>1, <1>2, <1>3, <1>4, <1>5 DEF InvCopies

\* What the next block makes of the blocks received: it is one more of the file, or the only one.
LEMMA NextBlock ==
  ASSUME InvCopies, NEW r \in Readers, client[r] = "wait", chan[r] # <<>>,
         NEW m, m = Head(chan[r]), NEW all, all = received[r] \cup {m.block}
  PROVE  \/ /\ asked[r] \in Files /\ m.status = "ok" /\ Straight(r) /\ all \subseteq Whole(asked[r])
            /\ Cardinality(all) = m.count => all = Whole(asked[r])
         \/ all = {Text} /\ Cardinality(all) = m.count /\ (m.status # "ok" \/ asked[r] = None)
<1>1. chan[r] \in Seq(Messages) /\ asked[r] \in Files \cup {None} BY DEF InvCopies, InvClients
<1>2. Straight(r) \/ Refused(r) BY DEF InvCopies, InvReader
<1>3. Cardinality({Text}) = 1 BY FS_Singleton
<1>4. CASE Refused(r)
  <2>1. received[r] = {} /\ m.block = Text /\ m.count = 1 /\ m.status = "malformed" BY <1>4 DEF Refused
  <2> QED BY <1>3, <2>1
<1>5. CASE Straight(r)
  <2>1. m = chan[r][1] /\ 1 \in 1 .. Len(chan[r]) BY <1>1
  <2>2. Fits(r, m) BY <1>5, <2>1 DEF Straight
  <2>3. CASE m.status = "ok" /\ asked[r] # None
    <3>1. asked[r] \in Files /\ all \subseteq Whole(asked[r]) /\ all # {} /\ m.count = Blocks[asked[r]]
      BY <1>1, <1>5, <2>2, <2>3 DEF Fits, Straight
    <3>2. Cardinality(all) = m.count => all = Whole(asked[r]) BY <3>1, AllReceived
    <3> QED BY <1>5, <2>3, <3>1, <3>2
  <2>4. CASE ~ (m.status = "ok" /\ asked[r] # None)
    <3>1. received[r] = {} BY <1>5, <2>2, <2>4 DEF Straight, Fits
    <3>2. m.block = Text /\ m.count = 1 BY <2>2, <2>4 DEF Fits
    <3> QED BY <1>3, <2>4, <3>1, <3>2
  <2> QED BY <2>3, <2>4
<1> QED BY <1>2, <1>4, <1>5

\* The client stays for more blocks of its file.
LEMMA TakeCopies ==
  ASSUME InvCopies, InvServer', NEW r \in Readers, client[r] = "wait", chan[r] # <<>>, Take(r),
         NEW all, received' = [received EXCEPT ![r] = all],
         asked[r] \in Files, Straight(r), all \subseteq Whole(asked[r]), Head(chan[r]).status = "ok"
  PROVE  InvCopies'
<1>1. /\ chan' = [chan EXCEPT ![r] = Tail(@)]
      /\ UNCHANGED <<path, status, handler, count, toSend, client, asked, disk>>
  BY DEF Take, serverVars
<1>2. InvClients /\ chan[r] \in Seq(Messages) BY DEF InvCopies, InvClients
<1>3. Tail(chan[r]) \in Seq(Messages) /\ \A i \in 1 .. Len(Tail(chan[r])) :
        i + 1 \in 1 .. Len(chan[r]) /\ Tail(chan[r])[i] = chan[r][i + 1]
  BY <1>2
<1>4. InvClients' BY <1>1, <1>2, <1>3 DEF InvClients
<1>5. chan'[r] = Tail(chan[r]) /\ received'[r] = all BY <1>1, <1>2 DEF InvClients
<1>6. r \in Conns BY ReaderIsConn
<1>7. InvReader(r)'
  <2>1. \A i \in 1 .. Len(chan'[r]) : Fits(r, chan'[r][i]) BY <1>3, <1>5 DEF Straight
  <2>2. \A i \in 1 .. Len(chan'[r]) : Fits(r, chan[r][i])' BY <1>1, <2>1 DEF Fits, Whole
  <2>3. status[r] = "ok"
    <3>1. Head(chan[r]) = chan[r][1] /\ 1 \in 1 .. Len(chan[r]) BY <1>2
    <3>2. Fits(r, chan[r][1]) BY <3>1 DEF Straight
    <3> QED BY <3>1, <3>2 DEF Fits
  <2>4. handler[r] \in {"send", "closed"} BY DEF Straight
  <2>5. path[r] = asked[r] /\ asked[r] # None BY FilesAssumption DEF Straight
  <2>6. Straight(r)' BY <1>1, <1>5, <2>2, <2>3, <2>4, <2>5 DEF Straight, Whole
  <2> QED BY <1>1, <2>4, <2>6 DEF InvReader
<1>8. Sending(r)' BY <1>1, <1>6 DEF InvCopies, Sending
<1>9. r \in Clients => \A f \in Files : disk'[r][f] \in {None, Whole(f)}
  BY <1>1 DEF InvCopies, WrittenIsWhole
<1>10. r \in Programs => /\ client'[r] # "write" /\ (client'[r] = "wait" => asked'[r] \in Files)
                         /\ \A f \in Files : CopyOf(r, f)'
  BY <1>1 DEF InvCopies, CopyIsWholeOrReply, CopyOf, Whole
<1>11. \A q \in Readers \ {r} : /\ chan'[q] = chan[q] /\ client'[q] = client[q] /\ asked'[q] = asked[q]
                                /\ received'[q] = received[q] /\ disk'[q] = disk[q]
  BY <1>1, <1>2 DEF InvClients
<1> QED BY <1>1, <1>4, <1>7, <1>8, <1>9, <1>10, <1>11, ClientFrame

\* The client leaves; what it has written by then, or may write now, is right.
LEMMA LeaveCopies ==
  ASSUME InvCopies, InvServer', NEW r \in Readers, client[r] = "wait",
         NEW s \in {"prompt", "write", "dead"}, Leave(r, s),
         NEW all, received' \in {received, [received EXCEPT ![r] = all]},
         s = "write" => r \in Clients /\ asked[r] \in Files /\ received'[r] = Whole(asked[r]),
         \/ UNCHANGED disk /\ (r \in Programs => s = "dead")
         \/ r \in Programs /\ \E w \in {Whole(asked[r]), {Text}, {Junk}} :
                                disk' = [disk EXCEPT ![r][asked[r]] = w]
  PROVE  InvCopies'
<1>1. /\ client' = [client EXCEPT ![r] = s] /\ handler' = [handler EXCEPT ![r] = "none"]
      /\ toSend' = [toSend EXCEPT ![r] = {}] /\ chan' = [chan EXCEPT ![r] = <<>>]
      /\ UNCHANGED <<path, status, count, asked>>
  BY DEF Leave
<1>2. InvClients /\ InvType /\ r \in Conns BY ReaderIsConn DEF InvCopies, InvServer
<1>3. handler'[r] = "none" /\ chan'[r] = <<>> /\ client'[r] = s BY <1>1, <1>2 DEF InvClients, InvType
<1>4. DOMAIN received' = Readers BY <1>2 DEF InvClients
<1>5. DOMAIN disk' = Readers /\ \A q \in Readers : DOMAIN disk'[q] = Files BY <1>2 DEF InvClients
<1>6. InvClients' BY <1>1, <1>2, <1>4, <1>5 DEF InvClients
<1>7. InvReader(r)' BY <1>1, <1>3 DEF InvReader, Whole
<1>8. Sending(r)' BY <1>3 DEF Sending
<1>9. r \in Clients => \A f \in Files : disk'[r][f] \in {None, Whole(f)}
  BY ConnsAssumption DEF InvCopies, WrittenIsWhole
<1>10. ASSUME r \in Programs PROVE \A f \in Files : CopyOf(r, f)'
  <2>1. asked[r] \in Files /\ \A f \in Files : CopyOf(r, f)
    BY <1>10 DEF InvCopies, CopyIsWholeOrReply, CopyOf
  <2>2. CASE UNCHANGED disk /\ s = "dead" BY <1>3, <2>1, <2>2 DEF CopyOf, Whole
  <2>3. CASE \E w \in {Whole(asked[r]), {Text}, {Junk}} : disk' = [disk EXCEPT ![r][asked[r]] = w]
    <3>1. PICK w \in {Whole(asked[r]), {Text}, {Junk}} : disk' = [disk EXCEPT ![r][asked[r]] = w]
      BY <2>3
    <3>2. disk'[r][asked[r]] = w /\ \A f \in Files \ {asked[r]} : disk'[r][f] = disk[r][f]
      BY <1>2, <2>1, <3>1 DEF InvClients
    <3>3. \A f \in Files \ {asked[r]} : disk'[r][f] \in {None, Whole(f), {Text}, {Junk}}
      BY <2>1, <3>2 DEF CopyOf
    <3>4. \A f \in Files : disk'[r][f] \in {None, Whole(f), {Text}, {Junk}} BY <3>2, <3>3
    <3> QED BY <3>4 DEF CopyOf, Whole, Text, Junk
  <2> QED BY <1>10, <2>2, <2>3, ConnsAssumption
<1>11. r \in Programs => client'[r] # "write" /\ (client'[r] = "wait" => asked'[r] \in Files)
  BY <1>3, ConnsAssumption
<1>12. \A q \in Readers \ {r} : /\ chan'[q] = chan[q] /\ client'[q] = client[q] /\ asked'[q] = asked[q]
                                /\ received'[q] = received[q] /\ disk'[q] = disk[q]
  BY <1>1, <1>2 DEF InvClients
<1> QED BY <1>1, <1>2, <1>6, <1>7, <1>8, <1>9, <1>10, <1>11, <1>12, ClientFrame DEF InvType

\* A request is sent.
LEMMA SendCopies ==
  ASSUME InvCopies, InvServer', NEW r \in Readers, NEW f \in Files \cup {None}, Send(r, f),
         \/ r \in Clients /\ UNCHANGED disk
         \/ r \in Programs /\ f \in Files /\ disk' = [disk EXCEPT ![r][f] = {}]
  PROVE  InvCopies'
<1>1. /\ client[r] = "prompt" /\ handler[r] = "none"
      /\ handler' = [handler EXCEPT ![r] = "asked"] /\ path' = [path EXCEPT ![r] = f]
      /\ asked' = [asked EXCEPT ![r] = f] /\ client' = [client EXCEPT ![r] = "wait"]
      /\ received' = [received EXCEPT ![r] = {}] /\ UNCHANGED <<count, toSend, status, chan>>
  BY DEF Send, Accept
<1>2. InvClients /\ InvType /\ r \in Conns BY ReaderIsConn DEF InvCopies, InvServer
<1>3. /\ handler'[r] = "asked" /\ path'[r] = f /\ asked'[r] = f /\ client'[r] = "wait"
      /\ received'[r] = {}
  BY <1>1, <1>2 DEF InvClients, InvType
<1>4. InvClients' BY <1>1, <1>2 DEF InvClients
<1>5. chan'[r] = <<>> BY <1>1 DEF InvCopies, InvReader
<1>6. InvReader(r)'
  <2>1. Straight(r)' BY <1>3, <1>5 DEF Straight
  <2> QED BY <1>3, <2>1 DEF InvReader
<1>7. Sending(r)' BY <1>3 DEF Sending
<1>8. r \in Clients => \A g \in Files : disk'[r][g] \in {None, Whole(g)}
  BY ConnsAssumption DEF InvCopies, WrittenIsWhole
<1>9. ASSUME r \in Programs PROVE f \in Files /\ \A g \in Files : CopyOf(r, g)'
  <2>1. f \in Files /\ disk' = [disk EXCEPT ![r][f] = {}] BY <1>9, ConnsAssumption
  <2>2. disk'[r][f] = {} /\ \A g \in Files \ {f} : disk'[r][g] = disk[r][g]
    BY <1>2, <2>1 DEF InvClients
  <2>3. \A g \in Files : disk[r][g] \in {None, Whole(g), {Text}, {Junk}}
    BY <1>1, <1>9 DEF InvCopies, CopyIsWholeOrReply
  <2> QED BY <1>3, <2>1, <2>2, <2>3 DEF CopyOf, Whole, Text, Junk
<1>10. \A q \in Readers \ {r} : /\ chan'[q] = chan[q] /\ client'[q] = client[q] /\ asked'[q] = asked[q]
                                /\ received'[q] = received[q] /\ disk'[q] = disk[q]
  BY <1>1, <1>2 DEF InvClients
<1> QED BY <1>1, <1>2, <1>3, <1>4, <1>6, <1>7, <1>8, <1>9, <1>10, ClientFrame DEF InvType

LEMMA PythonCopies ==
  ASSUME InvCopies, InvServer', NEW c \in Clients, Client(c) \/ ShortRead(c)
  PROVE  InvCopies'
<1> c \in Readers /\ c \notin Programs BY ConnsAssumption DEF Readers
<1>1. CASE Receive(c)
  <2> DEFINE m == Head(chan[c])
             all == received[c] \cup {m.block}
  <2>1. /\ client[c] = "wait" /\ chan[c] # <<>>
        /\ IF m.status # "ok"
             THEN Leave(c, "prompt") /\ UNCHANGED <<received, disk>>
             ELSE /\ received' = [received EXCEPT ![c] = all]
                  /\ IF Cardinality(all) = m.count
                       THEN Leave(c, IF asked[c] = None THEN "prompt" ELSE "write") /\ UNCHANGED disk
                       ELSE Take(c)
    BY <1>1 DEF Receive
  <2>2. \/ /\ asked[c] \in Files /\ m.status = "ok" /\ Straight(c) /\ all \subseteq Whole(asked[c])
           /\ Cardinality(all) = m.count => all = Whole(asked[c])
        \/ all = {Text} /\ Cardinality(all) = m.count /\ (m.status # "ok" \/ asked[c] = None)
    BY <2>1, NextBlock
  <2>3. [received EXCEPT ![c] = all][c] = all BY DEF InvCopies, InvClients
  <2> HIDE DEF all
  <2>4. CASE m.status # "ok" BY <2>1, <2>4, LeaveCopies
  <2>5. CASE m.status = "ok" /\ Cardinality(all) = m.count /\ asked[c] = None
    BY <2>1, <2>5, LeaveCopies
  <2>6. CASE m.status = "ok" /\ Cardinality(all) = m.count /\ asked[c] # None
    <3>1. /\ Leave(c, "write") /\ received' = [received EXCEPT ![c] = all] /\ UNCHANGED disk
          /\ asked[c] \in Files /\ received'[c] = Whole(asked[c])
      BY <2>1, <2>2, <2>3, <2>6
    <3>2. /\ client[c] = "wait" /\ received' \in {received, [received EXCEPT ![c] = all]}
          /\ UNCHANGED disk /\ (c \in Programs => "write" = "dead")
      BY <2>1, <3>1
    <3>3. "write" \in {"prompt", "write", "dead"} /\ Leave(c, "write")
      BY <3>1
    <3>4. "write" = "write" => c \in Clients /\ asked[c] \in Files /\ received'[c] = Whole(asked[c])
      BY <3>1
    <3> QED BY <3>2, <3>3, <3>4, LeaveCopies
  <2>7. CASE m.status = "ok" /\ Cardinality(all) # m.count
    BY <2>1, <2>2, <2>7, TakeCopies
  <2> QED BY <2>4, <2>5, <2>6, <2>7
<1>2. CASE EndOfReply(c) BY <1>2, LeaveCopies DEF EndOfReply
<1>3. CASE ShortRead(c)
  <2>1. PICK s \in {"prompt", "dead"} : Leave(c, s) BY <1>3 DEF ShortRead
  <2> QED BY <1>3, <2>1, LeaveCopies DEF ShortRead
<1>4. CASE Write(c)
  <2>1. /\ client[c] = "write" /\ client' = [client EXCEPT ![c] = "prompt"]
        /\ disk' = [disk EXCEPT ![c][asked[c]] = received[c]]
        /\ UNCHANGED <<handler, path, count, toSend, status, chan, asked, received>>
    BY <1>4 DEF Write, serverVars
  <2>2. InvClients /\ InvReader(c) /\ asked[c] \in Files /\ received[c] = Whole(asked[c])
    BY <2>1 DEF InvCopies, InvReader
  <2>3. InvClients' BY <2>1, <2>2 DEF InvClients
  <2>4. client'[c] = "prompt" BY <2>1, <2>2 DEF InvClients
  <2>5. InvReader(c)' BY <2>1, <2>2, <2>4 DEF InvReader
  <2>6. Sending(c)' BY <2>1, ReaderIsConn DEF Sending, InvCopies
  <2>7. \A f \in Files : disk'[c][f] \in {None, Whole(f)}
    BY <2>1, <2>2 DEF InvClients, InvCopies, WrittenIsWhole
  <2>8. \A q \in Readers \ {c} : client'[q] = client[q] /\ disk'[q] = disk[q]
    BY <2>1, <2>2 DEF InvClients
  <2> QED BY <2>1, <2>3, <2>5, <2>6, <2>7, <2>8, ClientFrame
<1> QED BY <1>1, <1>2, <1>3, <1>4 DEF Client

LEMMA ProgramCopies ==
  ASSUME InvCopies, InvServer', NEW p \in Programs, Register(p) \/ GetFile(p) \/ CReceive(p) \/ CShortRead(p)
  PROVE  InvCopies'
<1> p \in Readers BY DEF Readers
<1>1. CASE Register(p)
  <2> DEFINE c == Late[p]
  <2>1. c \in Conns /\ c \notin Readers BY ConnsAssumption DEF Conns
  <2>2. /\ handler' = [handler EXCEPT ![c] = "asked"] /\ path' = [path EXCEPT ![c] = None]
        /\ UNCHANGED <<count, toSend, status, chan, clientVars>>
    BY <1>1 DEF Register, Accept
  <2> HIDE DEF c
  <2>3. InvType BY DEF InvCopies, InvServer
  <2>4. handler'[c] = "asked" BY <2>1, <2>2, <2>3 DEF InvType
  <2>5. Sending(c)' BY <2>4 DEF Sending
  <2>6. chan' \in [Readers -> Seq(Messages)] BY <2>2 DEF InvCopies, InvClients
  <2> QED BY <2>1, <2>2, <2>3, <2>5, <2>6, HandlerFrame DEF InvType
<1>2. CASE GetFile(p)
  <2>1. /\ Send(p, CFiles[requests[p]]) /\ disk' = [disk EXCEPT ![p][CFiles[requests[p]]] = {}]
        /\ CFiles[requests[p]] \in Files
    BY <1>2, CFilesAssumption DEF GetFile
  <2> QED BY <2>1, SendCopies
<1>3. CASE CReceive(p)
  <2> DEFINE m == Head(chan[p])
             haml == received[p] \cup {m.block}
  <2>1. /\ client[p] = "wait" /\ chan[p] # <<>> /\ received' = [received EXCEPT ![p] = haml]
        /\ IF Cardinality(haml) = m.count
             THEN Leave(p, "prompt") /\ disk' = [disk EXCEPT ![p][asked[p]] = haml]
             ELSE Take(p)
    BY <1>3 DEF CReceive
  <2>2. \/ /\ asked[p] \in Files /\ m.status = "ok" /\ Straight(p) /\ haml \subseteq Whole(asked[p])
           /\ Cardinality(haml) = m.count => haml = Whole(asked[p])
        \/ haml = {Text} /\ Cardinality(haml) = m.count /\ (m.status # "ok" \/ asked[p] = None)
    BY <2>1, NextBlock
  <2> HIDE DEF haml
  <2>3. CASE Cardinality(haml) = m.count
    <3>1. haml \in {Whole(asked[p]), {Text}, {Junk}} BY <2>2, <2>3
    <3>2. /\ client[p] = "wait" /\ Leave(p, "prompt")
          /\ received' \in {received, [received EXCEPT ![p] = haml]}
      BY <2>1, <2>3
    <3>3. \E w \in {Whole(asked[p]), {Text}, {Junk}} : disk' = [disk EXCEPT ![p][asked[p]] = w]
      BY <2>1, <2>3, <3>1
    <3> DEFINE Leaves == /\ "prompt" \in {"prompt", "write", "dead"} /\ "prompt" # "write"
                         /\ \/ UNCHANGED disk /\ (p \in Programs => "prompt" = "dead")
                            \/ p \in Programs /\ \E w \in {Whole(asked[p]), {Text}, {Junk}} :
                                                    disk' = [disk EXCEPT ![p][asked[p]] = w]
    <3>4. Leaves BY <3>3
    <3> QED BY <3>2, <3>4, LeaveCopies
  <2>4. CASE Cardinality(haml) # m.count BY <2>1, <2>2, <2>4, TakeCopies
  <2> QED BY <2>3, <2>4
<1>4. CASE CShortRead(p)
  <2>1. client[p] = "wait" /\ UNCHANGED received BY <1>4 DEF CShortRead
  <2>2. CASE Leave(p, "dead") /\ UNCHANGED disk BY <2>1, <2>2, LeaveCopies
  <2>3. CASE Leave(p, "prompt") /\ disk' = [disk EXCEPT ![p][asked[p]] = {Junk}]
    BY <2>1, <2>3, LeaveCopies
  <2> QED BY <1>4, <2>2, <2>3 DEF CShortRead
<1> QED BY <1>1, <1>2, <1>3, <1>4

LEMMA CopiesStep == InvCopies /\ [Next]_vars => InvCopies'
<1> SUFFICES ASSUME InvCopies, [Next]_vars PROVE InvCopies' OBVIOUS
<1>1. InvServer' BY ServerStep DEF InvCopies
<1>2. CASE \E c \in Conns : Handler(c) \/ CutHeader(c) \/ CutPath(c) BY <1>2, HandlerCopies
<1>3. CASE \E c \in Clients : Ask(c)
  <2>1. PICK c \in Clients, f \in Files \cup {None} : Send(c, f) /\ UNCHANGED disk BY <1>3 DEF Ask
  <2> QED BY <1>1, <2>1, SendCopies DEF Readers
<1>4. CASE \E c \in Clients : Client(c) \/ ShortRead(c) BY <1>1, <1>4, PythonCopies
<1>5. CASE \E p \in Programs : Register(p) \/ GetFile(p) \/ CReceive(p) \/ CShortRead(p)
  BY <1>1, <1>5, ProgramCopies
<1>6. CASE UNCHANGED vars
  <2>1. UNCHANGED <<handler, path, count, toSend, status, chan, client, asked, received, disk>>
    BY <1>6 DEF vars, serverVars, clientVars
  <2>2. \A r \in Readers : InvReader(r)' BY <2>1, SameReader DEF InvCopies
  <2>3. (\A c \in Conns : Sending(c))' BY <2>1 DEF InvCopies, Sending
  <2> QED BY <1>1, <2>1, <2>2, <2>3
    DEF InvCopies, InvClients, WrittenIsWhole, CopyIsWholeOrReply, Whole
<1> QED BY <1>2, <1>3, <1>4, <1>5, <1>6 DEF Next

\* client.py:121-137: whatever order the blocks come in and whatever reads return too little, the
\* Python client writes all of the server's file or nothing.
THEOREM PythonWritesWhole == Spec => []WrittenIsWhole
<1>1. InvCopies => WrittenIsWhole BY DEF InvCopies
<1> QED BY <1>1, CopiesInit, CopiesStep, PTL DEF Spec

\* networking.c:132-225: the copy of a C program is never a mixture of a file and a refusal.
THEOREM CWritesWholeOrReply == Spec => []CopyIsWholeOrReply
<1>1. InvCopies => CopyIsWholeOrReply BY DEF InvCopies
<1> QED BY <1>1, CopiesInit, CopiesStep, PTL DEF Spec
=============================================================================
