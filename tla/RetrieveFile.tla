---------------------------- MODULE RetrieveFile ----------------------------
(***************************************************************************)
(* Fetching and serving files between the peers of                         *)
(* A4/python/first_peer/peer.py.  The client thread of a peer fetches one  *)
(* file at a time from another peer (to_server) and the handler threads of *)
(* that peer serve it (_handle_request), each peer doing both at once.     *)
(* Peers that run the C program only fetch: what they do is in CPeer.      *)
(* The list currently_retreiving, under its mutex, is to keep a peer from  *)
(* serving a file it has not fetched completely.                           *)
(*                                                                         *)
(* A file on disk is absent, partly written or whole.  What a peer         *)
(* receives is what the other one read: the checksums travel with the data *)
(* they were computed from, so they do not tell a part from the whole.     *)
(***************************************************************************)
EXTENDS Integers, Sequences

CONSTANTS Peers, Files,
          CPeers,     \* the peers that run A4/src/peer.c
          Held,       \* Held[p][f]: what p has of f at the start
          None,
          MaxFetches, \* bound on the files asked for
          MaxCrashes  \* bound on crashes

ASSUME HeldAssumption == Held \in [Peers -> [Files -> {"absent", "whole", "long"}]]
ASSUME CPeersAssumption == CPeers \subseteq Peers
ASSUME BoundsAssumption == MaxFetches \in Nat /\ MaxCrashes \in Nat
ASSUME NoneAssumption == None \notin Peers /\ None \notin Files /\ "lost" \notin Peers \cup {None}

VARIABLES disk,     \* disk[p][f]: "absent", "part", "whole", or "long", an older copy that is longer
          listed,   \* listed[p]: currently_retreiving
          client,   \* client[p]: where the client thread of p is
          file,     \* file[p]: the file it fetches
          got,      \* got[p]: what it received, or None
          handler,  \* handler[p]: where the handler that serves p is
          at,       \* at[p]: the peer it runs at
          mutex,    \* mutex[q]: the peer whose handler at q holds retrieving_mutex, None if it is
                    \* free, "lost" if a handler has ended with it
          fetches, crashes

vars == <<disk, listed, client, file, got, handler, at, mutex, fetches, crashes>>
counters == <<fetches, crashes>>

Begin(p) == IF p \in CPeers THEN "start" ELSE "prompt"

\* A peer accepts connections: its server thread runs, and in the C program there is none.
Listens(p) == p \notin CPeers /\ client[p] # "down"

Init == /\ disk = Held
        /\ listed = [p \in Peers |-> <<>>]
        /\ client = [p \in Peers |-> Begin(p)]
        /\ file = [p \in Peers |-> None]
        /\ got = [p \in Peers |-> None]
        /\ handler = [p \in Peers |-> "none"]
        /\ at = [p \in Peers |-> None]
        /\ mutex = [p \in Peers |-> None]
        /\ fetches = 0 /\ crashes = 0

Listed(p, f) == \E k \in DOMAIN listed[p] : listed[p][k] = f

\* list.remove: the first occurrence goes.
Without(s, f) == LET found == CHOOSE k \in DOMAIN s : s[k] = f /\ \A j \in 1 .. k - 1 : s[j] # f
                 IN SubSeq(s, 1, found - 1) \o SubSeq(s, found + 1, Len(s))

-----------------------------------------------------------------------------
(* The client thread.                                                      *)

\* A file is asked for and put on the list.
Ask(p) == \E f \in Files :
  /\ client[p] = "prompt" /\ fetches < MaxFetches /\ mutex[p] = None
  /\ file' = [file EXCEPT ![p] = f]
  /\ listed' = [listed EXCEPT ![p] = Append(@, f)]
  /\ client' = [client EXCEPT ![p] = "connect"]
  /\ fetches' = fetches + 1
  /\ UNCHANGED <<disk, got, handler, at, mutex, crashes>>

\* The request goes to a peer that runs; if that one does not, connecting raises, the client
\* thread ends and the list keeps the file.
Connect(p) == \E q \in Peers \ {p} :
  /\ client[p] = "connect" /\ handler[p] = "none"
  /\ IF Listens(q)
       THEN /\ client' = [client EXCEPT ![p] = "wait"]
            /\ handler' = [handler EXCEPT ![p] = "asked"]
            /\ at' = [at EXCEPT ![p] = q]
       ELSE client' = [client EXCEPT ![p] = "dead"] /\ UNCHANGED <<handler, at>>
  /\ UNCHANGED <<disk, listed, file, got, mutex, counters>>

\* Faulty: the file stays on the list if the reply was an error.
ReceiveKeepsEntry(p) ==
  /\ client[p] = "wait" /\ handler[p] \in {"sent", "refused"} /\ mutex[p] = None
  /\ listed' = IF handler[p] = "sent" THEN [listed EXCEPT ![p] = Without(@, file[p])] ELSE listed
  /\ client' = [client EXCEPT ![p] = IF handler[p] = "sent" THEN "open" ELSE "prompt"]
  /\ handler' = [handler EXCEPT ![p] = "none"]
  /\ UNCHANGED <<disk, file, got, at, mutex, counters>>

\* The reply is complete: the file leaves the list before it is written; an error reply is only
\* printed.
Receive(p) ==
  /\ client[p] = "wait" /\ handler[p] \in {"sent", "refused"} /\ mutex[p] = None
  /\ listed' = [listed EXCEPT ![p] = Without(@, file[p])]
  /\ client' = [client EXCEPT ![p] = IF handler[p] = "sent" THEN "open" ELSE "prompt"]
  /\ handler' = [handler EXCEPT ![p] = "none"]
  /\ UNCHANGED <<disk, file, got, at, mutex, counters>>

\* The connection broke: reading raises and the client thread ends.
Broken(p) == /\ client[p] = "wait" /\ handler[p] = "none"
             /\ client' = [client EXCEPT ![p] = "dead"]
             /\ UNCHANGED <<disk, listed, file, got, handler, at, mutex, counters>>

\* open(request, "wb") truncates the file, then it is written and closed.
Truncate(p) == /\ client[p] = "open"
               /\ disk' = [disk EXCEPT ![p][file[p]] = "part"]
               /\ client' = [client EXCEPT ![p] = "write"]
               /\ UNCHANGED <<listed, file, got, handler, at, mutex, counters>>

Write(p) == /\ client[p] = "write"
            /\ disk' = [disk EXCEPT ![p][file[p]] = got[p]]
            /\ client' = [client EXCEPT ![p] = "prompt"]
            /\ UNCHANGED <<listed, file, got, handler, at, mutex, counters>>

-----------------------------------------------------------------------------
(* The handler thread that serves p at q = at[p].                          *)

\* The path is checked; a file that does not exist is refused without a look at the list.
CheckPath(p) == /\ handler[p] = "asked" /\ disk[at[p]][file[p]] = "absent"
                /\ handler' = [handler EXCEPT ![p] = "refused"]
                /\ UNCHANGED <<disk, listed, client, file, got, at, mutex, counters>>

\* Otherwise the mutex is taken and the list is looked at.
Check(p) == /\ handler[p] = "asked" /\ disk[at[p]][file[p]] # "absent" /\ mutex[at[p]] = None
            /\ IF Listed(at[p], file[p])
                 THEN /\ handler' = [handler EXCEPT ![p] = "refuse"]
                      /\ mutex' = [mutex EXCEPT ![at[p]] = p]
                 ELSE handler' = [handler EXCEPT ![p] = "read"] /\ UNCHANGED mutex
            /\ UNCHANGED <<disk, listed, client, file, got, at, counters>>

\* Faulty: the release that follows the refusal is forgotten.
RefuseKeepsMutex(p) ==
  /\ handler[p] = "refuse"
  /\ handler' = [handler EXCEPT ![p] = IF client[p] = "wait" THEN "refused" ELSE "none"]
  /\ UNCHANGED <<disk, listed, client, file, got, at, mutex, counters>>

\* The refusal is sent while the mutex is held.  If the client has gone, sending it may raise, and
\* the handler ends without the release that was to follow.
Refuse(p) ==
  /\ handler[p] = "refuse"
  /\ handler' = [handler EXCEPT ![p] = IF client[p] = "wait" THEN "refused" ELSE "none"]
  /\ \/ mutex' = [mutex EXCEPT ![at[p]] = None]
     \/ client[p] # "wait" /\ mutex' = [mutex EXCEPT ![at[p]] = "lost"]
  /\ UNCHANGED <<disk, listed, client, file, got, at, counters>>

\* The file is read and sent.
Serve(p) == /\ handler[p] = "read"
            /\ got' = [got EXCEPT ![p] = disk[at[p]][file[p]]]
            /\ handler' = [handler EXCEPT ![p] = "sent"]
            /\ UNCHANGED <<disk, listed, client, file, at, mutex, counters>>

-----------------------------------------------------------------------------
\* A peer is killed, and its handlers with it; what they have sent still arrives.  A handler that
\* serves it goes on if it holds a mutex (what others do has no effect).  The peer comes back with
\* the files it had on disk.
Crash(q) == /\ client[q] # "down" /\ crashes < MaxCrashes
            /\ client' = [client EXCEPT ![q] = "down"]
            /\ listed' = [listed EXCEPT ![q] = <<>>]
            /\ handler' = [p \in Peers |->
                 IF \/ p = q /\ handler[p] # "refuse"
                    \/ at[p] = q /\ handler[p] \in {"asked", "refuse", "read"} THEN "none" ELSE handler[p]]
            /\ mutex' = [mutex EXCEPT ![q] = None]
            /\ crashes' = crashes + 1
            /\ UNCHANGED <<disk, file, got, at, fetches>>

Restart(q) == /\ client[q] = "down"
              /\ client' = [client EXCEPT ![q] = Begin(q)]
              /\ UNCHANGED <<disk, listed, file, got, handler, at, mutex, counters>>

Client(p) == Connect(p) \/ Receive(p) \/ Broken(p) \/ Truncate(p) \/ Write(p)
Handler(p) == CheckPath(p) \/ Check(p) \/ Refuse(p) \/ Serve(p)

Next == \/ \E p \in Peers \ CPeers : Ask(p) \/ Client(p)
        \/ \E p \in Peers : Handler(p) \/ Crash(p) \/ Restart(p)

Spec == Init /\ [][Next]_vars

\* Client and handler threads are scheduled; nobody has to ask for a file or restart a peer.
FairSpec == /\ Spec
            /\ \A p \in Peers \ CPeers : WF_vars(Client(p))
            /\ \A p \in Peers : WF_vars(Handler(p))

-----------------------------------------------------------------------------
(* Correctness.                                                            *)

\* peer.py:585-589: once the fetch has ended, well or not, the file is off the list: back at the
\* prompt a peer refuses none of its files any more.
NothingListedAtPrompt == \A p \in Peers : client[p] \in {"prompt", "open", "write"} => listed[p] = <<>>

\* A fetch ends, also when two peers ask each other for the file they are both fetching, and when
\* the other peer crashes: the client thread gets back to the prompt or ends, unless its own mutex
\* or the one of the peer it waits for is lost.
Stuck(p) == mutex[p] = "lost" \/ (client[p] = "wait" /\ mutex[at[p]] = "lost")
FetchEnds == \A p \in Peers :
  (client[p] = "connect") ~> (client[p] \in {"prompt", "dead", "down"} \/ Stuck(p))

\* peer.py:346-348: "as we aquire a mutex we need to make sure to release it in all circumstances".
MutexGivenBack == \A q \in Peers : (mutex[q] # None) ~> (mutex[q] = None)

\* peer.py:567-568: the list ensures we don't serve an incomplete file to another peer.
ServesOnlyWhole == \A p \in Peers : handler[p] = "sent" => got[p] = "whole"
=============================================================================
