-------------------------- MODULE ServerConnector ---------------------------
(***************************************************************************)
(* client::ServerConnector and the code that uses it: connect (again after *)
(* a failure), fetch the sockets and the player's data, delete the sockets *)
(* that were fetched, destroy the connector.  The server and the clock run *)
(* beside ConnectToServer, which is cut where it looks at them.            *)
(*                                                                         *)
(* A socket object is named by its protocol and the attempt that made it;  *)
(* heap says what has become of it.                                        *)
(***************************************************************************)
EXTENDS Naturals, Sequences

CONSTANTS
  MaxAttempts,   \* bound: calls of ConnectToServer that open sockets
  MaxReplies,    \* bound: packets the server sends on one connection
  Timeout,       \* seconds ConnectToServer waits: 10 in the code
  NULL

Attempts == 1 .. MaxAttempts
Objects  == {"udp", "tcp"} \X Attempts

ASSUME ConnectorAssumption ==
  /\ MaxAttempts \in Nat /\ MaxReplies \in Nat /\ Timeout \in Nat
  /\ NULL \notin Objects

VARIABLES
  server,       \* its end of the connection: "open" or "closed"     (external)
  inbox,        \* what it has sent and nobody read                  (external)
  sent,         \* how many packets it has sent on this connection   (external)
  pc,           \* where the caller is
  attempt,      \* attempts so far
  elapsed,      \* time(0) - start
  heap,         \* each socket object: "none", "live", or deleted by "caller"
                \* or "connector"
  tcpSocket,    \* _tcpSocket
  udpSocket,    \* _udpSocket
  isConnected,  \* _isConnected
  playerID,     \* _playerID: "none", "received" or "freed" memory
  result,       \* of the last ConnectToServer: "none", "true", "false", "threw"
  fetched       \* the sockets the getters have returned

remote  == <<server, inbox, sent>>
members == <<tcpSocket, udpSocket, isConnected, playerID>>
vars    == <<remote, pc, attempt, elapsed, heap, members, result, fetched>>

Replies == {"accept", "reject", "other", "unreadable"}

TypeOK ==
  /\ server \in {"open", "closed"}
  /\ inbox \in Seq(Replies) /\ sent \in 0 .. MaxReplies /\ Len(inbox) <= sent
  /\ pc \in {"idle", "tcp", "send", "time", "poll", "spin", "faulted", "corrupted", "destroyed"}
  /\ attempt \in 0 .. MaxAttempts
  /\ elapsed \in 0 .. Timeout
  /\ heap \in [Objects -> {"none", "live", "caller", "connector"}]
  /\ tcpSocket \in Objects \cup {NULL} /\ udpSocket \in Objects \cup {NULL}
  /\ isConnected \in BOOLEAN
  /\ playerID \in {"none", "received", "freed"}
  /\ result \in {"none", "true", "false", "threw"}
  /\ fetched \subseteq Objects

Init ==
  /\ server = "closed"
  /\ inbox = <<>>
  /\ sent = 0
  /\ pc = "idle"
  /\ attempt = 0
  /\ elapsed = 0
  /\ heap = [o \in Objects |-> "none"]
  /\ tcpSocket = NULL
  /\ udpSocket = NULL
  /\ isConnected = FALSE
  /\ playerID = "none"
  /\ result = "none"
  /\ fetched = {}

-----------------------------------------------------------------------------
(* The server and the clock.                                               *)

Reply(r) ==
  /\ pc \in {"time", "poll"}
  /\ server = "open"
  /\ sent < MaxReplies
  /\ sent' = sent + 1
  /\ inbox' = Append(inbox, r)
  /\ UNCHANGED <<server, pc, attempt, elapsed, heap, members, result, fetched>>

ServerEnds ==
  /\ server = "open"
  /\ server' = "closed"
  /\ UNCHANGED <<inbox, sent, pc, attempt, elapsed, heap, members, result, fetched>>

Tick ==
  /\ pc \in {"time", "poll"}
  /\ elapsed < Timeout
  /\ elapsed' = elapsed + 1
  /\ UNCHANGED <<remote, pc, attempt, heap, members, result, fetched>>

-----------------------------------------------------------------------------
(* ConnectToServer                                                         *)

MayConnect == ~ isConnected

AlreadyConnected ==
  /\ pc = "idle"
  /\ isConnected
  /\ result' = "true"
  /\ UNCHANGED <<remote, pc, attempt, elapsed, heap, members, fetched>>

(* new Socket(UDP, ...): an exception leaves everything as it was.         *)
OpenUdp ==
  /\ pc = "idle"
  /\ MayConnect
  /\ attempt < MaxAttempts
  /\ attempt' = attempt + 1
  /\ \/ /\ heap' = [heap EXCEPT ![<<"udp", attempt'>>] = "live"]
        /\ udpSocket' = <<"udp", attempt'>>
        /\ pc' = "tcp"
        /\ UNCHANGED result
     \/ result' = "threw" /\ UNCHANGED <<heap, udpSocket, pc>>
  /\ UNCHANGED <<remote, elapsed, tcpSocket, isConnected, playerID, fetched>>

(* Mutant: the new connection is read from what the last one left unread.  *)
OpenTcpReusesStream ==
  /\ pc = "tcp"
  /\ heap' = [heap EXCEPT ![<<"tcp", attempt>>] = "live"]
  /\ tcpSocket' = <<"tcp", attempt>>
  /\ server' = "open" /\ sent' = 0 /\ inbox' = inbox
  /\ pc' = "send"
  /\ UNCHANGED <<attempt, elapsed, udpSocket, isConnected, playerID, result, fetched>>

(* new SocketTCP: connects or throws, so IsConnectionOpen never fails.     *)
OpenTcp ==
  /\ pc = "tcp"
  /\ \/ /\ heap' = [heap EXCEPT ![<<"tcp", attempt>>] = "live"]
        /\ tcpSocket' = <<"tcp", attempt>>
        /\ server' = "open"
        /\ inbox' = <<>> /\ sent' = 0
        /\ pc' = "send"
        /\ UNCHANGED result
     \/ /\ result' = "threw"
        /\ pc' = "idle"
        /\ UNCHANGED <<heap, tcpSocket, remote>>
  /\ UNCHANGED <<attempt, elapsed, udpSocket, isConnected, playerID, fetched>>

(* CleanUpSockets                                                          *)
CleanUpSockets ==
  /\ heap' = [o \in Objects |-> IF o \in {tcpSocket, udpSocket} THEN "connector" ELSE heap[o]]
  /\ tcpSocket' = NULL
  /\ udpSocket' = NULL

ReturnFalse ==
  /\ CleanUpSockets
  /\ result' = "false"
  /\ pc' = "idle"
  /\ UNCHANGED <<isConnected, playerID>>

(* SendPacket(PACKET_JOIN_REQUEST); only a server that is gone can make it *)
(* fail.                                                                   *)
SendRequest ==
  /\ pc = "send"
  /\ \/ pc' = "time" /\ elapsed' = 0 /\ UNCHANGED <<heap, members, result>>
     \/ server = "closed" /\ ReturnFalse /\ UNCHANGED elapsed
  /\ UNCHANGED <<remote, attempt, fetched>>

(* Mutant: the clock is not looked at.                                     *)
KeepWaitingForever ==
  /\ pc = "time"
  /\ pc' = "poll"
  /\ UNCHANGED <<remote, attempt, elapsed, heap, members, result, fetched>>

(* The outer loop looks at the clock, and only there.                      *)
KeepWaiting ==
  /\ pc = "time"
  /\ elapsed < Timeout
  /\ pc' = "poll"
  /\ UNCHANGED <<remote, attempt, elapsed, heap, members, result, fetched>>

(* Mutant: the sockets are only forgotten.                                 *)
TimeOutForgets ==
  /\ pc = "time"
  /\ elapsed >= Timeout
  /\ tcpSocket' = NULL
  /\ udpSocket' = NULL
  /\ result' = "false"
  /\ pc' = "idle"
  /\ UNCHANGED <<remote, attempt, elapsed, heap, isConnected, playerID, fetched>>

TimeOut ==
  /\ pc = "time"
  /\ elapsed >= Timeout
  /\ ReturnFalse
  /\ UNCHANGED <<remote, attempt, elapsed, fetched>>

(* HasActivity is false: sleep, and look at the clock again.               *)
SleepOn ==
  /\ pc = "poll"
  /\ inbox = <<>>
  /\ server = "open"
  /\ pc' = "time"
  /\ UNCHANGED <<remote, attempt, elapsed, heap, members, result, fetched>>

(* GetPacket returns NULL at the end of the stream and for what it cannot  *)
(* read; GetPacketType is called on it all the same.                       *)
UseNull ==
  /\ pc = "poll"
  /\ IF inbox = <<>> THEN server = "closed" ELSE Head(inbox) = "unreadable"
  /\ pc' = "faulted"
  /\ UNCHANGED <<remote, attempt, elapsed, heap, members, result, fetched>>

(* GetPacket never leaves its loop, which is what happens as long as       *)
(* ReadPacket does not store the packet's length (module Socket); the      *)
(* actions below are the code behind it.                                   *)
SpinInGetPacket ==
  /\ pc = "poll"
  /\ inbox # <<>> /\ Head(inbox) # "unreadable"
  /\ inbox' = Tail(inbox)
  /\ pc' = "spin"
  /\ UNCHANGED <<server, sent, attempt, elapsed, heap, members, result, fetched>>

(* A packet that is not the response: ignored.                             *)
IgnorePacket ==
  /\ pc = "poll"
  /\ inbox # <<>> /\ Head(inbox) = "other"
  /\ inbox' = Tail(inbox)
  /\ pc' = "poll"
  /\ UNCHANGED <<server, sent, attempt, elapsed, heap, members, result, fetched>>

Rejected ==
  /\ pc = "poll"
  /\ inbox # <<>> /\ Head(inbox) = "reject"
  /\ inbox' = Tail(inbox)
  /\ ReturnFalse
  /\ UNCHANGED <<server, sent, attempt, elapsed, fetched>>

(* Mutant: the datagram socket is forgotten once the answer is in.         *)
AcceptedForgetsSocket ==
  /\ pc = "poll"
  /\ inbox # <<>> /\ Head(inbox) = "accept"
  /\ inbox' = Tail(inbox)
  /\ pc' = "idle" /\ result' = "true"
  /\ isConnected' = TRUE
  /\ udpSocket' = NULL
  /\ UNCHANGED <<server, sent, attempt, elapsed, heap, tcpSocket, playerID, fetched>>

(* The response is deleted, and then its members are read: what was        *)
(* received, or what the allocator has put there.                          *)
Accepted ==
  /\ pc = "poll"
  /\ inbox # <<>> /\ Head(inbox) = "accept"
  /\ inbox' = Tail(inbox)
  /\ playerID' \in {"received", "freed"}
  /\ isConnected' = TRUE
  /\ result' = "true"
  /\ pc' = "idle"
  /\ UNCHANGED <<server, sent, attempt, elapsed, heap, tcpSocket, udpSocket, fetched>>

-----------------------------------------------------------------------------
(* The caller, between two calls.                                          *)

(* GetTCPSocket and GetUDPSocket; they throw unless connected, and neither *)
(* records that it was called: _tcpGet and _udpGet are never assigned.     *)
GetSocket(o) ==
  /\ pc = "idle"
  /\ isConnected
  /\ o \in {tcpSocket, udpSocket}
  /\ fetched' = fetched \cup {o}
  /\ UNCHANGED <<remote, pc, attempt, elapsed, heap, members, result>>

(* The caller deletes a socket it has fetched, once.  Deleting what is     *)
(* deleted already may go unnoticed or crash.                              *)
CallerDeletes(o) ==
  /\ pc \in {"idle", "destroyed"}
  /\ o \in fetched
  /\ heap[o] # "caller"
  /\ heap' = [heap EXCEPT ![o] = "caller"]
  /\ pc' \in {pc} \cup (IF heap[o] = "live" THEN {} ELSE {"corrupted"})
  /\ UNCHANGED <<remote, attempt, elapsed, members, result, fetched>>

(* ~ServerConnector deletes whatever its two pointers hold.                *)
Destroy ==
  /\ pc = "idle"
  /\ heap' = [o \in Objects |-> IF o \in {tcpSocket, udpSocket} THEN "connector" ELSE heap[o]]
  /\ pc' \in {"destroyed"}
       \cup (IF \E o \in Objects : o \in {tcpSocket, udpSocket} /\ heap[o] # "live"
             THEN {"corrupted"} ELSE {})
  /\ UNCHANGED <<remote, attempt, elapsed, members, result, fetched>>

-----------------------------------------------------------------------------
ConnectToServer ==
  \/ AlreadyConnected \/ OpenUdp \/ OpenTcp \/ SendRequest
  \/ KeepWaiting \/ TimeOut \/ SleepOn
  \/ UseNull \/ SpinInGetPacket \/ IgnorePacket \/ Rejected \/ Accepted

Caller == Destroy \/ \E o \in Objects : GetSocket(o) \/ CallerDeletes(o)

Next ==
  \/ \E r \in Replies : Reply(r)
  \/ ServerEnds
  \/ Tick
  \/ ConnectToServer
  \/ Caller

Spec == Init /\ [][Next]_vars

(* A call, once made, is executed, and time passes; the server owes        *)
(* nothing.                                                                *)
FairSpec == Spec /\ WF_vars(ConnectToServer /\ pc # "idle") /\ WF_vars(Tick)

-----------------------------------------------------------------------------
(* Properties.                                                             *)

(* However ConnectToServer came to return false, it has left no pointer    *)
(* behind and deleted both sockets of its attempt; while connected, called *)
(* again or not, the getters return two sockets of the same attempt, which *)
(* nobody but their caller has deleted.                                    *)
SocketsMatchResult ==
  pc = "idle" =>
    /\ result = "false" =>
         /\ tcpSocket = NULL /\ udpSocket = NULL
         /\ \A p \in {"udp", "tcp"} : heap[<<p, attempt>>] # "live"
    /\ isConnected =>
         /\ tcpSocket = <<"tcp", attempt>> /\ udpSocket = <<"udp", attempt>>
         /\ \A o \in {tcpSocket, udpSocket} : heap[o] \in {"live", "caller"}

(* "The Socket instances returned by GetXxxSocket() are the responsibility *)
(* of the caller and will not be deleted by the ServerConnector": whatever *)
(* was fetched is deleted by nobody but the caller.                        *)
FetchedIsCallers == \A o \in fetched : heap[o] # "connector"

(* "Wait up to 10 seconds for a resopnse": against a server that does not  *)
(* send for ever a call of ConnectToServer ends, unless GetPacket does not *)
(* return or returns NULL.                                                 *)
WaitEnds == (pc \in {"tcp", "send", "time", "poll"}) ~> (pc \in {"idle", "faulted", "spin"})
=============================================================================
