------------------------- MODULE ConnectionListener -------------------------
(***************************************************************************)
(* ConnectionListener: the thread that runs TcpLoop, the server thread     *)
(* that calls HasNewConnection and GetNewSocket, and the vector they share *)
(* under _mutex.  Neither push_back nor erase is atomic: a thread works on *)
(* what it saw of the vector when it entered its critical section, and     *)
(* only the mutex keeps that from being stale when it writes.              *)
(*                                                                         *)
(* The owner may destroy the listener between two calls, whatever its      *)
(* thread is doing.  (In this program Server owns it for as long as the    *)
(* process lives: the one way out of ServerLoop is its PROTO_NONE branch.) *)
(***************************************************************************)
EXTENDS Naturals, Sequences

CONSTANTS Conns,     \* the connections made to the server's port
          NoSocket   \* NULL

ASSUME ListenerAssumption == NoSocket \notin Conns

VARIABLES
  unmade,          \* connections nobody has made yet                (external)
  backlog,         \* made, and not accepted                         (external)
  abortThreads,    \* _abortThreads
  mutex,           \* who holds _mutex: "free", "listener" or "server"
  newConnections,  \* _newConnections
  lpc,             \* the listener thread
  lview,           \* the vector as push_back works on it
  newSocket,       \* TcpLoop: new_socket
  spc,             \* the server thread
  sview,           \* the vector as size() and erase() work on it
  socket,          \* GetNewSocket: socket
  given            \* what GetNewSocket has returned                 (history)

network  == <<unmade, backlog>>
listener == <<lpc, lview, newSocket>>
server   == <<spc, sview, socket, given>>
vars     == <<network, abortThreads, mutex, newConnections, listener, server>>

TypeOK ==
  /\ unmade \in SUBSET Conns
  /\ backlog \in Seq(Conns)
  /\ abortThreads \in BOOLEAN
  /\ mutex \in {"free", "listener", "server"}
  /\ newConnections \in Seq(Conns)
  /\ lpc \in {"start", "loop", "lock", "push", "sleep", "ended", "threw"}
  /\ lview \in Seq(Conns)
  /\ newSocket \in Conns \cup {NoSocket}
  /\ spc \in {"poll", "count", "get", "take", "return", "join", "joined"}
  /\ sview \in Seq(Conns)
  /\ socket \in Conns \cup {NoSocket}
  /\ given \in Seq(Conns)

Init ==
  /\ unmade = Conns
  /\ backlog = <<>>
  /\ abortThreads = FALSE
  /\ mutex = "free"
  /\ newConnections = <<>>
  /\ lpc = "start"
  /\ lview = <<>>
  /\ newSocket = NoSocket
  /\ spc = "poll"
  /\ sview = <<>>
  /\ socket = NoSocket
  /\ given = <<>>

(* An exception leaving a thread function ends the process.                *)
Running == lpc # "threw"

-----------------------------------------------------------------------------
Connect(c) ==
  /\ c \in unmade
  /\ unmade' = unmade \ {c}
  /\ backlog' = Append(backlog, c)
  /\ UNCHANGED <<abortThreads, mutex, newConnections, listener, server>>

-----------------------------------------------------------------------------
(* TcpLoop                                                                 *)

(* The port is resolved and opened, or it is not: then TcpLoop throws.     *)
OpenPort ==
  /\ lpc = "start"
  /\ lpc' \in {"loop", "threw"}
  /\ UNCHANGED <<network, abortThreads, mutex, newConnections, lview, newSocket, server>>

(* Mutant: the flag is read once, before the loop.                         *)
SeesAbortBeforeLoop == FALSE

(* The loop condition, !*abort, is evaluated before every accept.          *)
SeesAbort == abortThreads

LeaveLoop ==
  /\ Running
  /\ lpc = "loop"
  /\ SeesAbort
  /\ lpc' = "ended"
  /\ UNCHANGED <<network, abortThreads, mutex, newConnections, lview, newSocket, server>>

(* Mutant: a NULL socket is queued as well.                                *)
AcceptUnchecked ==
  /\ lpc = "loop"
  /\ ~ SeesAbort
  /\ backlog = <<>>
  /\ lpc' = "lock"
  /\ UNCHANGED <<network, abortThreads, mutex, newConnections, lview, newSocket, server>>

(* SDLNet_TCP_Accept does not block: it returns NULL when nothing pends.   *)
AcceptNothing ==
  /\ lpc = "loop"
  /\ ~ SeesAbort
  /\ backlog = <<>>
  /\ lpc' = "sleep"
  /\ UNCHANGED <<network, abortThreads, mutex, newConnections, lview, newSocket, server>>

AcceptSocket ==
  /\ lpc = "loop"
  /\ ~ SeesAbort
  /\ backlog # <<>>
  /\ newSocket' = Head(backlog)
  /\ backlog' = Tail(backlog)
  /\ lpc' = "lock"
  /\ UNCHANGED <<unmade, abortThreads, mutex, newConnections, lview, server>>

Sleep ==
  /\ lpc = "sleep"
  /\ lpc' = "loop"
  /\ UNCHANGED <<network, abortThreads, mutex, newConnections, lview, newSocket, server>>

(* AddNewSocket: lock.                                                     *)
LockToAdd ==
  /\ lpc = "lock"
  /\ mutex = "free"
  /\ mutex' = "listener"
  /\ lview' = newConnections
  /\ lpc' = "push"
  /\ UNCHANGED <<network, abortThreads, newConnections, newSocket, server>>

(* AddNewSocket: push_back and unlock.                                     *)
PushBack ==
  /\ lpc = "push"
  /\ newConnections' = Append(lview, newSocket)
  /\ newSocket' = NoSocket
  /\ mutex' = "free"
  /\ lpc' = "sleep"
  /\ UNCHANGED <<network, abortThreads, lview, server>>

-----------------------------------------------------------------------------
(* The server thread.                                                      *)

(* ~ConnectionListener sets the flag and then joins the thread.            *)
Destroy ==
  /\ Running
  /\ spc = "poll"
  /\ abortThreads' = TRUE
  /\ spc' = "join"
  /\ UNCHANGED <<network, mutex, newConnections, listener, sview, socket, given>>

Join ==
  /\ spc = "join"
  /\ lpc = "ended"
  /\ spc' = "joined"
  /\ UNCHANGED <<network, abortThreads, mutex, newConnections, listener, sview,
                 socket, given>>

(* Mutant: GetNewSocket does not lock.                                     *)
MutexTaken == TRUE

(* The lock of GetNewSocket.                                               *)
MutexFree == mutex = "free"

(* HasNewConnection: lock.                                                 *)
LockToCount ==
  /\ Running
  /\ spc = "poll"
  /\ mutex = "free"
  /\ mutex' = "server"
  /\ sview' = newConnections
  /\ spc' = "count"
  /\ UNCHANGED <<network, abortThreads, newConnections, listener, socket, given>>

(* Mutant: an empty vector has a connection too.                           *)
AnyCount(count) == count >= 0

(* Mutant: the last connection is not seen.                                *)
MoreThanOne(count) == count > 1

Positive(count) == count > 0

(* HasNewConnection: size, unlock and return; HandleNewTCPConnections goes *)
(* on to GetNewSocket, or leaves its loop and comes back later.            *)
Count ==
  /\ Running
  /\ spc = "count"
  /\ mutex' = "free"
  /\ spc' = IF Positive(Len(sview)) THEN "get" ELSE "poll"
  /\ UNCHANGED <<network, abortThreads, newConnections, listener, sview, socket, given>>

(* GetNewSocket: lock.                                                     *)
LockToTake ==
  /\ Running
  /\ spc = "get"
  /\ MutexFree
  /\ mutex' = "server"
  /\ sview' = newConnections
  /\ spc' = "take"
  /\ UNCHANGED <<network, abortThreads, newConnections, listener, socket, given>>

(* GetNewSocket: the first element is read and erased; unlock.             *)
Take ==
  /\ Running
  /\ spc = "take"
  /\ IF sview = <<>> THEN UNCHANGED <<newConnections, socket>>
     ELSE socket' = Head(sview) /\ newConnections' = Tail(sview)
  /\ mutex' = "free"
  /\ spc' = "return"
  /\ UNCHANGED <<network, abortThreads, listener, sview, given>>

(* GetNewSocket returns, NULL included, and the server deals with it.      *)
Return ==
  /\ Running
  /\ spc = "return"
  /\ given' = IF socket = NoSocket THEN given ELSE Append(given, socket)
  /\ socket' = NoSocket
  /\ spc' = "poll"
  /\ UNCHANGED <<network, abortThreads, mutex, newConnections, listener, sview>>

-----------------------------------------------------------------------------
ListenerStep == OpenPort \/ LeaveLoop \/ AcceptNothing \/ AcceptSocket \/ Sleep
                  \/ LockToAdd \/ PushBack

(* The poll loop of the server thread has no lock of its own; waiting for  *)
(* the mutex it competes with the listener.                                *)
HasNewConnection == LockToCount \/ Count
GetNewSocket     == LockToTake \/ Take \/ Return
ServerStep       == Destroy \/ Join \/ HasNewConnection \/ GetNewSocket

Next == (\E c \in Conns : Connect(c)) \/ ListenerStep \/ ServerStep

Spec == Init /\ [][Next]_vars

(* Both threads are scheduled, and a thread that waits for the mutex gets  *)
(* it eventually although the other takes it again and again: the critical *)
(* sections are a few instructions, and between two of them the listener   *)
(* sleeps 100 ms and the server thread 40 ms.  Destroying is up to the     *)
(* owner.                                                                  *)
FairSpec ==
  /\ Spec
  /\ WF_vars(ListenerStep) /\ SF_vars(LockToAdd)
  /\ WF_vars(HasNewConnection \/ GetNewSocket) /\ SF_vars(LockToCount) /\ SF_vars(LockToTake)
  /\ WF_vars(Join)

-----------------------------------------------------------------------------
(* Properties.                                                             *)

(* Seen from outside, a connection waits from the moment it is accepted    *)
(* until GetNewSocket returns it: in the listener's hand, in the vector,   *)
(* or in GetNewSocket's.                                                   *)
InHand(s) == IF s = NoSocket THEN <<>> ELSE <<s>>
Waiting == InHand(socket) \o newConnections \o InHand(newSocket)

Queue == INSTANCE ConnectionQueue WITH waiting <- Waiting

(* Whatever the two threads do, the listener is a FIFO queue: nothing is   *)
(* lost, duplicated or overtaken between accept and GetNewSocket.          *)
ImplementsQueue == Queue!Spec

(* HandleNewTCPConnections uses what GetNewSocket returns without looking: *)
(* after HasNewConnection has said yes, it is never NULL.                  *)
NeverNull == spc = "return" => socket # NoSocket

(* ~ConnectionListener returns: the thread sees the flag and ends, unless  *)
(* it has thrown and taken the process with it.                            *)
DestructorReturns == (spc = "join") ~> (spc = "joined" \/ ~ Running)

(* Every connection that is made is handed out, unless the port could not  *)
(* be opened or the listener is destroyed.                                 *)
EveryoneHandedOut ==
  \A c \in Conns :
    (c \notin unmade) ~> ((\E k \in 1 .. Len(given) : given[k] = c)
                            \/ ~ Running \/ abortThreads)
=============================================================================
