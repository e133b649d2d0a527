---------------------- MODULE ConnectionListenerProofs ----------------------
(***************************************************************************)
(* ConnectionListener implements ConnectionQueue, for any connections.     *)
(***************************************************************************)
EXTENDS ConnectionListener, SequenceTheorems, TLAPS

-----------------------------------------------------------------------------
(* What moving a connection between the places it can wait in does to the  *)
(* sequence of waiting connections.                                        *)

(* A connection that accept returns goes behind everything waiting.        *)
LEMMA AcceptedIsLast ==
  ASSUME NEW h \in Seq(Conns), NEW s \in Seq(Conns), NEW c \in Conns
  PROVE  h \o s \o <<c>> = Append(h \o s \o <<>>, c)
<1>1. h \o s \in Seq(Conns)
  BY ConcatProperties
<1>2. h \o s \o <<>> = h \o s
  BY <1>1, ConcatEmptySeq
<1> QED  BY <1>1, <1>2, AppendIsConcat

(* push_back only moves a connection from the listener's hand to the       *)
(* vector: the abstract queue does not change.                             *)
LEMMA PushedStays ==
  ASSUME NEW h \in Seq(Conns), NEW s \in Seq(Conns), NEW c \in Conns
  PROVE  h \o Append(s, c) \o <<>> = h \o s \o <<c>>
<1>1. <<c>> \in Seq(Conns) /\ Append(s, c) \in Seq(Conns)
  BY AppendProperties
<1>2. Append(s, c) = s \o <<c>>
  BY AppendIsConcat
<1>3. h \o Append(s, c) \o <<>> = h \o Append(s, c)
  BY <1>1, ConcatProperties, ConcatEmptySeq
<1>4. h \o (s \o <<c>>) = h \o s \o <<c>>
  BY <1>1, ConcatAssociative
<1> QED  BY <1>2, <1>3, <1>4

(* Erasing the first element only moves it to the server's hand: the       *)
(* abstract queue does not change.                                         *)
LEMMA TakenStays ==
  ASSUME NEW s \in Seq(Conns), s # <<>>, NEW n
  PROVE  <<Head(s)>> \o Tail(s) \o n = <<>> \o s \o n
<1>1. Head(s) \in Conns /\ <<Head(s)>> \in Seq(Conns) /\ Tail(s) \in Seq(Conns)
  BY HeadTailProperties
<1>2. <<Head(s)>> \o Tail(s) = s
  <2> DEFINE t == <<Head(s)>> \o Tail(s)
  <2>1. t \in Seq(Conns) /\ Len(t) = 1 + Len(Tail(s))
        /\ \A k \in 1 .. 1 + Len(Tail(s)) :
             t[k] = IF k <= 1 THEN <<Head(s)>>[k] ELSE Tail(s)[k - 1]
    BY <1>1, ConcatProperties
  <2>2. Len(s) \in Nat \ {0} /\ Len(Tail(s)) = Len(s) - 1 /\ Head(s) = s[1]
        /\ \A k \in 1 .. Len(Tail(s)) : Tail(s)[k] = s[k + 1]
    BY HeadTailProperties, EmptySeq
  <2> HIDE DEF t
  <2>3. \A k \in 1 .. Len(t) : t[k] = s[k]
    BY <2>1, <2>2
  <2>4. t = s
    BY <2>1, <2>2, <2>3, SeqEqual
  <2> QED  BY <2>4 DEF t
<1>3. <<>> \o s = s
  BY ConcatEmptySeq
<1> QED  BY <1>2, <1>3

(* What GetNewSocket returns is the first of everything waiting.           *)
LEMMA ReturnedIsFirst ==
  ASSUME NEW c \in Conns, NEW s \in Seq(Conns), NEW n \in Seq(Conns)
  PROVE  /\ <<c>> \o s \o n # <<>>
         /\ Head(<<c>> \o s \o n) = c
         /\ Tail(<<c>> \o s \o n) = <<>> \o s \o n
<1> DEFINE r == s \o n
           w == <<c>> \o r
<1>1. <<c>> \in Seq(Conns) /\ r \in Seq(Conns)
  BY ConcatProperties
<1>2. <<c>> \o s \o n = w /\ <<>> \o s \o n = r
  BY <1>1, ConcatAssociative, ConcatEmptySeq
<1>3. w \in Seq(Conns) /\ Len(w) = 1 + Len(r)
      /\ \A k \in 1 .. 1 + Len(r) : w[k] = IF k <= 1 THEN <<c>>[k] ELSE r[k - 1]
  BY <1>1, ConcatProperties
<1> HIDE DEF w, r
<1>4. Len(r) \in Nat
  BY <1>1, LenProperties
<1>5. w # <<>> /\ Head(w) = c
  BY <1>3, <1>4
<1>6. Tail(w) \in Seq(Conns) /\ Len(Tail(w)) = Len(r)
      /\ \A k \in 1 .. Len(r) : Tail(w)[k] = w[k + 1]
  BY <1>3, <1>4, <1>5, HeadTailProperties
<1>7. \A k \in 1 .. Len(r) : Tail(w)[k] = r[k]
  BY <1>3, <1>4, <1>6
<1>8. Tail(w) = r
  BY <1>1, <1>6, <1>7, SeqEqual
<1> QED  BY <1>2, <1>5, <1>8

-----------------------------------------------------------------------------
(* The inductive invariant: who holds the mutex, that a view taken under   *)
(* it is still the vector, and that each hand is full exactly where the    *)
(* code has a socket in it.  Without the middle part push_back could undo  *)
(* an erase, and no step could be shown to keep the queue.                 *)

LockInv ==
  /\ lpc = "push" <=> mutex = "listener"
  /\ spc \in {"count", "take"} <=> mutex = "server"

ViewInv ==
  /\ lpc = "push" => lview = newConnections
  /\ spc \in {"count", "take"} => sview = newConnections
  /\ spc \in {"get", "take"} => newConnections # <<>>

HandInv ==
  /\ lpc \in {"lock", "push"} <=> newSocket # NoSocket
  /\ spc = "return" <=> socket # NoSocket

Inv == TypeOK /\ LockInv /\ ViewInv /\ HandInv

(* The inductive invariant holds when the thread is started.               *)
LEMMA InvInit == Init => Inv
<1> SUFFICES ASSUME Init PROVE Inv
  OBVIOUS
<1>1. TypeOK
  BY EmptySeq DEF Init, TypeOK
<1>2. LockInv /\ ViewInv /\ HandInv
  BY DEF Init, LockInv, ViewInv, HandInv
<1> QED  BY <1>1, <1>2 DEF Inv

(* Every step of either thread keeps the inductive invariant.              *)
LEMMA InvStep == Inv /\ [Next]_vars => Inv'
<1> SUFFICES ASSUME Inv, [Next]_vars PROVE Inv'
  OBVIOUS
<1> USE ListenerAssumption
<1> USE DEF Inv, TypeOK, LockInv, ViewInv, HandInv, network, listener, server
<1>1. CASE UNCHANGED vars
  BY <1>1 DEF vars
<1>2. ASSUME NEW c \in Conns, Connect(c) PROVE Inv'
  BY <1>2, AppendProperties DEF Connect
<1>3. CASE OpenPort
  BY <1>3 DEF OpenPort
<1>4. CASE LeaveLoop
  BY <1>4 DEF LeaveLoop
<1>5. CASE AcceptNothing
  BY <1>5 DEF AcceptNothing
<1>6. CASE AcceptSocket
  <2>1. Head(backlog) \in Conns /\ Tail(backlog) \in Seq(Conns)
    BY <1>6, HeadTailProperties DEF AcceptSocket
  <2> QED  BY <1>6, <2>1 DEF AcceptSocket
<1>7. CASE Sleep
  BY <1>7 DEF Sleep
<1>8. CASE LockToAdd
  BY <1>8 DEF LockToAdd
<1>9. CASE PushBack
  <2>1. newSocket \in Conns
    BY <1>9 DEF PushBack
  <2>2. Append(lview, newSocket) \in Seq(Conns) /\ Append(lview, newSocket) # <<>>
    BY <2>1, AppendProperties
  <2> QED  BY <1>9, <2>2 DEF PushBack
<1>10. CASE Destroy
  BY <1>10 DEF Destroy
<1>11. CASE Join
  BY <1>11 DEF Join
<1>12. CASE LockToCount
  BY <1>12 DEF LockToCount
<1>13. CASE Count
  <2>1. Positive(Len(sview)) => sview # <<>>
    BY EmptySeq DEF Positive
  <2> QED  BY <1>13, <2>1 DEF Count
<1>14. CASE LockToTake
  BY <1>14 DEF LockToTake, MutexFree
<1>15. CASE Take
  <2>1. sview # <<>> /\ Head(sview) \in Conns /\ Tail(sview) \in Seq(Conns)
    BY <1>15, HeadTailProperties DEF Take
  <2> QED  BY <1>15, <2>1 DEF Take
<1>16. CASE Return
  <2>1. socket \in Conns
    BY <1>16 DEF Return
  <2>2. Append(given, socket) \in Seq(Conns)
    BY <2>1, AppendProperties
  <2> QED  BY <1>16, <2>2 DEF Return
<1> QED
  BY <1>1, <1>2, <1>3, <1>4, <1>5, <1>6, <1>7, <1>8, <1>9, <1>10, <1>11, <1>12,
     <1>13, <1>14, <1>15, <1>16
     DEF Next, ListenerStep, ServerStep, HasNewConnection, GetNewSocket

(* The inductive invariant: types, who holds the mutex, what the server    *)
(* thread knows of the vector, and what each thread has in hand.           *)
THEOREM Invariance == Spec => []Inv
BY InvInit, InvStep, PTL DEF Spec

(* The two threads' variables keep their types, for any connections.       *)
THEOREM Typing == Spec => []TypeOK
<1>1. Inv => TypeOK
  BY DEF Inv
<1> QED  BY Invariance, <1>1, PTL

(* After HasNewConnection has returned true, GetNewSocket does not return  *)
(* NULL, so AcceptNewClient and the refusal may use what they are given.   *)
THEOREM GetNewSocketNeverNull == Spec => []NeverNull
<1>1. Inv => NeverNull
  BY DEF Inv, HandInv, NeverNull
<1> QED  BY Invariance, <1>1, PTL

-----------------------------------------------------------------------------
(* Refinement: accept is Accept, the return of GetNewSocket is HandOut,    *)
(* and every other step leaves the queue as it is.                         *)

(* What a thread has in hand is at most one connection.                    *)
LEMMA InHandType == Inv => InHand(socket) \in Seq(Conns) /\ InHand(newSocket) \in Seq(Conns)
BY DEF Inv, TypeOK, InHand

(* The initial state is one of the abstract queue.                         *)
LEMMA QueueInit == Init => Queue!Init
<1> SUFFICES ASSUME Init PROVE Waiting = <<>> /\ given = <<>>
  BY DEF Queue!Init
<1>1. InHand(socket) = <<>> /\ InHand(newSocket) = <<>> /\ newConnections = <<>>
  BY DEF Init, InHand
<1>2. <<>> \o <<>> = <<>>
  BY ConcatEmptySeq, EmptySeq
<1>3. Waiting = <<>>
  BY <1>1, <1>2 DEF Waiting
<1> QED  BY <1>3 DEF Init

(* Every step is one of the abstract queue, or leaves it alone.            *)
LEMMA QueueStep == Inv /\ [Next]_vars => [Queue!Next]_(Queue!vars)
<1> SUFFICES ASSUME Inv, [Next]_vars PROVE [Queue!Next]_(Queue!vars)
  OBVIOUS
<1> USE ListenerAssumption
<1>1. ASSUME UNCHANGED <<socket, newConnections, newSocket, given>>
      PROVE  UNCHANGED Queue!vars
  BY <1>1 DEF Queue!vars, Waiting, InHand
<1>2. CASE AcceptSocket
  <2>1. Head(backlog) \in Conns
    BY <1>2, HeadTailProperties DEF AcceptSocket, Inv, TypeOK
  <2>2. /\ newSocket = NoSocket /\ newSocket' = Head(backlog)
        /\ UNCHANGED <<socket, newConnections, given>>
    BY <1>2 DEF AcceptSocket, Inv, HandInv, server
  <2>3. /\ InHand(newSocket) = <<>> /\ InHand(newSocket)' = <<Head(backlog)>>
        /\ InHand(socket)' = InHand(socket)
    BY <2>1, <2>2 DEF InHand
  <2>4. Waiting' = Append(Waiting, Head(backlog))
    <3>1. Waiting' = InHand(socket) \o newConnections \o <<Head(backlog)>>
      BY <2>2, <2>3, Zenon DEF Waiting
    <3>2. Waiting = InHand(socket) \o newConnections \o <<>>
      BY <2>3, Zenon DEF Waiting
    <3> QED  BY <2>1, <3>1, <3>2, InHandType, AcceptedIsLast DEF Inv, TypeOK
  <2> QED  BY <2>1, <2>2, <2>4 DEF Queue!Next, Queue!Accept
<1>3. CASE PushBack
  <2>1. /\ newSocket \in Conns /\ newSocket' = NoSocket
        /\ newConnections' = Append(newConnections, newSocket)
        /\ UNCHANGED <<socket, given>>
    BY <1>3 DEF PushBack, Inv, TypeOK, ViewInv, HandInv, server
  <2>2. /\ InHand(newSocket) = <<newSocket>> /\ InHand(newSocket)' = <<>>
        /\ InHand(socket)' = InHand(socket)
    BY <2>1 DEF InHand
  <2>3. Waiting' = Waiting
    <3>1. Waiting' = InHand(socket) \o Append(newConnections, newSocket) \o <<>>
      BY <2>1, <2>2, Zenon DEF Waiting
    <3>2. Waiting = InHand(socket) \o newConnections \o <<newSocket>>
      BY <2>2, Zenon DEF Waiting
    <3>3. InHand(socket) \in Seq(Conns) /\ newConnections \in Seq(Conns)
      BY InHandType DEF Inv, TypeOK
    <3> QED  BY <2>1, <3>1, <3>2, <3>3, PushedStays
  <2> QED  BY <2>1, <2>3 DEF Queue!vars
<1>4. CASE Take
  <2>1. /\ newConnections # <<>> /\ socket = NoSocket
        /\ socket' = Head(newConnections) /\ newConnections' = Tail(newConnections)
        /\ UNCHANGED <<newSocket, given>>
    BY <1>4 DEF Take, Inv, ViewInv, HandInv, listener
  <2>2. Head(newConnections) \in Conns
    BY <2>1, HeadTailProperties DEF Inv, TypeOK
  <2>3. /\ InHand(socket) = <<>> /\ InHand(socket)' = <<Head(newConnections)>>
        /\ InHand(newSocket)' = InHand(newSocket)
    BY <2>1, <2>2 DEF InHand
  <2>4. Waiting' = Waiting
    <3>1. Waiting' = <<Head(newConnections)>> \o Tail(newConnections) \o InHand(newSocket)
      BY <2>1, <2>3, Zenon DEF Waiting
    <3>2. Waiting = <<>> \o newConnections \o InHand(newSocket)
      BY <2>3, Zenon DEF Waiting
    <3> QED  BY <2>1, <3>1, <3>2, TakenStays DEF Inv, TypeOK
  <2> QED  BY <2>1, <2>4 DEF Queue!vars
<1>5. CASE Return
  <2>1. /\ socket \in Conns /\ socket' = NoSocket
        /\ given' = Append(given, socket)
        /\ UNCHANGED <<newConnections, newSocket>>
    BY <1>5 DEF Return, Inv, TypeOK, HandInv, listener
  <2>2. /\ InHand(socket) = <<socket>> /\ InHand(socket)' = <<>>
        /\ InHand(newSocket)' = InHand(newSocket)
    BY <2>1 DEF InHand
  <2>3. Waiting # <<>> /\ Head(Waiting) = socket /\ Waiting' = Tail(Waiting)
    <3>1. Waiting' = <<>> \o newConnections \o InHand(newSocket)
      BY <2>1, <2>2, Zenon DEF Waiting
    <3>2. Waiting = <<socket>> \o newConnections \o InHand(newSocket)
      BY <2>2, Zenon DEF Waiting
    <3> QED  BY <2>1, <3>1, <3>2, InHandType, ReturnedIsFirst DEF Inv, TypeOK
  <2> QED  BY <2>1, <2>3 DEF Queue!Next, Queue!HandOut
<1>6. CASE UNCHANGED <<socket, newConnections, newSocket, given>>
  BY <1>1, <1>6
<1>7. AcceptSocket \/ PushBack \/ Take \/ Return
        \/ UNCHANGED <<socket, newConnections, newSocket, given>>
  BY DEF Next, vars, Connect, ListenerStep, ServerStep, HasNewConnection, GetNewSocket,
         OpenPort, LeaveLoop, AcceptNothing, Sleep, LockToAdd, Destroy, Join,
         LockToCount, Count, LockToTake, network, listener, server
<1> QED  BY <1>2, <1>3, <1>4, <1>5, <1>6, <1>7

(* The mutex makes the listener a FIFO queue: between accept and the       *)
(* return of GetNewSocket no connection is lost, duplicated or overtaken.  *)
THEOREM ListenerIsQueue == Spec => ImplementsQueue
<1>1. Init => Queue!Init
  BY QueueInit
<1>2. Inv /\ [Next]_vars => [Queue!Next]_(Queue!vars)
  BY QueueStep
<1> QED  BY <1>1, <1>2, Invariance, PTL DEF Spec, ImplementsQueue, Queue!Spec
=============================================================================
